\* Two userdata (an owner and an alias, or an owner and a new one) and one
\* block of each heap, so that allocations fail and collect; no symmetry,
\* which liveness checking does not allow.
SPECIFICATION FairSpec
CONSTANTS
  Userdata = {u1, u2}
  GemdosBlock = {g1}
  LibcBlock = {m1}
  ForeignArea = {screen}
  NULL = NULL
  MaxSize = 2
  MaxAllocTries = 3
  MaxScriptFin = 2
INVARIANTS
  TypeOK
  OwnedIsAllocated
  NoLeak
  NewUserdataIsPrivate
PROPERTIES
  OnlyOwnerFrees
  EnsmemAfterCollection
  CallsReturn
  CloseReleasesAll
  BlocksHaveOneOwner
\* The program ends after lua_close.
CHECK_DEADLOCK FALSE
