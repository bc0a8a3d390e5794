\* Two userdata (two owners, or an owner and a new one), two handles, so that
\* one can be reused while the other is redirected, and two standard handles,
\* so that one file can be forced onto both; no symmetry, which liveness
\* checking does not allow.
SPECIFICATION FairSpec
CONSTANTS
  Userdata = {u1, u2}
  Handle = {h1, h2}
  StdHandle = {0, 1}
  NULL = NULL
  MaxScriptFin = 2
INVARIANTS
  TypeOK
  ValidIsOpen
  NoHandleLeak
PROPERTIES
  OnlyOwnerCloses
  DetachedStaysOpen
  CloseReleasesAll
  HandlesHaveOneOwner
\* The program ends after lua_close.
CHECK_DEADLOCK FALSE
