\* One userdata is enough: a script finalizer frees what a read has checked.
SPECIFICATION Spec
CONSTANTS
  Userdata = {u1, u2}
  GemdosBlock = {g1}
  LibcBlock = {m1}
  ForeignArea = {screen}
  NULL = NULL
  MaxSize = 2
  MaxAllocTries = 3
  MaxScriptFin = 1
INVARIANT ReadStaysInMemory
CHECK_DEADLOCK FALSE
