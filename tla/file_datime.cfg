\* One closed or detached file is enough.
SPECIFICATION Spec
CONSTANTS
  Userdata = {u1, u2}
  Handle = {h1, h2}
  StdHandle = {1}
  NULL = NULL
  MaxScriptFin = 1
INVARIANT DatimeUsesItsFile
CHECK_DEADLOCK FALSE
