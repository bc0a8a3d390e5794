\* Three searches, one of which the others can be copies of, over three files.
SPECIFICATION Spec
CONSTANTS
  Userdata = {d1, d2, d3}
  Entry = {1, 2, 3}
  Selection = {{1, 2, 3}, {1, 3}, {}}
  PROCESS = PROCESS
  NULL = NULL
INVARIANTS
  DtaIsRestored
PROPERTY EverySearchGoesOn
