\* Up to two variables and three arguments; the tail holds four bytes.
SPECIFICATION Spec
CONSTANTS
  Byte <- Bytes
  EnvString <- EnvStrings
  MaxEnv = 2
  Value <- Values
  MaxArgs = 3
  TailMax = 4
  MaxRewrites = 1
  EnvName <- EnvNames
  NIL = NIL
INVARIANTS
  ChildGetsWhatWasGiven
  CopyIsAsMeasured
  TailIsCutList
  TableAgreesWithGetenv
\* The call ends.
CHECK_DEADLOCK FALSE
