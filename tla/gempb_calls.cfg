\* Calls of up to seven arguments: all that a trap takes, or pokes, a trap and
\* peeks.  The counts given to the traps are not negative.
SPECIFICATION Spec
CONSTANTS
  WordMax = 31
  ShortMax = 7
  Size <- SmallSize
  MaxTop = 8
  MaxArg = 2
  MaxNegative = 0
INVARIANTS
  ChecksAreExact
  TrapSeesItsArguments
  ArgumentsAreUsed
PROPERTIES
  ResultsAreTheTraps
  ParsingAdvances
