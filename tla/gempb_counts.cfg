\* A count of -1, which a control array holds as 65535.
SPECIFICATION Spec
CONSTANTS
  WordMax = 31
  ShortMax = 7
  Size <- SmallSize
  MaxTop = 8
  MaxArg = 1
  MaxNegative = 1
INVARIANT CountsFit
CHECK_DEADLOCK FALSE
