\* Words of four bits, and offsets and counts of any size a word holds.
SPECIFICATION Spec
CONSTANTS
  WordMax = 7
  MaxMultival = 2
  MaxSize = 2
  MaxCount = 7
INVARIANT AccessInside
CHECK_DEADLOCK FALSE
