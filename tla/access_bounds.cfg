\* Memories of up to nine bytes, which longs straddle; no sum leaves the words.
SPECIFICATION Spec
CONSTANTS
  WordMax = 63
  MaxMultival = 3
  MaxSize = 9
  MaxCount = 4
INVARIANTS
  AccessInside
  ChecksAreExact
  BadIsNeverStored
\* The call ends.
CHECK_DEADLOCK FALSE
