\* Blocks of eight and three bytes, so that a table of five values of four bytes
\* takes three blocks and a string of five bytes two; no byte count leaves the 8-bit words.
SPECIFICATION FairSpec
CONSTANTS
  SmallBlock = 8
  LargeBlock = 3
  WordMax = 127
  MaxMultival = 4
  MaxCount = 5
INVARIANTS
  RangeIsAsked
  BlocksAreContiguous
  AmountFitsBlock
  ReturnTellsMoved
  WholeValuesAreStored
  BadIsNeverWritten
PROPERTIES
  CallsReturn
  MovesAsPromised
\* The call ends.
CHECK_DEADLOCK FALSE
