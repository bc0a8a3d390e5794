\* Both sides of every limit.
SPECIFICATION ClockSpec
CONSTANTS
  Year <- Years
  Month <- Months
  Day <- Days
  Hour <- Hours
  Minute <- Minutes
  Second <- Seconds
INVARIANTS
  OnlyRealTimesAreSet
  GettersTellWhatWasSet
\* One call is made.
CHECK_DEADLOCK FALSE
