SPECIFICATION FairSpec
CONSTANTS
  ReadSize = 2
  SecondarySize = 3
  WriteSize = 4
  LowWater = 2
  Startup = 1
  Slack = 0
  Setups <- ReaderOrWriter
  MaxCount = 2
INVARIANT LinesExact
PROPERTIES WriteReturns LineIsRead ReadTimesOut
CHECK_DEADLOCK FALSE
