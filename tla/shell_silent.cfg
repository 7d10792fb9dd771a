CONSTANTS
  Lines <- SilentLine
  MaxLines = 3
  PipeSize = 4
  MaxProcess = 5
SPECIFICATION FairSpec
PROPERTIES
  LineFinishes
CHECK_DEADLOCK FALSE
