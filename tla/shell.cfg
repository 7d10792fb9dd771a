CONSTANTS
  Lines <- MCLines
  MaxLines = 3
  PipeSize = 4
  MaxProcess = 5
SPECIFICATION FairSpec
INVARIANTS
  TypeOK
  InputFits
  NoneLeftBehind
  PipeDrained
PROPERTIES
  ImplementsPipeline
  LineFinishesOrBlocks
CHECK_DEADLOCK FALSE
