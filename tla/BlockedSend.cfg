SPECIFICATION FairSpec
CONSTANTS
  Root = root
  Writers = {w}
  Others = {}
  NoTask = NoTask
  Chunk = 1
  Incoming = 1
  ResponseNeedsBody = TRUE
PROPERTY LoopReturns
CHECK_DEADLOCK FALSE
