SPECIFICATION FairSpec
CONSTANTS
  Root = root
  Writers = {w, v}
  Others = {o}
  NoTask = NoTask
  Chunk = 2
  Incoming = 1
  ResponseNeedsBody = FALSE
INVARIANTS TypeOK NobodyForgotten HandledOnce SentIsFlushed FailsForCause
PROPERTY LoopReturns
