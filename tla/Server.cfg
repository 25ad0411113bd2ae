SPECIFICATION FairSpec
CONSTANTS
  Handlers = {h1, h2}
  Contexts = {c1, c2}
  MaxContexts = 1
  NoContext = NoContext
  Free = Free
INVARIANTS TypeOK CapRespected DeadContextForgotten CellIsolation DecodedOwned LeftToHandlers
PROPERTIES DefaultStable Refinement RequestsAnswered RetiredGetsClosed IdleReclaimed CloseReturns
