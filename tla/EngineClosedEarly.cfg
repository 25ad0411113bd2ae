SPECIFICATION Spec
CONSTANTS
  Handlers = {h1, h2}
  Contexts = {c1, c2}
  MaxContexts = 2
  NoContext = NoContext
  Free = Free
INVARIANTS EngineClosedLast
