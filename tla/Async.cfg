SPECIFICATION FairSpec
CONSTANTS
  Exports = {x, y}
  Tasks = {a, b, c}
  NoExport = NoExport
  NoTask = NoTask
  MaxPauses = 3
  FutureReaders = {fr}
  FutureWriters = {fw}
  ByteReaders = {br}
  ByteWriters = {bw}
  StreamReaders = {sr}
  StreamWriters = {sw}
  NoEnd = NoEnd
  MaxEnds = 1
CONSTRAINT OneCallWithEnd
INVARIANTS
  TypeOK NobodyForgotten JoinedAreAwaited ExitsComplete TrapsForCause
  EndsTypeOK HandlesOwned WrittenBeforeDropped
PROPERTIES CallsExit ImplementsLoop
