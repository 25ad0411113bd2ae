SPECIFICATION FairSpec
CONSTANTS
  Callers = {k1, k2}
  Sandboxes = {s1}
  Cells = {a, b}
  Roots = {s1}
  RootOf <- PrivateRoots
  Internal = Internal
  NoCell = NoCell
  NoSandbox = NoSandbox
  Free = Free
INVARIANTS TypeOK OwnAnswer Exclusive MirrorConsumed
PROPERTIES ImplementsContract EffectsKept CallsReturn
