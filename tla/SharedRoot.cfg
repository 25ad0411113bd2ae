SPECIFICATION Spec
CONSTANTS
  Callers = {k1, k2}
  Sandboxes = {s1, s2}
  Cells = {a, b}
  Roots = {r}
  RootOf <- SharedRoot
  Internal = Internal
  NoCell = NoCell
  NoSandbox = NoSandbox
  Free = Free
SYMMETRY Symmetry
INVARIANT OwnAnswer
