SPECIFICATION Spec
CONSTANTS
  Names <- MCNames
  Graphs <- MCGraphs
  Files = {1, 2}
  MayBeNative <- MCNative
  Strays <- MCStrays
  MaxPackages = 3
  MaxInstalls = 2
INVARIANTS PrefetchComplete InstalledWhole
CHECK_DEADLOCK FALSE
