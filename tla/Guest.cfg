SPECIFICATION Spec
CONSTANTS
  Chunks = 2
  Incoming = 2
  Names = {n}
  Modules = {m}
INVARIANT CompleteOnly
PROPERTIES ChildrenFirst AdapterUnlessReloaded
