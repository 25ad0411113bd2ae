SPECIFICATION Spec
CONSTANTS
  Chunks = 1
  Incoming = 1
  Names = {n}
  Modules = {m}
PROPERTY AdapterInPlace
