SPECIFICATION Spec
CONSTANTS
  MaxSize = 8
  Names = {0, 1}
VIEW BufferView
INVARIANTS
  TypeOK
  BlocksMerged
  BytesInPlace
  FullWhenAllReceived
PROPERTIES
  ImplementsAssembly
