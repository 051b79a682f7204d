SPECIFICATION Spec
CONSTANTS
  Outer = Outer
  Leaf = Leaf
  Nil = Nil
  Types <- MCTypes
  Fields <- MCFields
  Size <- MCSize
  HostData <- MCHostData
  NullTypes = {Leaf}
  Extent <- MCExtentLeaf
  HostBlocks = {1, 3}
  Vals = {0, 2}
  KeySpan = 100
  Handles = {h1, h2, h3}
  Slots = {s1, s2}
  Finalizers = FALSE
SYMMETRY Symmetry
INVARIANTS
  TypeOK
  HandleHasRequestedType
  HandleHasRequestedData
  ReadonlyPreserved
  OneHandlePerStruct
  OwnershipExact
  EqIffSameStruct
  UsableIsBacked
PROPERTIES
  MemoryWrites
