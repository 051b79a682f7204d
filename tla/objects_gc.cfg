SPECIFICATION FairSpec
CONSTANTS
  Outer = Outer
  Leaf = Leaf
  Nil = Nil
  Types <- MCTypes
  Fields <- MCFields
  Size <- MCSize
  HostData <- MCHostLeaf
  NullTypes = {Outer}
  Extent <- MCExtentOuter
  HostBlocks = {3}
  Vals = {3}
  KeySpan = 100
  Handles = {h1, h2, h3}
  Slots = {s1, s2}
  Finalizers = TRUE
INVARIANTS
  OneHandlePerStruct
  OwnershipExact
PROPERTIES
  HeapReleased
  KeepsPromise
