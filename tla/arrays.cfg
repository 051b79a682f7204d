SPECIFICATION FairSpec
CONSTANTS
  True = True
  False = False
  Nil = Nil
  ByteBits = 2
  Addresses <- MCAddresses
  Objects <- MCObjects
  LuaVals <- MCLuaVals
  Capacity <- MCCapacity
  Counts = {0, 1, 2}
  Indices <- MCIndices
  IntSpan = 16
  Memories <- MCMemories
  Homes <- MCHomes
  Moves = FALSE
INVARIANTS
  TypeOK
  WellLaid
  ReadsBack
  ElementsInPlace
PROPERTIES
  Confined
  LoopIsTraversal
  LoopEnds
