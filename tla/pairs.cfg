SPECIFICATION FairSpec
CONSTANTS
  A = A
  B = B
  Table = Table
  Nil = Nil
  Names = {A, B}
  NameLength <- MCNameLength
  BufferLength = 2
  Decls <- MCDecls
  MaxOpen = 2
  MaxFields <- MCMaxFields
  UnknownTypes = FALSE
  NestExtends = FALSE
  Unread = {4}
  Redeclares = FALSE
INVARIANTS
  LoopOK
PROPERTIES
  LoopIsTraversal
  LoopEnds
