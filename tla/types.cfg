SPECIFICATION Spec
CONSTANTS
  A = A
  B = B
  C = C
  Table = Table
  Nil = Nil
  Names = {A, B, C}
  NameLength <- MCNameLength
  BufferLength = 4
  Decls <- MCDecls
  MaxOpen = 2
  MaxFields <- MCMaxFields
  UnknownTypes = FALSE
  NestExtends = FALSE
INVARIANTS
  TypeOK
  ListsSorted
  ListsAgree
  FieldsAsDeclared
  LookupIsLatest
  TopIsOpen
PROPERTIES
  TypesKept
