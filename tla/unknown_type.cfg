SPECIFICATION Spec
CONSTANTS
  A = A
  B = B
  C = C
  Table = Table
  Nil = Nil
  Names = {A, B, C}
  NameLength <- MCNameLength
  BufferLength = 4
  Decls <- MCDecls
  MaxOpen = 2
  MaxFields <- MCMaxFields
  UnknownTypes = TRUE
  NestExtends = FALSE
INVARIANTS
  FieldsAsDeclared
