SPECIFICATION FairSpec
CONSTANTS
  s1 = s1
  o1 = o1
  o2 = o2
  t1 = t1
  t2 = t2
  Nil = Nil
  Types = {s1}
  Objects = {o1, o2}
  Tables = {t1, t2}
  TypesFirst = TRUE
  HeldBefore = TRUE
  HostAtClose = FALSE
INVARIANTS
  FieldsAlive
  DataAlive
  
PROPERTIES
  Closes
CHECK_DEADLOCK FALSE
