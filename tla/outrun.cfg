SPECIFICATION Spec
CONSTANTS
  u1 = u1
  t1 = t1
  Thread = Thread
  Header = Header
  Nil = Nil
  Userdata = {u1}
  Tables = {t1}
  SweepMax = 1
  MaxFull = 1
  Outruns = TRUE
INVARIANTS
  AllWhite
