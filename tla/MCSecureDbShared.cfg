\* Two sessions of the TA, each with a client of the same database.
CONSTANTS
  t1 = t1
  t2 = t2
  Tables = {t1, t2}
  NamePrefix <- MCSameName
  Ids = {i1}
  Values = {v1, v2}
  Absent = Absent
  Clients = {c1, c2}
  Shared = TRUE
SPECIFICATION Spec
INVARIANT AckedPutVisible
