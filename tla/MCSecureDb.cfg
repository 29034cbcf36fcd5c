\* One client of the database open at a time, over crashes and failures.
CONSTANTS
  t1 = t1
  t2 = t2
  Tables = {t1, t2}
  NamePrefix <- MCSameName
  Ids = {i1}
  Values = {v1, v2}
  Absent = Absent
  Clients = {c1}
  Shared = FALSE
SPECIFICATION Spec
INVARIANTS
  AckedDurable
  ReadsPermitted
  DanglingIsCut
PROPERTY ImplementsKeyValueStore
