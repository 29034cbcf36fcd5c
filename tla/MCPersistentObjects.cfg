\* Two instances on one storage, with corruption reported and handles kept.
CONSTANTS
  Tas = {t1, t2}
  Ids = {i1, i2}
  Handles = {h1, h2}
  Bytes = {1}
  MaxPos = 2
  KeepsHandle = TRUE
  Null = Null
  Absent = Absent
SYMMETRY Symmetry
SPECIFICATION Spec
INVARIANTS
  HandleOwned
  
PROPERTY ReadRemainingExact
\* An instance that panicked takes no further step.
CHECK_DEADLOCK FALSE
