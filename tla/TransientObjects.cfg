\* Two object values of a TA and an enumerator.
CONSTANTS
  Slots = {s1, s2}
  Handles = {h1, h2, h3}
  Keys = {k1, k2}
  MaxSize = 2
  Null = Null
  Absent = Absent
SYMMETRY Symmetry
SPECIFICATION ObjSpec
INVARIANTS
  ObjectOwned

  
  
\* A TA that panicked takes no further step.
CHECK_DEADLOCK FALSE
