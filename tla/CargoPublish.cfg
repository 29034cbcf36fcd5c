SPECIFICATION Spec
CONSTANTS
  Absent = Absent
  Builds = {b1, b2}
  MaxEdits = 2
INVARIANTS
  PublishedWhole
  UnreadableOnlyMidway
PROPERTY OwnProduct
CHECK_DEADLOCK FALSE
