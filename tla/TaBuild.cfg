SPECIFICATION ScriptSpec
CONSTANTS
  Kits = {k1, k2}
  Compilers = {c1, c2}
  Targets = {t1, t2}
  MaxChanges = 3
INVARIANT FreshIsCurrent
PROPERTY Settles
CHECK_DEADLOCK FALSE
