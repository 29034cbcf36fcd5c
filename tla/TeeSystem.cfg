\* Two threads, one context, two sessions of a TA with any flags.
CONSTANTS
  Threads = {t1, t2}
  Contexts = {c1}
  Sessions = {s1, s2}
  Instances = {i1, i2}
  Addresses = {a1, a2}
  Data = {d0}
  DefaultData = d0
  Null = Null
  None = None
SPECIFICATION SystemSpec
INVARIANTS
  ContextOwned
  NoContextLeak
  ContextOutlivesSessions
  WorldsAgree
  FinalizedClean
  NothingLeft
PROPERTIES
  
  EventuallyFinalized
\* Every value has been dropped.
CHECK_DEADLOCK FALSE
