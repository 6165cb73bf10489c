SPECIFICATION FairSpec
CONSTANTS
  Procs = {p1, p2}
  Stores = 1
PROPERTY
  WritesAreAtomic
CHECK_DEADLOCK FALSE
