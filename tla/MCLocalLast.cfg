SPECIFICATION Spec
CONSTANTS
  Procs = {p1, p2}
  Stores = 1
INVARIANT
  OnlyOneIsLast
CHECK_DEADLOCK FALSE
