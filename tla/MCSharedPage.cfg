SPECIFICATION Spec
CONSTANTS
  Procs = {p1, p2}
  NProc = 2
INVARIANTS
  SharedPageIsProtected
CHECK_DEADLOCK FALSE
