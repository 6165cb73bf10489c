SPECIFICATION Spec
CONSTANTS
  a1 = a1
  a2 = a2
  p1 = p1
  p2 = p2
  p3 = p3
  p4 = p4
  Arbiters = {a1}
  Procs = {p1, p2, p3, p4}
  Home <- AllFour
  Server = Server
  Offsets = {0}
  Zero = Zero
  Workloads <- TwoLeave
  Killable = {}
INVARIANTS
  BarrierSuspends
SYMMETRY SameHome
CHECK_DEADLOCK FALSE
