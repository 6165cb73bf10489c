SPECIFICATION FairSpec
CONSTANTS
  a1 = a1
  a2 = a2
  p1 = p1
  p2 = p2
  p3 = p3
  p4 = p4
  Arbiters = {a1, a2}
  Procs = {p1, p2}
  Home <- OneEach
  Server = Server
  Offsets = {0}
  Zero = Zero
  Workloads <- LiveWorkloads
  Killable = {p2}
PROPERTIES
  EveryoneStarts
  AcksArrive
  WriteGranted
  BarrierReleased
  FailureEndsSession
CHECK_DEADLOCK FALSE
