SPECIFICATION Spec
CONSTANTS
  a1 = a1
  a2 = a2
  p1 = p1
  p2 = p2
  p3 = p3
  p4 = p4
  Arbiters = {a1, a2}
  Procs = {p1, p2, p3}
  Home <- TwoAndOne
  Server = Server
  Offsets = {0}
  Zero = Zero
  Workloads <- TwoMachineWorkloads
  Killable = {}
SYMMETRY SameHome
INVARIANTS
  TypeOK
  NoProtocolPanic
  WriterAlone
  PagesAgree
  StepMatchesQueue
  BarrierHolds
  InitBlocks
PROPERTIES
  CoherentSpec
CHECK_DEADLOCK FALSE
