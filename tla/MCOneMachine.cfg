SPECIFICATION Spec
CONSTANTS
  a1 = a1
  a2 = a2
  p1 = p1
  p2 = p2
  p3 = p3
  p4 = p4
  Arbiters = {a1}
  Procs = {p1, p2, p3}
  Home <- Together
  Server = Server
  Offsets = {0}
  Zero = Zero
  Workloads <- OneMachineWorkloads
  Killable = {p2}
INVARIANTS
  NoProtocolPanic
  SingleWriter
  WriterAlone
  GrantAgreement
  BarrierHolds
  NobodyStoppedAtRelease
PROPERTIES
  CoherentSpec
CHECK_DEADLOCK FALSE
