SPECIFICATION FairSpec
CONSTANTS
  a1 = a1
  a2 = a2
  p1 = p1
  p2 = p2
  p3 = p3
  p4 = p4
  Arbiters = {a1}
  Procs = {p1, p2}
  Home <- Pair
  Server = Server
  Offsets = {0}
  Zero = Zero
  Workloads <- OneWriteEach
  Killable = {}
PROPERTIES
  WriteProceeds
CHECK_DEADLOCK FALSE
