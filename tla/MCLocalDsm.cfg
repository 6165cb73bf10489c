SPECIFICATION FairSpec
CONSTANTS
  Procs = {p1, p2, p3}
  Stores = 2
INVARIANTS
  TypeOK
  LockIsExclusive
  GroupReady
  DestroyedByTheLast
  NobodyInterrupted
  NobodyLeftStopped
PROPERTY
  EveryoneFinishes
CHECK_DEADLOCK FALSE
