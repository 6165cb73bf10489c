SPECIFICATION FairSpec
CONSTANTS
  Procs = {p1, p2, p3}
  NProc = 4
INVARIANTS
  TypeOK
  OneArbiter
  ListenerReady
PROPERTIES
  PageSurvives
  EveryoneReady
CHECK_DEADLOCK FALSE
