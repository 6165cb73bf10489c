SPECIFICATION Spec
CONSTANTS
  c1 = c1
  c2 = c2
  x = x
  y = y
  Clients = {c1}
  Sids = {x}
  Wants <- OneClient
  Buckets = {0}
  Hash <- SameBucket
  NServers = 1
  MaxQueue = 2
  Interactive = {c1}
  MaxAgain = 0
  Mortal = {}
  NoPeer = NoPeer
  NoSid = NoSid
  NoMsg = NoMsg
INVARIANTS
  DaemonSurvives
CHECK_DEADLOCK FALSE
