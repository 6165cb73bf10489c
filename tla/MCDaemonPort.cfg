SPECIFICATION Spec
CONSTANTS
  c1 = c1
  c2 = c2
  x = x
  y = y
  Clients = {c1, c2}
  Sids = {x, y}
  Wants <- OneSession
  Buckets = {0}
  Hash <- SameBucket
  NServers = 3
  MaxQueue = 2
  Interactive = {c1}
  MaxAgain = 1
  Mortal = {}
  NoPeer = NoPeer
  NoSid = NoSid
  NoMsg = NoMsg
INVARIANTS
  PortIsOfSession
CHECK_DEADLOCK FALSE
