SPECIFICATION FairSpec
CONSTANTS
  c1 = c1
  c2 = c2
  x = x
  y = y
  Clients = {c1, c2}
  Sids = {x, y}
  Wants <- TwoClients
  Buckets = {0}
  Hash <- SameBucket
  NServers = 3
  MaxQueue = 2
  Interactive = {c1}
  MaxAgain = 1
  Mortal = {1}
  NoPeer = NoPeer
  NoSid = NoSid
  NoMsg = NoMsg
INVARIANTS
  TypeOK
  NoPanic
  AnswerIsRight
  OneServer
  ReadyMeansReadable
PROPERTIES
  DirectorySpec
  EveryoneAnswered
CHECK_DEADLOCK FALSE
