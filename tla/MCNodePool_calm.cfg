CONSTANTS
  Call = {c1, c2}
  Sock = {s1, s2, s3, s4}
  Port = {p1}
  SeedPort = p1
  MaxPool = 1
  Peers = {"peers"}
  Drops = FALSE
  Sessions = FALSE
  NoSock = NoSock
  NoPort = NoPort
SPECIFICATION FairSpec
INVARIANTS
  NoSocketLost
  PoolWithinMax
  AdminErrorMeansUnapplied
PROPERTIES
  EveryRequestEnds
  EveryConnectEnds
CHECK_DEADLOCK FALSE
