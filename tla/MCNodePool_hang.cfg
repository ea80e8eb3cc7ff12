CONSTANTS
  Call = {c1}
  Sock = {s1, s2}
  Port = {p1}
  SeedPort = p1
  MaxPool = 1
  Peers = {"peers"}
  Drops = TRUE
  Sessions = FALSE
  NoSock = NoSock
  NoPort = NoPort
SPECIFICATION FairSpec
PROPERTIES
  EveryRequestEnds
CHECK_DEADLOCK FALSE
