CONSTANTS
  Call = {c1, c2, c3}
  Sock = {s1, s2, s3}
  Port = {p1, p2}
  SeedPort = p1
  MaxPool = 1
  Peers = {"peers"}
  Drops = FALSE
  Sessions = TRUE
  NoSock = NoSock
  NoPort = NoPort
SPECIFICATION Spec
SYMMETRY Symmetry
INVARIANTS
  SocketsAccountedFor
CHECK_DEADLOCK FALSE
