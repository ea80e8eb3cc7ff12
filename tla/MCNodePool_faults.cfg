CONSTANTS
  Call = {c1, c2}
  Sock = {s1, s2, s3, s4}
  Port = {p1}
  SeedPort = p1
  MaxPool = 1
  Peers = {"peers"}
  Drops = TRUE
  Sessions = TRUE
  NoSock = NoSock
  NoPort = NoPort
SPECIFICATION Spec
SYMMETRY Symmetry
INVARIANTS
  TypeOK
  ExclusiveSockets
  AuthenticatedUse
  SocketsAccountedFor
  PoolWithinMaxAndLogins
CHECK_DEADLOCK FALSE
