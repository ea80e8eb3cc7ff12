CONSTANTS
  Call = {c1, c2, c3}
  Sock = {s1, s2, s3, s4}
  Port = {p1, p2}
  SeedPort = p1
  MaxPool = 1
  Peers = {"peers"}
  Drops = FALSE
  Sessions = FALSE
  NoSock = NoSock
  NoPort = NoPort
SPECIFICATION Spec
SYMMETRY Symmetry
INVARIANTS
  AdminErrorMeansUnapplied
CHECK_DEADLOCK FALSE
