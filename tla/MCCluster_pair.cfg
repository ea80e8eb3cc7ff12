CONSTANTS
  A = A
  B = B
  a1 = a1
  b1 = b1
  b2 = b2
  lb = lb
  Server = {A, B}
  Endpoint = {a1, lb, b1, b2}
  Seeds = {a1, lb}
  Command = {k1, k2}
  MaxChanges = 2
  NoNode = NoNode
  NoKey = NoKey
  Addrs <- PairAddrs
  Owner <- PairOwner
SPECIFICATION FairSpec
INVARIANTS
  TypeOK
  OneNodePerServer
  EveryServerFound
PROPERTIES
  NoLiveNodeLost
  CommandsSeeWholeSets
  EveryCommandGoesOn
