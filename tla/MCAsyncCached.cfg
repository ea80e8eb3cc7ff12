CONSTANTS
  Call = {c1, c2}
  Run = {r1, r2, r3}
  NoRun = NoRun
  TTL = 1
  MaxTime = 2
  MaxWrites = 1
SPECIFICATION FairSpec
INVARIANTS
  TypeOK
  AwaitedOnce
  NeverBackwards
PROPERTIES
  KeepsPromise
  EveryCallAnswered
