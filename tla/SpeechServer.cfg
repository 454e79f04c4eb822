CONSTANTS
  Connections = {c1, c2}
  NoOne = NoOne
  c1 = c1
  c2 = c2
  PoolSizes <- OneOrTwo
  MaxRequests = 2
  MaxBlocks = 2

SPECIFICATION FairSpec

INVARIANTS
  TypeOK
  OneSynthesisAtATime
  ContextFreedLast
  AbandonedStreamStops

PROPERTIES
  EveryConnectionEnds
  DrainCompletes
