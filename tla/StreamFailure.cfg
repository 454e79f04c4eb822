CONSTANTS
  Connections = {c1, c2}
  NoOne = NoOne
  c1 = c1
  c2 = c2
  PoolSizes <- Two
  MaxRequests = 1
  MaxBlocks = 2

SPECIFICATION FairSpec

PROPERTIES
  FailureEndsInEmptyBody
