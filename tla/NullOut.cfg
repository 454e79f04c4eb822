CONSTANTS
  Threads = {1, 2}
  MaxCalls = 2

SPECIFICATION Spec

INVARIANTS
  StreamNeedsNoOut
