CONSTANTS
  MaxStarts = 3
  MaxTries = 2
  None = None

SPECIFICATION Spec

INVARIANTS
  ServedByItsOwn
