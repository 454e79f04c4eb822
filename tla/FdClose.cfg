CONSTANTS
  Contexts = {c1, c2}
  MaxDescriptor = 4
  MaxOther = 1
  Addresses = {a1, a2, a3, a4}
  Other = Other
  None = None

SPECIFICATION LifeSpec

CHECK_DEADLOCK FALSE

PROPERTIES
  OthersKeepTheirFiles
