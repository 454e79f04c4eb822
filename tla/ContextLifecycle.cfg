CONSTANTS
  Contexts = {c1, c2}
  MaxDescriptor = 4
  MaxOther = 1
  Addresses = {a1, a2, a3, a4}
  Other = Other
  None = None

SPECIFICATION LifeSpec

SYMMETRY Symmetry

CHECK_DEADLOCK FALSE

INVARIANTS
  LifeTypeOK
  FieldsAreLive
  FreedIsGone
  BackendOutlives
  MirrorIsOwn
