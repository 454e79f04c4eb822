CONSTANTS
  Block = 2
  LeadKeep = 2
  TrailKeep = 3
  MaxPieces = 3
  MaxSamples = 7
  MaxPush = 3

SPECIFICATION Spec

INVARIANTS
  TypeOK
  HearsASlice
  HearsAllSpeech
  JoinIsShort
