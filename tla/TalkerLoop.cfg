CONSTANTS
  MaxSeqLen = 5
  Window = 3
  PromptLens <- MCPromptLens
  CodeGroups = 3
  MaxNewTokens = 4
  MaxSyntheses = 2

SPECIFICATION Spec

INVARIANTS
  TypeOK
  AttendsWholeSequence
  SubsequencesInOrder
  CancelWithinOneFrame
