CONSTANTS
  Tokens <- MCTokens
  Requests <- MCRequests
  Languages <- MCLanguages
  Speakers <- MCSpeakers
  Nothing = Nothing
  MaxEntries = 2

SPECIFICATION Spec

INVARIANTS
  TypeOK
  PrefixIsFresh
  LayoutAddsUp

PROPERTIES
  BuildsStreams
