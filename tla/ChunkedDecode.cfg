CONSTANTS
  ChunkSizes <- MCChunkSizes
  LeftContexts <- MCLeftContexts
  FirstChunks <- MCFirstChunks
  MaxNewTokens = 12

SPECIFICATION FairSpec

INVARIANTS
  TypeOK
  ContextKept
  ListenerIsFed

PROPERTIES
  DeliversFrames
  Terminates
