SPECIFICATION PassSpec
CONSTANTS
  Threads <- MCThreads
  ChunkSize = 2
  VectorChunkSize = 8
  RowsPerDot = 1
  Layers = 1
  Heads = 2
  KvHeads = 1
  HeadSize = 1
  Hidden = 4
  Vocab = 2
  NeedBias = FALSE
  Ctx = 12
  Calls <- MCTokens
  MaxPasses = 12
  FloatSize = 4
  Line = 8
  QuantSize = 1
INVARIANT
  AreasFit
CHECK_DEADLOCK FALSE
