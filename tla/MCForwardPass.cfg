SPECIFICATION PassFairSpec
CONSTANTS
  Threads <- MCThreads
  ChunkSize = 1
  VectorChunkSize = 2
  RowsPerDot = 1
  Layers = 2
  Heads = 2
  KvHeads = 1
  HeadSize = 1
  Hidden = 4
  Vocab = 3
  NeedBias = TRUE
  Ctx = 3
  Calls <- MCCalls
  MaxPasses = 2
  FloatSize = 4
  Line = 64
  QuantSize = 1
INVARIANTS
  PassTypeOK
  Together
  EveryElementOnce
  ConvertedBeforeUse
  ComputesRight
  CacheComplete
  RowsFit
  AreasFit
PROPERTIES
  PassEnds
CHECK_DEADLOCK FALSE
