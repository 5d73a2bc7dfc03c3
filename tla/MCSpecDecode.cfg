SPECIFICATION FairSpec
CONSTANTS
  a = a
  b = b
  Token = {a, b}
  StopTokens = {}
  SystemPrompt <- MCSystemPrompt
  Prompts <- MCPrompts
  CacheSize <- MCCacheSize
  MaxBatch <- MCMaxBatch
  DraftBatch = 4
  TopK = 2
  MaxFanOut = 2
  EarlyStop = TRUE
  MaxSteps = 2
  MaxRuns = 2
INVARIANTS
  TypeOK
  NothingOpenPastPosition
  CachesFollowText
  DraftedFromOwnBranch
  NoAssertionFails
  TokensInOrder
PROPERTIES
  Lossless
  GenerationEnds
CHECK_DEADLOCK FALSE
