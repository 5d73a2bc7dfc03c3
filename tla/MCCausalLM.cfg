CONSTANTS
  a = a
  b = b
  Token = {a, b}
  SystemPrompt <- MCSystemPrompt
  CacheSize = 7
  NChunks = 2
  BatchSizes = {1, 3}
  HeadSizes = {2, 3}
  Texts <- MCTexts
  Trees <- MCTrees
  MaxCalls = 3
SPECIFICATION Spec
CHECK_DEADLOCK FALSE
INVARIANTS TypeOK LogitsOfOwnText CachesFollowText
PROPERTY ImplementsCacheStore
