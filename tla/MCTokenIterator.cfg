SPECIFICATION FairSpec
CONSTANTS
  a = a
  nl = nl
  stop = stop
  Token <- MCToken
  StopTokens = {stop}
  SystemPrompt <- MCSystemPrompt
  Prompts <- MCPrompts
  CacheSize = 6
  BatchSize = 3
  MaxBatch = 2
  FirstToken = a
  Eos = stop
  Linefeed = nl
  LastN = 2
  PenalizeNl = FALSE
  TopK = 2
  Logits = {0, 1}
  MaxSteps = 3
  MaxRuns = 3
INVARIANTS
  TypeOK
  CacheFollowsText
  IgnoredEosNeverSampled
PROPERTIES
  Faithful
  GenerationEnds
CHECK_DEADLOCK FALSE
