SPECIFICATION FairSpec
CONSTANTS
  None = None
  MaxU32 = 3
  DefaultLimit = 2
  Bodies <- MCBodies
  Histories = 3
  Capacity = 1
  FrameCapacity = 1
  MaxTokens = 3
  MaxBatch = 1
  MaxCalls = 2
CHECK_DEADLOCK FALSE
INVARIANTS
  TextsOnlyIfHeard
