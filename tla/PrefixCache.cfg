SPECIFICATION CacheSpec
CONSTANTS
  Prompts <- MCPrompts
  KVBlockSize = 2  MinTokens = 2  MaxEntries = 2  TTL = 1
  ThresholdNum = 3  ThresholdDen = 4
  MaxStores = 3  MaxTime = 3
CHECK_DEADLOCK FALSE
INVARIANT HitIsSound
PROPERTY RemovalSparesTheLive
