SPECIFICATION FairSpec
CONSTANTS
  r1 = r1  r2 = r2  r3 = r3
  Requests = {r1, r2, r3}
  Tokens <- MCTokens
  BlockSize = 2  PoolBlocks = 5
  MaxBatchSize = 2  MaxTokensPerBatch = 5  MaxQueueSize = 2
  MaxStarts = 2
CHECK_DEADLOCK FALSE
INVARIANTS ServedOnce PoolAccounted
PROPERTY RequestsProgress
