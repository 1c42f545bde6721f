SPECIFICATION Spec
CONSTANTS
  MaxBlocks = 4
  BlockSize = 2
  TokenCounts <- Lengths
  MaxSequences = 3
  MaxAccess = 6
CHECK_DEADLOCK FALSE
INVARIANT BlocksAccounted
PROPERTIES EvictsOldestFirst EvictionMakesRoom ImplementsBlockPool
