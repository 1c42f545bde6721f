SPECIFICATION Spec
CONSTANTS
  Models = {a, b, c}
  Requests = {r1, r2}
  NoModel = NoModel
  NoOne = NoOne
  MaxLoaded = 2
  MaxSteps = 2
  MaxTime = 1
SYMMETRY ThreadsAlike
CHECK_DEADLOCK FALSE
INVARIANTS MemoryAccounted GeneratingIsResident
PROPERTY EvictsLeastRecentlyUsed
