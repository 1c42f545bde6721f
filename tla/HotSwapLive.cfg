SPECIFICATION FairSpec
CONSTANTS
  Models = {a, b}
  Requests = {r1, r2}
  NoModel = NoModel
  NoOne = NoOne
  MaxLoaded = 1
  MaxSteps = 1
  MaxTime = 0
PROPERTY EveryRequestAnswered
CHECK_DEADLOCK FALSE
