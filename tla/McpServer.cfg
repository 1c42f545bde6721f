SPECIFICATION FairSpec
CONSTANTS
  Main = Main
  h1 = h1  h2 = h2
  Handlers = {h1, h2}
  MaxSpawns = 3
  MaxCalls = 1
  MaxMishaps = 1
CHECK_DEADLOCK FALSE
INVARIANT OwnAnswer
PROPERTIES AloneIsSafe CallReturns
