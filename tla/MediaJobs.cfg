CONSTANTS
  j1 = j1
  j2 = j2
  hyphen = hyphen
  underscore = underscore
  None = None
  Jobs = {j1, j2}
  Names = {hyphen, underscore}
  Alias <- MCAlias
  Files = {f1, f2}
  KeyValues = {k1}
  MaxLives = 2
SPECIFICATION Spec
CHECK_DEADLOCK FALSE
INVARIANTS JobKeepsItsModel QueuedHasAThread SeededBeforeServing
SYMMETRY JobsAlike
PROPERTY ImplementsLifecycle
