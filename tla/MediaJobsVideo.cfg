CONSTANTS
  j1 = j1
  j2 = j2
  hyphen = hyphen
  underscore = underscore
  None = None
  Jobs = {j1}
  Names = {hyphen, underscore}
  Alias <- MCAlias
  Files = {f1}
  KeyValues = {k1}
  MaxLives = 1
SPECIFICATION Spec
PROPERTIES VideoIsServed
CHECK_DEADLOCK FALSE
