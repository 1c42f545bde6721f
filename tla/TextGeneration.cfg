SPECIFICATION FairSpec
CONSTANTS
  Scripts <- MCScripts
  Limits = {0, 1, 4}
  K = 3  PromptLen = 2  NCtx = 13
  Extra = 2  ExtCap = 3  Slack = 1  MinRoom = 2  MinExtra = 1  AnswerRoom = 2  Headroom = 1
CHECK_DEADLOCK FALSE
INVARIANTS ContextsAreSound EmitsTheTargetsTokens EndsInBounds
PROPERTY RequestEnds
