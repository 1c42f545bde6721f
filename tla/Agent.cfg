SPECIFICATION FairSpec
CONSTANTS
  Threads = {agent, direct_}
  Runner = agent
  Dirs = {"root", "picked"}
  Root = "root"
  Missing = "missing"
  None = None
  Chars = {"a", "b"}
  Initial <- MCInitial
  Cap = 1
  MaxOut = 2
  McpTools = {"mcp_tool"}
  Texts <- MCTexts
  Calls <- MCCalls
  MaxCalls = 1
  MaxSteps = 2
  Letters <- CharSet
  Rank <- CharRank
  Patterns <- MCPatterns
  Names <- MCNames
CHECK_DEADLOCK FALSE
INVARIANTS GlobMeansIt ToolIsExact ShellAnswerIsTrue TranscriptIsPaired CallsAreTheModels
 
