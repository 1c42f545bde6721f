CONSTANTS
  Pieces <- MCPieces
  Stop <- MCStop
  LeadMax = 2
  MaxBytes = 4
  MaxIdle = 2
SPECIFICATION StreamSpec
INVARIANTS TextSurvivesCuts OnlyTextIsShown DrainedIsComplete
PROPERTIES HeldTextIsNeverDropped StreamCloses
