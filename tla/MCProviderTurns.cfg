SPECIFICATION Spec
CONSTANTS
  Prompts <- MCPrompts
  Usages <- MCUsages
  Outputs = {0, 7}
  Pieces = 2
  MaxBlocks = 2
  MaxTurns = 2
  None = None
INVARIANTS
  ToolsRoundTrip
  EndsOnce
  StreamsAreAccounted
CHECK_DEADLOCK FALSE
