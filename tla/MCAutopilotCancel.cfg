SPECIFICATION Spec
CONSTANTS
  MaxLoops = 1
  RunTurns = 2
  DefaultTurns = 2
  MaxTokens = 0
  MaxCrashes = 0
PROPERTIES
  CancelStops
CHECK_DEADLOCK FALSE
