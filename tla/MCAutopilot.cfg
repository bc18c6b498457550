SPECIFICATION Spec
CONSTANTS
  MaxLoops = 2
  RunTurns = 3
  DefaultTurns = 2
  MaxTokens = 1
  MaxCrashes = 1
INVARIANTS
  TypeOK
  TurnsOnce
PROPERTIES
  StopsAfterCurrentTurn
  EveryRunEnds
  CompletionNotified
CHECK_DEADLOCK FALSE
