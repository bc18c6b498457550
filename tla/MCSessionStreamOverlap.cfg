SPECIFICATION Spec
CONSTANTS
  Runs = {r1, r2}
  NoRun = NoRun
INVARIANTS
  ReconnectFinds
CHECK_DEADLOCK FALSE
