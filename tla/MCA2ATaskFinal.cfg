SPECIFICATION Spec
CONSTANTS
  Runner = runner
  Resumers = {r1}
  Cancellers = {c1}
PROPERTIES
  TerminalIsFinal
CHECK_DEADLOCK FALSE
