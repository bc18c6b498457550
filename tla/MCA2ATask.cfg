SPECIFICATION Spec
CONSTANTS
  Runner = runner
  Resumers = {r1, r2}
  Cancellers = {c1}
INVARIANTS
  TypeOK
PROPERTIES
  AnswersOnce
  CanceledNeverStarts
  EarlyCancelHeeded
  Settles
CHECK_DEADLOCK FALSE
