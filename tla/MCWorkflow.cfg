SPECIFICATION ChatSpec
CONSTANTS
  Steps = 2
  Attempts = 3
  Topologies = {t1, t2}
  Ttl = 1
  MaxTime = 2
  MaxEdits = 1
  MaxSteps = 2
  MaxInput = 3
  Usage = 2
  Repeats = 2
  MaxRounds = 1
  MaxDeltas = 2
  MaxCalls = 2
  Size = 4
  Conditions = {c1}
  Default = default
SYMMETRY Symmetry
INVARIANTS
  ChatTypeOK
  AskedIsAnswered
  OutputsKept
  ShownIsKept
  SubagentsWhole
  LimitsAreSaid
PROPERTIES
  NoStepRedone
  SweepTakesOldest
CHECK_DEADLOCK FALSE
