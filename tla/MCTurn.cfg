SPECIFICATION TurnSpec
CONSTANTS
  Runs = {r1, r2}
  NoRun = NoRun
  Turns = 2
  Sessions = {s1, s2}
  Amounts = {1}
  MaxAdmin = 2
  Writers = {w1, w2}
  Keep = 1
  MinList = 2
  Callers = {a1, a2}
  Threshold = 2
  Window = 1
  Cooldown = 2
  MaxClock = 4
  MaxRecords = 3
  Exchanges = 2
  Requests = {q1, q2}
  KeepPairs = 1
  MaxSecond = 1
INVARIANTS
  LoneRunFound
  CancelDiesWithRun
  UsageBilled
  BilledOnce
  MessagesKept
  MarkedIsSummarized
  DeletedStayDeleted
  OpenHasCause
  AnswersHaveQuestions
  FilesAreThere
  TurnTypeOK
PROPERTIES
  BridgesClose
  OverdraftHasCompany
  OpenBlocks
  KeepsTranscript
CHECK_DEADLOCK FALSE
