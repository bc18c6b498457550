SPECIFICATION Spec
CONSTANTS
  Tasks = {t1, t2}
  MaxDue = 2
  MaxRequests = 3
  MaxCrashes = 1
INVARIANTS
  OncePerDueTime
PROPERTIES
  DueIsTaken
CHECK_DEADLOCK FALSE
