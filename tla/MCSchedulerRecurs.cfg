SPECIFICATION Spec
CONSTANTS
  Tasks = {t1}
  MaxDue = 2
  MaxRequests = 0
  MaxCrashes = 0
PROPERTIES
  Recurs
CHECK_DEADLOCK FALSE
