SPECIFICATION Spec
CONSTANTS
  Subscribers = {s1, s2}
  MaxBuffer = 2
  MaxEvents = 4
INVARIANTS
  TypeOK
  Gapless
PROPERTIES
  ImplementsBroadcast
  LiveEventsArrive
  ClosedStops
CHECK_DEADLOCK FALSE
