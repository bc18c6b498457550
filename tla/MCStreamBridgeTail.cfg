SPECIFICATION Spec
CONSTANTS
  Subscribers = {s1, s2}
  MaxBuffer = 2
  MaxEvents = 4
SYMMETRY Symmetry
INVARIANTS
  AllEventsDelivered
CHECK_DEADLOCK FALSE
