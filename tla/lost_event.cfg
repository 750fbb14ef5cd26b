SPECIFICATION Spec
CONSTANTS
  Events = {e1, e2}
  Deliveries = {d1, d2}
  MaxFaults = 2
  NoEvent = NoEvent
INVARIANT
  AnsweredIsApplied
CHECK_DEADLOCK FALSE
