SPECIFICATION FairSpec
CONSTANTS
  Events = {e1, e2}
  Deliveries = {d1, d2}
  MaxFaults = 2
  NoEvent = NoEvent
INVARIANTS
  TypeOK
  AppliedBounded
  ReceivedIsAppliedOrVisible
PROPERTY
  EveryEventAnswered
CHECK_DEADLOCK FALSE
