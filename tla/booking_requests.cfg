SPECIFICATION MCSpec
CONSTANTS
  Requests = {r1, r2}
  Keys = {k1, k2}
  Bodies = {d1, d2}
  PageBody = d1
  PageKey = k1
  FirstRequest = r1
  PoolSize = 3
  MaxBusy = 1
  MaxFaults = 1
  None = None
INVARIANTS
  PageTypeOK
  OneBookingPerKey
  KeyTellsOutcome
  AnsweredWithOwnBooking
  OneBookingPerHold
PROPERTY
  EveryRequestEnds
ACTION_CONSTRAINT SentInOrder
CHECK_DEADLOCK FALSE
