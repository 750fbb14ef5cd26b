SPECIFICATION FairSpec
CONSTANTS
  Events = {e1, e2}
  Workers = {w1, w2}
  MaxDeliver = 2
  FetchSize = 2
  Receivers = {owner, customer}
  MaxCrashes = 1
  None = None
INVARIANTS
  TypeOK
  NotifiedOnce
PROPERTIES
  LivesAsPublished
  EveryEventLeaves
CHECK_DEADLOCK FALSE
