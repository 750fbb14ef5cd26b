SPECIFICATION FairSpec
CONSTANTS
  Events = {i1, i2}
  Workers = {w1, w2}
  Calls = {c1}
  MaxDeliver = 2
  FetchSize = 1
  MaxCrashes = 1
  None = None
INVARIANTS
  OneActivePrimary
  ActiveHasItsVariant
PROPERTIES
  LivesAsPublished
  EveryUploadIsSettled
CHECK_DEADLOCK FALSE
