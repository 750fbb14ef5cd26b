SPECIFICATION Spec
CONSTANTS
  Bookings = {b1}
  Cancels = {c1}
  Payouts = {p1, p2}
  Operators = {o1, o2}
  MaxFaults = 1
  None = None
SYMMETRY Symmetry
INVARIANTS
  LedgerTellsStripe
  FailedKeptTheMoney
  OwnerPaidOnce
PROPERTY
  NoScanOfRefunded
CHECK_DEADLOCK FALSE
