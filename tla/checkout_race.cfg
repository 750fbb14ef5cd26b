SPECIFICATION Spec
CONSTANTS
  double = double
  twin = twin
  n1 = n1
  n2 = n2
  Rooms <- MCRooms
  Nights <- MCNights
  Rows <- MCRows
  OpenRows <- MCRows
  TotalRooms <- MCTotalRooms
  Requests <- RaceRequests
  MaxQuantity = 3
  MaxHidden = 2
  Holds = {h1, h2}
  Bookings = {b1, b2}
  Handlers = {p1, p2}
  MaxRefunds = 1
  NoRequest = NoRequest
  NoHold = NoHold
SYMMETRY Symmetry
INVARIANTS
  TypeOK
  OverbookingBounded
  HeldAccountsForHolds
  BookedAccountsForBookings
  BookedHoldIsClosed
  EndingsBounded
PROPERTIES
  OnlyHoldsTakeRooms
  BookingsLive
CHECK_DEADLOCK FALSE
