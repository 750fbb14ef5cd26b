SPECIFICATION FairSpec
CONSTANTS
  double = double
  twin = twin
  n1 = n1
  n2 = n2
  Rooms <- MCRooms
  Nights <- MCNights
  Rows <- MCRows
  OpenRows <- MCRows
  TotalRooms <- MCTotalRooms
  Requests <- SerialRequests
  MaxQuantity = 1
  MaxHidden = 0
  Holds = {h1, h2}
  Bookings = {b1, b2}
  Handlers = {p1}
  MaxRefunds = 1
  NoRequest = NoRequest
  NoHold = NoHold
PROPERTY
  OverdueReservationsEnd
CHECK_DEADLOCK FALSE
