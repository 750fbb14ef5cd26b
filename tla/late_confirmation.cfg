SPECIFICATION Spec
CONSTANTS
  Bookings = {b1}
  Intents = {i1, i2}
  Users = {u1, u2}
  ChargeParts = 1
  MaxMishaps = 1
  NoBooking = NoBooking
  NoIntent = NoIntent
SYMMETRY Symmetry
CHECK_DEADLOCK FALSE
INVARIANT
  ConfirmedHasRooms
