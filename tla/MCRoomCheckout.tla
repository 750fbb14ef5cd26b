--------------------------- MODULE MCRoomCheckout ---------------------------
(***************************************************************************)
(* Instances of RoomCheckout for TLC: two room types, two nights, one of   *)
(* the four inventory rows missing.                                        *)
(***************************************************************************)
EXTENDS RoomCheckout, TLC

CONSTANTS double, twin, n1, n2

line(room, quantity) == [room |-> room, quantity |-> quantity]

MCRooms == {double, twin}
MCNights == {n1, n2}
MCRows == {<<double, n1>>, <<double, n2>>, <<twin, n1>>}
MCTotalRooms == [c \in MCRows |-> 1]

\* One room for one night; two room types for both nights, although the
\* second night of one of them has no row.
oneRoom == Request({n1}, <<line(double, 1)>>)
twoRooms == Request({n1, n2}, <<line(double, 1), line(twin, 1)>>)

\* One room type on two lines: three rooms, of which the check sees one (or two).
twoLines == Request({n1}, <<line(twin, 2), line(twin, 1)>>)

RaceRequests == {oneRoom, twoLines}
SerialRequests == {oneRoom, twoRooms}

Symmetry == Permutations(Handlers) \cup Permutations(Holds) \cup Permutations(Bookings)
=============================================================================
