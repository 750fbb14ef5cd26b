---------------------------- MODULE RequestLines ----------------------------
(***************************************************************************)
(* The lines { roomId, quantity } of a hold request and what the code      *)
(* makes of them.  The validators ask for at least one line and a quantity *)
(* of at least one, and let a room appear on more than one line.           *)
(***************************************************************************)
EXTENDS Integers, Sequences, FiniteSetsExt

CONSTANT Rooms   \* room types, rooms.id

LinesType == Seq([room : Rooms, quantity : Nat \ {0}])

LinesOf(lines, r) == {i \in DOMAIN lines : lines[i].room = r}

\* holdRooms, releaseHoldRooms and reserveRooms loop over all lines.
Wanted(lines) ==
  [r \in Rooms |->
     SumFunctionOnSet([i \in DOMAIN lines |-> lines[i].quantity], LinesOf(lines, r))]

\* new Map(lines): the last line of a room is the one that counts.
LastLine(lines) ==
  [r \in Rooms |->
     IF LinesOf(lines, r) = {} THEN 0 ELSE lines[Max(LinesOf(lines, r))].quantity]

\* hold_rooms has no order: the lines come back in any.
Orders(lines) ==
  {[i \in DOMAIN lines |-> lines[p[i]]] : p \in
     {f \in [DOMAIN lines -> DOMAIN lines] : \A i, j \in DOMAIN lines : i # j => f[i] # f[j]}}

\* pricingService.quote gives one entry for each line, each with the quantity
\* of the room's last line, and booking_rooms records the entries.
Quoted(lines) ==
  {[r \in Rooms |-> LastLine(order)[r] * Cardinality(LinesOf(lines, r))]
     : order \in Orders(lines)}

Request(nights, lines) ==
  [nights  |-> nights,
   wanted  |-> Wanted(lines),
   checked |-> LastLine(lines),
   quoted  |-> Quoted(lines)]

\* No room appears on two lines.
OneLineEach(lines) ==
  \A i, j \in DOMAIN lines : lines[i].room = lines[j].room => i = j
=============================================================================
