------------------------- MODULE RoomCheckoutProofs -------------------------
(***************************************************************************)
(* Proofs about RoomCheckout, for every inventory, every set of requests   *)
(* and every finite number of handlers.                                    *)
(***************************************************************************)
EXTENDS RoomCheckout, TLAPS, FiniteSetTheorems

-----------------------------------------------------------------------------
(* Inventory arithmetic.                                                   *)

\* What quantities come to on a row is a number of rooms of its type.
LEMMA RoomNightsType ==
  ASSUME NEW quantities \in [Rooms -> Nat], NEW nights
  PROVE  RoomNights(quantities, nights) \in [Rows -> Nat]
BY InventoryAssumption DEF RoomNights

\* A request asks for at most MaxQuantity rooms on any row.
LEMMA DemandType ==
  ASSUME NEW q \in Requests
  PROVE  Demand(q) \in [Rows -> 0..MaxQuantity]
<1>1. q \in RequestType
  BY RequestAssumption
<1>2. q.wanted \in [Rooms -> 0..MaxQuantity]
  BY <1>1 DEF RequestType
<1>3. QED
  BY <1>2, InventoryAssumption, RequestAssumption DEF Demand, RoomNights

\* Adding and subtracting keep a counter a counter.
LEMMA CounterType ==
  ASSUME NEW counter \in [Rows -> Int], NEW amount \in [Rows -> Nat]
  PROVE  /\ Increased(counter, amount) \in [Rows -> Int]
         /\ Decreased(counter, amount) \in [Rows -> Int]
         /\ \A c \in Rows : /\ Increased(counter, amount)[c] = counter[c] + amount[c]
                            /\ Decreased(counter, amount)[c] = counter[c] - amount[c]
                            /\ amount[c] >= 0
BY DEF Increased, Decreased

\* What releaseRooms takes off is a number of rooms on each row.
LEMMA RecordedType ==
  ASSUME TypeOK, NEW b \in Bookings
  PROVE  RoomNights(bookingRooms[b], holdRequest[bookingHold[b]].nights) \in [Rows -> Nat]
BY RoomNightsType DEF TypeOK

-----------------------------------------------------------------------------
(* Types and references.                                                   *)

WellFormed == TypeOK /\ RefersToRows /\ BookedHoldIsClosed

\* Ending a hold keeps the types, and leaves the hold existing and closed.
LEMMA EndHoldTypes ==
  ASSUME TypeOK, RefersToRows, NEW h \in Holds, holdStatus[h] # "none",
         NEW s \in HoldStatus, EndHold(h, s)
  PROVE  /\ held' \in [Rows -> Int]
         /\ holdStatus' \in [Holds -> HoldStatus]
         /\ holdRequest' = holdRequest /\ holdDue' = holdDue
         /\ reended' \in [Holds -> Nat]
         /\ \A g \in Holds : holdStatus'[g] = IF g = h THEN s ELSE holdStatus[g]
         /\ Demand(holdRequest[h]) \in [Rows -> Nat]
         /\ \A c \in Rows : held'[c] = held[c] - Demand(holdRequest[h])[c]
<1>1. Demand(holdRequest[h]) \in [Rows -> Nat]
  BY DemandType, RequestAssumption DEF RefersToRows
<1>2. /\ held' \in [Rows -> Int]
      /\ \A c \in Rows : held'[c] = held[c] - Demand(holdRequest[h])[c]
  BY <1>1, CounterType DEF EndHold, TypeOK
<1>3. reended' \in [Holds -> Nat]
  BY DEF EndHold, TypeOK
<1>4. QED
  BY <1>1, <1>2, <1>3 DEF EndHold, TypeOK

\* A booking reserves what its hold held, and refers to it.
LEMMA InsertBookingTypes ==
  ASSUME TypeOK, RefersToRows, NEW h \in Holds, holdStatus[h] # "none",
         NEW b \in Bookings, NEW rooms \in [Rooms -> Nat], InsertBooking(b, h, rooms)
  PROVE  /\ booked' \in [Rows -> Int]
         /\ bookingStatus' \in [Bookings -> BookingStatus]
         /\ bookingHold' \in [Bookings -> Holds \cup {NoHold}]
         /\ bookingRooms' \in [Bookings -> [Rooms -> Nat]]
         /\ bookingDue' = bookingDue /\ refunds' = refunds
         /\ bookingStatus[b] = "none"
         /\ \A a \in Bookings : a # b => /\ bookingStatus'[a] = bookingStatus[a]
                                         /\ bookingHold'[a] = bookingHold[a]
         /\ bookingHold'[b] = h
         /\ \A c \in Rows : booked'[c] = booked[c] + Demand(holdRequest[h])[c]
<1>1. Demand(holdRequest[h]) \in [Rows -> Nat]
  BY DemandType, RequestAssumption DEF RefersToRows
<1>2. /\ booked' \in [Rows -> Int]
      /\ \A c \in Rows : booked'[c] = booked[c] + Demand(holdRequest[h])[c]
  BY <1>1, CounterType DEF InsertBooking, TypeOK
<1>3. QED
  BY <1>2 DEF InsertBooking, TypeOK, BookingStatus

\* Finish keeps the handlers' types and affects no other handler.
LEMMA FinishTypes ==
  ASSUME TypeOK, NEW p \in Handlers, Finish(p)
  PROVE  /\ pc' \in [Handlers -> PC]
         /\ asked' \in [Handlers -> Requests \cup {NoRequest}]
         /\ target' \in [Handlers -> Holds \cup {NoHold}]
         /\ pc'[p] = "idle"
         /\ \A r \in Handlers : r # p => /\ pc'[r] = pc[r]
                                         /\ asked'[r] = asked[r]
                                         /\ target'[r] = target[r]
BY DEF TypeOK, Finish, PC

\* The invariant holds at the start.
LEMMA InitWellFormed == Init => WellFormed
<1>1. NoRooms \in [Rooms -> Nat]
  BY DEF NoRooms
<1>2. QED
  BY <1>1, RefundAssumption DEF Init, WellFormed, TypeOK, RefersToRows, BookedHoldIsClosed,
     HoldStatus, BookingStatus, PC

\* A handler that goes on to another state with an existing hold.
LEMMA GoOnWithWellFormed ==
  ASSUME WellFormed, NEW p \in Handlers, NEW h \in Holds, holdStatus[h] # "none",
         NEW next \in PC \ {"hold_checked"}, GoOnWith(p, h, next)
  PROVE  WellFormed'
<1> USE DEF GoOnWith, holdVars, bookingVars
<1>1. TypeOK'
  BY DEF WellFormed, TypeOK
<1>2. RefersToRows'
  BY DEF WellFormed, TypeOK, RefersToRows, PC
<1>3. BookedHoldIsClosed'
  BY DEF WellFormed, BookedHoldIsClosed
<1>4. QED
  BY <1>1, <1>2, <1>3 DEF WellFormed

\* A booking that is made ends its hold: the two together keep the invariant.
LEMMA ConvertWellFormed ==
  ASSUME WellFormed, NEW p \in Handlers, NEW b \in Bookings,
         pc[p] \notin {"idle", "hold_checked"},
         EndHold(target[p], "completed"),
         NEW rooms \in [Rooms -> Nat], InsertBooking(b, target[p], rooms),
         fromIntent' \in SUBSET Bookings,
         Finish(p)
  PROVE  WellFormed'
<1>1. target[p] \in Holds /\ holdStatus[target[p]] # "none" /\ TypeOK /\ RefersToRows
  BY DEF WellFormed, RefersToRows
<1>2. /\ held' \in [Rows -> Int]
      /\ holdStatus' \in [Holds -> HoldStatus]
      /\ holdRequest' = holdRequest /\ holdDue' = holdDue
      /\ reended' \in [Holds -> Nat]
      /\ \A g \in Holds : holdStatus'[g] = IF g = target[p] THEN "completed" ELSE holdStatus[g]
  BY <1>1, EndHoldTypes DEF HoldStatus
<1>3. /\ booked' \in [Rows -> Int]
      /\ bookingStatus' \in [Bookings -> BookingStatus]
      /\ bookingHold' \in [Bookings -> Holds \cup {NoHold}]
      /\ bookingRooms' \in [Bookings -> [Rooms -> Nat]]
      /\ bookingDue' = bookingDue /\ refunds' = refunds
      /\ bookingStatus[b] = "none"
      /\ \A a \in Bookings : a # b => /\ bookingStatus'[a] = bookingStatus[a]
                                      /\ bookingHold'[a] = bookingHold[a]
      /\ bookingHold'[b] = target[p]
  BY <1>1, InsertBookingTypes
<1>4. /\ pc' \in [Handlers -> PC]
      /\ asked' \in [Handlers -> Requests \cup {NoRequest}]
      /\ target' \in [Handlers -> Holds \cup {NoHold}]
      /\ pc'[p] = "idle"
      /\ \A r \in Handlers : r # p => /\ pc'[r] = pc[r]
                                      /\ asked'[r] = asked[r]
                                      /\ target'[r] = target[r]
  BY <1>1, FinishTypes
<1>5. TypeOK'
  BY <1>1, <1>2, <1>3, <1>4 DEF TypeOK
<1>6. RefersToRows'
  <2>1. \A r \in Handlers :
          /\ pc'[r] = "hold_checked" => asked'[r] \in Requests
          /\ pc'[r] \notin {"idle", "hold_checked"} =>
               target'[r] \in Holds /\ holdStatus'[target'[r]] # "none"
    BY <1>1, <1>2, <1>4 DEF RefersToRows
  <2>2. \A h \in Holds : holdStatus'[h] # "none" => holdRequest'[h] \in Requests
    BY <1>1, <1>2 DEF RefersToRows
  <2>3. \A a \in Bookings : bookingStatus'[a] # "none" => bookingHold'[a] \in Holds
    BY <1>1, <1>3 DEF RefersToRows
  <2>4. QED
    BY <2>1, <2>2, <2>3 DEF RefersToRows
<1>7. BookedHoldIsClosed'
  BY <1>1, <1>2, <1>3 DEF WellFormed, RefersToRows, BookedHoldIsClosed
<1>8. QED
  BY <1>5, <1>6, <1>7 DEF WellFormed

\* Each step of a handler keeps the invariant.
LEMMA HandlerWellFormed ==
  ASSUME WellFormed, NEW p \in Handlers
  PROVE  /\ \A q \in Requests : CheckAvailability(p, q) => WellFormed'
         /\ \A h \in Holds : CreateHold(p, h) => WellFormed'
         /\ \A h \in Holds : ReadHoldToRelease(p, h) => WellFormed'
         /\ \A h \in Holds : ReadHoldToBook(p, h) => WellFormed'
         /\ \A h \in Holds : FindHoldToPay(p, h) => WellFormed'
         /\ ReleaseHold(p) => WellFormed'
         /\ RereadHoldToBook(p) => WellFormed'
         /\ RereadHoldToPay(p) => WellFormed'
         /\ \A b \in Bookings : CreateBookingFromHold(p, b) => WellFormed'
         /\ \A b \in Bookings : CreatePaymentIntent(p, b) => WellFormed'
         /\ Abort(p) => WellFormed'
<1> USE DEF holdVars, bookingVars
<1>a. TypeOK /\ RefersToRows /\ BookedHoldIsClosed
  BY DEF WellFormed
<1>b. ASSUME Finish(p)
      PROVE  /\ pc' \in [Handlers -> PC]
             /\ asked' \in [Handlers -> Requests \cup {NoRequest}]
             /\ target' \in [Handlers -> Holds \cup {NoHold}]
             /\ pc'[p] = "idle"
             /\ \A r \in Handlers : r # p => /\ pc'[r] = pc[r]
                                             /\ asked'[r] = asked[r]
                                             /\ target'[r] = target[r]
  BY <1>a, <1>b, FinishTypes
<1>1. ASSUME NEW q \in Requests, CheckAvailability(p, q) PROVE WellFormed'
  BY <1>1, <1>a DEF CheckAvailability, WellFormed, TypeOK, RefersToRows, BookedHoldIsClosed, PC
<1>2. ASSUME NEW h \in Holds, CreateHold(p, h) PROVE WellFormed'
  <2>1. asked[p] \in Requests
    BY <1>2, <1>a DEF CreateHold, RefersToRows
  <2>2. held' \in [Rows -> Int]
    BY <1>2, <1>a, <2>1, DemandType, RequestAssumption, CounterType DEF CreateHold, TypeOK
  <2>3. TypeOK'
    BY <1>2, <1>a, <1>b, <2>1, <2>2 DEF CreateHold, TypeOK, HoldStatus
  <2>4. RefersToRows'
    BY <1>2, <1>a, <1>b, <2>1 DEF CreateHold, RefersToRows, TypeOK
  <2>5. BookedHoldIsClosed'
    BY <1>2, <1>a DEF CreateHold, BookedHoldIsClosed, RefersToRows, TypeOK
  <2>6. QED
    BY <2>3, <2>4, <2>5 DEF WellFormed
<1>3. ASSUME NEW h \in Holds, ReadHoldToRelease(p, h) PROVE WellFormed'
  BY <1>3, GoOnWithWellFormed DEF ReadHoldToRelease, PC
<1>4. ASSUME NEW h \in Holds, ReadHoldToBook(p, h) PROVE WellFormed'
  BY <1>4, GoOnWithWellFormed DEF ReadHoldToBook, IsLive, PC
<1>5. ASSUME NEW h \in Holds, FindHoldToPay(p, h) PROVE WellFormed'
  BY <1>5, GoOnWithWellFormed DEF FindHoldToPay, IsLive, PC
<1>6. ASSUME ReleaseHold(p) PROVE WellFormed'
  <2>1. target[p] \in Holds /\ holdStatus[target[p]] # "none"
    BY <1>6, <1>a DEF ReleaseHold, RefersToRows
  <2>2. /\ held' \in [Rows -> Int]
        /\ holdStatus' \in [Holds -> HoldStatus]
        /\ holdRequest' = holdRequest /\ holdDue' = holdDue
        /\ reended' \in [Holds -> Nat]
        /\ \A g \in Holds : holdStatus'[g] = IF g = target[p] THEN "released" ELSE holdStatus[g]
    BY <1>6, <1>a, <2>1, EndHoldTypes DEF ReleaseHold, HoldStatus
  <2>3. TypeOK'
    BY <1>6, <1>a, <1>b, <2>2 DEF ReleaseHold, TypeOK
  <2>4. RefersToRows'
    BY <1>6, <1>a, <1>b, <2>2 DEF ReleaseHold, RefersToRows
  <2>5. BookedHoldIsClosed'
    BY <1>6, <1>a, <2>2 DEF ReleaseHold, BookedHoldIsClosed, RefersToRows
  <2>6. QED
    BY <2>3, <2>4, <2>5 DEF WellFormed
<1>7. ASSUME RereadHoldToBook(p) PROVE WellFormed'
  BY <1>7, <1>a, GoOnWithWellFormed DEF RereadHoldToBook, RefersToRows, PC
<1>8. ASSUME RereadHoldToPay(p) PROVE WellFormed'
  BY <1>8, <1>a, GoOnWithWellFormed DEF RereadHoldToPay, RefersToRows, PC
<1>9. ASSUME NEW b \in Bookings, CreateBookingFromHold(p, b) PROVE WellFormed'
  <2>1. PICK rooms \in holdRequest[target[p]].quoted : InsertBooking(b, target[p], rooms)
    BY <1>9 DEF CreateBookingFromHold
  <2>2. holdRequest[target[p]] \in RequestType
    BY <1>9, <1>a, RequestAssumption DEF CreateBookingFromHold, RefersToRows
  <2>3. rooms \in [Rooms -> Nat]
    BY <2>2 DEF RequestType
  <2>4. QED
    BY <1>9, <1>a, <2>1, <2>3, ConvertWellFormed DEF CreateBookingFromHold, TypeOK
<1>10. ASSUME NEW b \in Bookings, CreatePaymentIntent(p, b) PROVE WellFormed'
  <2>1. holdRequest[target[p]] \in RequestType
    BY <1>10, <1>a, RequestAssumption DEF CreatePaymentIntent, RefersToRows
  <2>2. holdRequest[target[p]].wanted \in [Rooms -> Nat]
    BY <2>1, RequestAssumption DEF RequestType
  <2>3. QED
    BY <1>10, <1>a, <2>2, ConvertWellFormed DEF CreatePaymentIntent, TypeOK
<1>11. ASSUME Abort(p) PROVE WellFormed'
  <2>1. TypeOK'
    BY <1>11, <1>a, <1>b DEF Abort, TypeOK
  <2>2. RefersToRows'
    BY <1>11, <1>a, <1>b DEF Abort, RefersToRows
  <2>3. BookedHoldIsClosed'
    BY <1>11, <1>a DEF Abort, BookedHoldIsClosed
  <2>4. QED
    BY <2>1, <2>2, <2>3 DEF WellFormed
<1>12. QED
  BY <1>1, <1>2, <1>3, <1>4, <1>5, <1>6, <1>7, <1>8, <1>9, <1>10, <1>11

\* Each step of a worker, of a webhook or of the clock keeps the invariant.
LEMMA WorkerWellFormed ==
  ASSUME WellFormed
  PROVE  /\ \A h \in Holds : ExpireHoldIfDue(h) => WellFormed'
         /\ \A h \in Holds : HoldFallsDue(h) => WellFormed'
         /\ \A b \in Bookings : ExpireBookingIfDue(b) => WellFormed'
         /\ \A b \in Bookings : SettleBooking(b) => WellFormed'
         /\ \A b \in Bookings : RefundBooking(b) => WellFormed'
         /\ \A b \in Bookings : BookingFallsDue(b) => WellFormed'
<1> USE DEF holdVars, bookingVars, handlerVars
<1>a. TypeOK /\ RefersToRows /\ BookedHoldIsClosed
  BY DEF WellFormed
<1>b. ASSUME NEW b \in Bookings, GiveBack(b) PROVE booked' \in [Rows -> Int]
  BY <1>a, <1>b, RecordedType, CounterType DEF GiveBack, TypeOK
<1>1. ASSUME NEW h \in Holds, ExpireHoldIfDue(h) PROVE WellFormed'
  <2>1. /\ held' \in [Rows -> Int]
        /\ holdStatus' \in [Holds -> HoldStatus]
        /\ holdRequest' = holdRequest /\ holdDue' = holdDue
        /\ reended' \in [Holds -> Nat]
        /\ \A g \in Holds : holdStatus'[g] = IF g = h THEN "expired" ELSE holdStatus[g]
    BY <1>1, <1>a, EndHoldTypes DEF ExpireHoldIfDue, HoldStatus
  <2>2. TypeOK'
    BY <1>1, <1>a, <2>1 DEF ExpireHoldIfDue, TypeOK
  <2>3. RefersToRows'
    BY <1>1, <1>a, <2>1 DEF ExpireHoldIfDue, RefersToRows
  <2>4. BookedHoldIsClosed'
    BY <1>1, <1>a, <2>1 DEF ExpireHoldIfDue, BookedHoldIsClosed, RefersToRows
  <2>5. QED
    BY <2>2, <2>3, <2>4 DEF WellFormed
<1>2. ASSUME NEW h \in Holds, HoldFallsDue(h) PROVE WellFormed'
  BY <1>2, <1>a DEF HoldFallsDue, WellFormed, TypeOK, RefersToRows, BookedHoldIsClosed
<1>3. ASSUME NEW b \in Bookings, ExpireBookingIfDue(b) PROVE WellFormed'
  <2>1. booked' \in [Rows -> Int]
    BY <1>3, <1>b DEF ExpireBookingIfDue, ExpireBooking
  <2>2. TypeOK'
    BY <1>3, <1>a, <2>1 DEF ExpireBookingIfDue, ExpireBooking, TypeOK, BookingStatus
  <2>3. RefersToRows'
    BY <1>3, <1>a DEF ExpireBookingIfDue, ExpireBooking, RefersToRows, TypeOK
  <2>4. BookedHoldIsClosed'
    BY <1>3, <1>a DEF ExpireBookingIfDue, ExpireBooking, BookedHoldIsClosed, TypeOK
  <2>5. QED
    BY <2>2, <2>3, <2>4 DEF WellFormed
<1>4. ASSUME NEW b \in Bookings, SettleBooking(b) PROVE WellFormed'
  <2>2. TypeOK'
    BY <1>4, <1>a DEF SettleBooking, WriteStatus, TypeOK, BookingStatus
  <2>3. RefersToRows'
    BY <1>4, <1>a DEF SettleBooking, WriteStatus, RefersToRows, TypeOK
  <2>4. BookedHoldIsClosed'
    BY <1>4, <1>a DEF SettleBooking, WriteStatus, BookedHoldIsClosed, TypeOK
  <2>5. QED
    BY <2>2, <2>3, <2>4 DEF WellFormed
<1>5. ASSUME NEW b \in Bookings, RefundBooking(b) PROVE WellFormed'
  <2>1. booked' \in [Rows -> Int]
    BY <1>5, <1>b DEF RefundBooking
  <2>2. TypeOK'
    BY <1>5, <1>a, <2>1, RefundAssumption DEF RefundBooking, WriteStatus, TypeOK, BookingStatus
  <2>3. RefersToRows'
    BY <1>5, <1>a DEF RefundBooking, WriteStatus, RefersToRows, TypeOK
  <2>4. BookedHoldIsClosed'
    BY <1>5, <1>a DEF RefundBooking, WriteStatus, BookedHoldIsClosed, TypeOK
  <2>5. QED
    BY <2>2, <2>3, <2>4 DEF WellFormed
<1>6. ASSUME NEW b \in Bookings, BookingFallsDue(b) PROVE WellFormed'
  BY <1>6, <1>a DEF BookingFallsDue, WellFormed, TypeOK, RefersToRows, BookedHoldIsClosed
<1>7. QED
  BY <1>1, <1>2, <1>3, <1>4, <1>5, <1>6

LEMMA StepWellFormed == WellFormed /\ [Next]_vars => WellFormed'
<1> SUFFICES ASSUME WellFormed, [Next]_vars PROVE WellFormed'
  OBVIOUS
<1>1. CASE UNCHANGED vars
  BY <1>1 DEF vars, holdVars, bookingVars, handlerVars, WellFormed, TypeOK, RefersToRows,
     BookedHoldIsClosed
<1>2. CASE Next
  BY <1>2, HandlerWellFormed, WorkerWellFormed DEF Next
<1>3. QED
  BY <1>1, <1>2

\* The rows keep their types, and what refers to a row finds it.
THEOREM SpecWellFormed == Spec => []WellFormed
BY InitWellFormed, StepWellFormed, PTL DEF Spec

\* Every variable keeps its type: no status is written that the ENUM of its
\* column does not have, the counters stay integers.
THEOREM TypeCorrect == Spec => []TypeOK
<1>1. WellFormed => TypeOK
  BY DEF WellFormed
<1>2. QED
  BY <1>1, SpecWellFormed, PTL

\* The hold of a booking is never active again: releaseHold and expireHoldIfDue
\* give its rooms back no more, whatever requests and workers interleave.
THEOREM BookedHoldStaysClosed == Spec => []BookedHoldIsClosed
<1>1. WellFormed => BookedHoldIsClosed
  BY DEF WellFormed
<1>2. QED
  BY <1>1, SpecWellFormed, PTL

-----------------------------------------------------------------------------
(* Overbooking.                                                            *)

\* n requests for at most Q rooms each, and m more of them.
LEMMA Multiples ==
  ASSUME NEW Q \in Nat, NEW m \in Int, NEW n \in Int, m <= n
  PROVE  /\ m * Q \in Int /\ n * Q \in Int /\ m * Q <= n * Q
         /\ (n - 1) * Q = n * Q - Q
<1>1. (n - m) * Q >= 0
  BY SMT
<1>2. QED
  BY <1>1, SMT

\* A set P of handlers, each with D[p] rooms to hold, fits under bound B when
\* occ rooms are taken.
FitsUnder(occ, P, D, B) ==
  /\ occ <= B
  /\ P # {} => \E w \in P : occ + D[w] + (Cardinality(P) - 1) * MaxQuantity <= B

\* A handler leaves P, taking no more rooms than it had to hold, or was not in
\* P and takes none.
LEMMA LeaveFits ==
  ASSUME NEW P, IsFiniteSet(P), NEW D \in [P -> 0..MaxQuantity], NEW p,
         NEW occ \in Int, NEW after \in Int, NEW B \in Int,
         FitsUnder(occ, P, D, B),
         after <= occ \/ (p \in P /\ after <= occ + D[p])
  PROVE  FitsUnder(after, P \ {p}, D, B)
<1> DEFINE n == Cardinality(P)
           R == P \ {p}
<1>a. MaxQuantity \in Nat
  BY RequestAssumption
<1>b. n \in Nat /\ IsFiniteSet(R) /\ Cardinality(R) = IF p \in P THEN n - 1 ELSE n
  BY FS_CardinalityType, FS_RemoveElement
<1>c. /\ (n - 1) * MaxQuantity \in Int
      /\ (n - 2) * MaxQuantity = (n - 1) * MaxQuantity - MaxQuantity
  <2>1. n - 1 \in Int /\ (n - 1) - 1 = n - 2
    BY <1>b
  <2>2. QED
    BY <1>a, <2>1, Multiples
<1>d. p \in P => n - 1 >= 0
  BY <1>b, FS_CardinalityType
<1>e. p \in P => (n - 1) * MaxQuantity >= 0
  <2>1. 0 * MaxQuantity = 0
    BY <1>a
  <2>2. n - 1 \in Int
    BY <1>b
  <2>3. QED
    BY <1>a, <1>d, <2>1, <2>2, Multiples
<1>1. CASE p \notin P
  <2>1. R = P /\ after <= occ
    BY <1>1
  <2>2. after <= B
    BY <2>1 DEF FitsUnder
  <2>3. ASSUME P # {}
        PROVE  \E w \in P : after + D[w] + (Cardinality(P) - 1) * MaxQuantity <= B
    <3>1. PICK w \in P : occ + D[w] + (Cardinality(P) - 1) * MaxQuantity <= B
      BY <2>3 DEF FitsUnder
    <3>2. D[w] \in Int
      BY <1>a
    <3>3. after + D[w] + (n - 1) * MaxQuantity <= B
      BY <3>1, <3>2, <2>1, <1>c
    <3>4. QED
      BY <3>3
  <2>4. QED
    BY <2>1, <2>2, <2>3 DEF FitsUnder
<1>2. CASE p \in P
  <2>1. PICK w \in P : occ + D[w] + (Cardinality(P) - 1) * MaxQuantity <= B
    BY <1>2 DEF FitsUnder
  <2>2. D[w] \in 0..MaxQuantity /\ D[p] \in 0..MaxQuantity /\ after <= occ + D[p]
    BY <1>2, <1>a
  <2>3. occ + D[w] + (n - 1) * MaxQuantity <= B
    BY <2>1
  <2>4. ASSUME p # w, p \in P, w \in P PROVE n - 2 >= 0
    <3>1. w \in R
      BY <2>4
    <3>2. Cardinality(R) >= 1
      <4>1. Cardinality(R) \in Nat
        BY <1>b, FS_CardinalityType
      <4>2. Cardinality(R) # 0
        BY <3>1, <1>b, FS_EmptySet
      <4>3. QED
        BY <4>1, <4>2
    <3>3. QED
      BY <3>2, <1>b, <1>2
  <2>5. after <= B
    <3>1. CASE p = w
      BY <3>1, <2>2, <2>3, <1>a, <1>c, <1>e, <1>2
    <3>2. CASE p # w
      <4>1. n - 2 \in Int /\ n - 2 >= 0
        BY <3>2, <2>4, <1>2, <1>b
      <4>2. (n - 2) * MaxQuantity >= 0
        BY <4>1, <1>a, Multiples, 0 * MaxQuantity = 0
      <4>3. QED
        BY <4>2, <2>2, <2>3, <1>a, <1>c
    <3>3. QED
      BY <3>1, <3>2
  <2>6. ASSUME R # {}
        PROVE  \E v \in R : after + D[v] + (Cardinality(R) - 1) * MaxQuantity <= B
    <3>1. PICK v \in R : p # w => v = w
      BY <2>6
    <3>2. D[v] \in 0..MaxQuantity
      BY <1>a
    <3>3. after + D[v] + (n - 2) * MaxQuantity <= B
      <4>1. CASE p = w
        BY <4>1, <2>2, <2>3, <3>2, <1>a, <1>c
      <4>2. CASE p # w
        BY <4>2, <3>1, <2>2, <2>3, <3>2, <1>a, <1>c
      <4>3. QED
        BY <4>1, <4>2
    <3>4. Cardinality(R) - 1 = n - 2
      BY <1>b, <1>2
    <3>5. QED
      BY <3>3, <3>4
  <2>7. QED
    BY <2>5, <2>6 DEF FitsUnder
<1>3. QED
  BY <1>1, <1>2

-----------------------------------------------------------------------------
(* The steps of the specification, row by row.                             *)

\* The rooms each pending handler has to hold on a row.
ToHold(c) == [p \in Pending(c) |-> Demand(asked[p])[c]]

Fits(c) == FitsUnder(Occupancy(c), Pending(c), ToHold(c), MostOccupied(c))

\* The invariant of the specification, stated with Fits.
LEMMA FitsIsInvariant ==
  OverbookingBounded /\ PendingFits <=> \A c \in Rows : Fits(c)
BY DEF OverbookingBounded, PendingFits, Fits, FitsUnder, ToHold

\* What there is to count is finite and has the right type.
LEMMA PendingType ==
  ASSUME WellFormed, NEW c \in Rows
  PROVE  /\ IsFiniteSet(Pending(c)) /\ Pending(c) \in SUBSET Handlers
         /\ Occupancy(c) \in Int
         /\ ToHold(c) \in [Pending(c) -> 0..MaxQuantity]
         /\ MostOccupied(c) \in Int
<1>1. IsFiniteSet(Pending(c)) /\ Pending(c) \in SUBSET Handlers
  BY HandlerAssumption, FS_Subset DEF Pending
<1>2. Occupancy(c) \in Int
  BY DEF WellFormed, TypeOK, Occupancy
<1>3. ToHold(c) \in [Pending(c) -> 0..MaxQuantity]
  <2>1. ASSUME NEW p \in Pending(c) PROVE Demand(asked[p])[c] \in 0..MaxQuantity
    <3>1. asked[p] \in Requests
      BY <2>1 DEF Pending, WellFormed, RefersToRows
    <3>2. QED
      BY <3>1, DemandType
  <2>2. QED
    BY <2>1 DEF ToHold
<1>4. MostOccupied(c) \in Int
  <2>1. Cardinality(Handlers) \in Nat
    BY HandlerAssumption, FS_CardinalityType
  <2>2. (Cardinality(Handlers) - 1) * MaxQuantity \in Int
    BY <2>1, RequestAssumption, Multiples
  <2>3. TotalRooms[c] \in Nat
    BY InventoryAssumption
  <2>4. QED
    BY <2>2, <2>3, RequestAssumption DEF MostOccupied
<1>5. QED
  BY <1>1, <1>2, <1>3, <1>4

\* A handler that finishes with a row, having taken at most what it had to
\* hold if it was pending and nothing otherwise.
LEMMA FinishFits ==
  ASSUME WellFormed, WellFormed', NEW c \in Rows, Fits(c), NEW p \in Handlers, Finish(p),
         \/ Occupancy(c)' <= Occupancy(c)
         \/ p \in Pending(c) /\ Occupancy(c)' <= Occupancy(c) + Demand(asked[p])[c]
  PROVE  Fits(c)'
<1>1. /\ pc'[p] = "idle"
      /\ \A r \in Handlers : r # p => pc'[r] = pc[r] /\ asked'[r] = asked[r]
  BY FinishTypes DEF WellFormed
<1>2. Pending(c)' = Pending(c) \ {p}
  BY <1>1 DEF Pending
<1>3. /\ IsFiniteSet(Pending(c)) /\ Pending(c) \in SUBSET Handlers
      /\ Occupancy(c) \in Int
      /\ ToHold(c) \in [Pending(c) -> 0..MaxQuantity]
      /\ MostOccupied(c) \in Int
  BY PendingType
<1>4. Occupancy(c)' \in Int
  BY DEF WellFormed, TypeOK, Occupancy
<1>5. p \in Pending(c) => ToHold(c)[p] = Demand(asked[p])[c]
  BY DEF ToHold
<1>6. FitsUnder(Occupancy(c)', Pending(c) \ {p}, ToHold(c), MostOccupied(c))
  BY <1>3, <1>4, <1>5, LeaveFits DEF Fits
<1>7. \A w \in Pending(c)' : ToHold(c)'[w] = ToHold(c)[w]
  BY <1>1, <1>2, <1>3 DEF ToHold
<1>8. MostOccupied(c)' = MostOccupied(c)
  BY DEF MostOccupied
<1>9. QED
  BY <1>2, <1>6, <1>7, <1>8 DEF Fits, FitsUnder

\* A step that leaves the pending handlers alone and takes no rooms.
LEMMA QuietFits ==
  ASSUME WellFormed, WellFormed', NEW c \in Rows, Fits(c),
         Pending(c)' = Pending(c),
         \A p \in Pending(c) : asked'[p] = asked[p],
         Occupancy(c)' <= Occupancy(c)
  PROVE  Fits(c)'
<1> DEFINE nobody == CHOOSE x : x \notin Pending(c)
<1>1. /\ IsFiniteSet(Pending(c))
      /\ Occupancy(c) \in Int /\ Occupancy(c)' \in Int
      /\ ToHold(c) \in [Pending(c) -> 0..MaxQuantity]
      /\ MostOccupied(c) \in Int
  BY PendingType DEF WellFormed, TypeOK, Occupancy
<1>2. nobody \notin Pending(c)
  BY NoSetContainsEverything
<1>3. Pending(c) \ {nobody} = Pending(c)
  BY <1>2
<1>4. FitsUnder(Occupancy(c)', Pending(c) \ {nobody}, ToHold(c), MostOccupied(c))
  BY <1>1, LeaveFits DEF Fits
<1>5. FitsUnder(Occupancy(c)', Pending(c), ToHold(c), MostOccupied(c))
  BY <1>3, <1>4
<1>6. ToHold(c)' = ToHold(c)
  BY DEF ToHold
<1>7. MostOccupied(c)' = MostOccupied(c)
  BY DEF MostOccupied
<1>8. QED
  BY <1>5, <1>6, <1>7 DEF Fits

\* A handler whose check succeeds joins the pending ones: it fits even if all
\* the others hold the most first.
LEMMA CheckFits ==
  ASSUME WellFormed, WellFormed', NEW c \in Rows, Fits(c), NEW p \in Handlers,
         NEW q \in Requests, CheckAvailability(p, q)
  PROVE  Fits(c)'
<1> DEFINE k == Cardinality(Handlers)
           Q == MaxQuantity
<1>1. /\ pc[p] = "idle" /\ IsAvailable(q)
      /\ pc'[p] = "hold_checked" /\ asked'[p] = q
      /\ \A r \in Handlers : r # p => pc'[r] = pc[r] /\ asked'[r] = asked[r]
      /\ Occupancy(c)' = Occupancy(c)
  BY DEF CheckAvailability, WellFormed, TypeOK, Occupancy
<1>2. p \notin Pending(c)
  BY <1>1 DEF Pending
<1>3. CASE Demand(q)[c] = 0
  <2>1. Pending(c)' = Pending(c)
    BY <1>1, <1>2, <1>3 DEF Pending
  <2>2. \A r \in Pending(c) : asked'[r] = asked[r]
    BY <1>1, <1>2 DEF Pending
  <2>3. Occupancy(c)' <= Occupancy(c)
    BY <1>1, PendingType
  <2>4. QED
    BY <2>1, <2>2, <2>3, QuietFits
<1>4. CASE Demand(q)[c] > 0
  <2>1. Pending(c)' = Pending(c) \cup {p}
    BY <1>1, <1>4 DEF Pending
  <2>2. Cardinality(Pending(c)') - 1 <= k - 1 /\ Cardinality(Pending(c)') \in Int
    <3>1. IsFiniteSet(Pending(c)') /\ Pending(c)' \in SUBSET Handlers
      BY PendingType, <2>1, HandlerAssumption, FS_Subset
    <3>2. Cardinality(Pending(c)') <= k
      BY <3>1, HandlerAssumption, FS_Subset
    <3>3. Cardinality(Pending(c)') \in Nat /\ k \in Nat
      BY <3>1, HandlerAssumption, FS_CardinalityType
    <3>4. QED
      BY <3>2, <3>3
  <2>3. /\ (Cardinality(Pending(c)') - 1) * Q <= (k - 1) * Q
        /\ (Cardinality(Pending(c)') - 1) * Q \in Int
        /\ (k - 1) * Q \in Int
    <3>1. k - 1 \in Int /\ Cardinality(Pending(c)') - 1 \in Int
      BY <2>2, HandlerAssumption, FS_CardinalityType
    <3>2. QED
      BY <3>1, <2>2, RequestAssumption, Multiples
  <2>4. Occupancy(c) + Demand(q)[c] <= TotalRooms[c] + MaxHidden
    <3>1. /\ c[1] \in Rooms /\ TotalRooms[c] \in Nat
          /\ c[2] \in q.nights /\ Demand(q)[c] = q.wanted[c[1]]
      BY <1>4, InventoryAssumption DEF Demand, RoomNights
    <3>2. q.wanted[c[1]] \in Nat /\ q.checked[c[1]] \in Nat
      BY <3>1, RequestAssumption DEF RequestType
    <3>3. TotalRooms[c] - booked[c] - held[c] >= q.checked[c[1]]
      BY <1>1, <1>4, <3>1 DEF IsAvailable
    <3>4. q.wanted[c[1]] - q.checked[c[1]] <= MaxHidden
      BY <3>1, RequestAssumption
    <3>5. booked[c] \in Int /\ held[c] \in Int
      BY DEF WellFormed, TypeOK
    <3>6. QED
      BY <3>1, <3>2, <3>3, <3>4, <3>5, RequestAssumption DEF Occupancy
  <2>5. /\ Occupancy(c) \in Int /\ MostOccupied(c) \in Int
        /\ Demand(q)[c] \in Int /\ TotalRooms[c] \in Int
        /\ MostOccupied(c) = TotalRooms[c] + (k - 1) * Q + MaxHidden
    BY PendingType, DemandType, RequestAssumption, InventoryAssumption DEF MostOccupied
  <2>6. Occupancy(c)' + Demand(q)[c] + (Cardinality(Pending(c)') - 1) * Q <= MostOccupied(c)
    BY <1>1, <2>3, <2>4, <2>5, RequestAssumption
  <2>7. Occupancy(c)' <= MostOccupied(c)
    BY <1>1 DEF Fits, FitsUnder
  <2>8. p \in Pending(c)' /\ ToHold(c)'[p] = Demand(q)[c]
    BY <1>1, <2>1 DEF ToHold
  <2>9. MostOccupied(c)' = MostOccupied(c)
    BY DEF MostOccupied
  <2>10. QED
    BY <2>6, <2>7, <2>8, <2>9 DEF Fits, FitsUnder
<1>5. QED
  BY <1>3, <1>4, DemandType, RequestAssumption

\* What a conversion adds to booked_rooms it takes off held_rooms.
LEMMA ConvertMoves ==
  ASSUME WellFormed, NEW p \in Handlers, NEW b \in Bookings,
         pc[p] \notin {"idle", "hold_checked"},
         EndHold(target[p], "completed"),
         NEW rooms \in [Rooms -> Nat], InsertBooking(b, target[p], rooms),
         NEW c \in Rows
  PROVE  Occupancy(c)' = Occupancy(c)
<1>1. TypeOK /\ RefersToRows /\ target[p] \in Holds /\ holdStatus[target[p]] # "none"
  BY DEF WellFormed, RefersToRows
<1>2. /\ held'[c] = held[c] - Demand(holdRequest[target[p]])[c]
      /\ Demand(holdRequest[target[p]]) \in [Rows -> Nat]
  BY <1>1, EndHoldTypes DEF HoldStatus
<1>3. booked'[c] = booked[c] + Demand(holdRequest[target[p]])[c]
  BY <1>1, InsertBookingTypes
<1>4. QED
  BY <1>1, <1>2, <1>3 DEF Occupancy, TypeOK

\* Every step of a handler but the creation of a hold takes no rooms.
LEMMA HandlerTakes ==
  ASSUME WellFormed, NEW p \in Handlers, NEW c \in Rows
  PROVE  /\ \A q \in Requests : CheckAvailability(p, q) => Occupancy(c)' <= Occupancy(c)
         /\ \A h \in Holds : CreateHold(p, h) =>
              Occupancy(c)' = Occupancy(c) + Demand(asked[p])[c]
         /\ \A h \in Holds, next \in PC :
              GoOnWith(p, h, next) => Occupancy(c)' <= Occupancy(c)
         /\ ReleaseHold(p) => Occupancy(c)' <= Occupancy(c)
         /\ \A b \in Bookings : CreateBookingFromHold(p, b) => Occupancy(c)' <= Occupancy(c)
         /\ \A b \in Bookings : CreatePaymentIntent(p, b) => Occupancy(c)' <= Occupancy(c)
         /\ Abort(p) => Occupancy(c)' <= Occupancy(c)
<1>a. /\ TypeOK /\ RefersToRows
      /\ held[c] \in Int /\ booked[c] \in Int /\ Occupancy(c) \in Int
  BY DEF WellFormed, TypeOK, Occupancy
<1>1. ASSUME NEW q \in Requests, CheckAvailability(p, q) PROVE Occupancy(c)' <= Occupancy(c)
  BY <1>1, <1>a DEF CheckAvailability, Occupancy
<1>2. ASSUME NEW h \in Holds, CreateHold(p, h)
      PROVE  Occupancy(c)' = Occupancy(c) + Demand(asked[p])[c]
  <2>1. Demand(asked[p]) \in [Rows -> Nat]
    BY <1>2, <1>a, DemandType, RequestAssumption DEF CreateHold, RefersToRows
  <2>2. held'[c] = held[c] + Demand(asked[p])[c] /\ booked' = booked
    BY <1>2, <1>a, <2>1, CounterType DEF CreateHold, TypeOK
  <2>3. QED
    BY <1>a, <2>1, <2>2 DEF Occupancy
<1>3. ASSUME NEW h \in Holds, NEW next \in PC, GoOnWith(p, h, next)
      PROVE  Occupancy(c)' <= Occupancy(c)
  BY <1>3, <1>a DEF GoOnWith, Occupancy
<1>4. ASSUME ReleaseHold(p) PROVE Occupancy(c)' <= Occupancy(c)
  <2>1. target[p] \in Holds /\ holdStatus[target[p]] # "none"
    BY <1>4, <1>a DEF ReleaseHold, RefersToRows
  <2>2. /\ held'[c] = held[c] - Demand(holdRequest[target[p]])[c] /\ booked' = booked
        /\ Demand(holdRequest[target[p]])[c] \in Nat
    BY <1>4, <1>a, <2>1, EndHoldTypes DEF ReleaseHold, HoldStatus
  <2>3. QED
    BY <1>a, <2>2 DEF Occupancy
<1>5. ASSUME NEW b \in Bookings, CreateBookingFromHold(p, b)
      PROVE  Occupancy(c)' <= Occupancy(c)
  <2>1. PICK rooms \in holdRequest[target[p]].quoted : InsertBooking(b, target[p], rooms)
    BY <1>5 DEF CreateBookingFromHold
  <2>2. holdRequest[target[p]] \in RequestType
    BY <1>5, <1>a, RequestAssumption DEF CreateBookingFromHold, RefersToRows
  <2>3. rooms \in [Rooms -> Nat]
    BY <2>2 DEF RequestType
  <2>4. QED
    BY <1>5, <1>a, <2>1, <2>3, ConvertMoves DEF CreateBookingFromHold
<1>6. ASSUME NEW b \in Bookings, CreatePaymentIntent(p, b)
      PROVE  Occupancy(c)' <= Occupancy(c)
  <2>1. holdRequest[target[p]] \in RequestType
    BY <1>6, <1>a, RequestAssumption DEF CreatePaymentIntent, RefersToRows
  <2>2. holdRequest[target[p]].wanted \in [Rooms -> Nat]
    BY <2>1, RequestAssumption DEF RequestType
  <2>3. QED
    BY <1>6, <1>a, <2>2, ConvertMoves DEF CreatePaymentIntent
<1>7. ASSUME Abort(p) PROVE Occupancy(c)' <= Occupancy(c)
  BY <1>7, <1>a DEF Abort, Occupancy
<1>8. QED
  BY <1>1, <1>2, <1>3, <1>4, <1>5, <1>6, <1>7

\* A worker, a webhook or the clock takes no rooms and leaves the handlers be.
WorkerStep ==
  \/ \E h \in Holds : ExpireHoldIfDue(h) \/ HoldFallsDue(h)
  \/ \E b \in Bookings :
       ExpireBookingIfDue(b) \/ SettleBooking(b) \/ RefundBooking(b) \/ BookingFallsDue(b)

LEMMA WorkerTakes ==
  ASSUME WellFormed, WorkerStep, NEW c \in Rows
  PROVE  Occupancy(c)' <= Occupancy(c) /\ pc' = pc /\ asked' = asked
<1> USE DEF handlerVars
<1>a. /\ TypeOK /\ RefersToRows
      /\ held[c] \in Int /\ booked[c] \in Int /\ Occupancy(c) \in Int
  BY DEF WellFormed, TypeOK, Occupancy
<1>b. ASSUME NEW b \in Bookings, GiveBack(b), UNCHANGED held
      PROVE  Occupancy(c)' <= Occupancy(c)
  <2> DEFINE amount == RoomNights(bookingRooms[b], holdRequest[bookingHold[b]].nights)
  <2>1. amount \in [Rows -> Nat]
    BY <1>a, RecordedType
  <2>2. booked'[c] = booked[c] - amount[c] /\ amount[c] \in Nat
    BY <1>a, <1>b, <2>1, CounterType DEF GiveBack, TypeOK
  <2>3. QED
    BY <1>a, <1>b, <2>2 DEF Occupancy
<1>1. ASSUME NEW h \in Holds, ExpireHoldIfDue(h)
      PROVE  Occupancy(c)' <= Occupancy(c) /\ pc' = pc /\ asked' = asked
  <2>1. /\ held'[c] = held[c] - Demand(holdRequest[h])[c]
        /\ Demand(holdRequest[h])[c] \in Nat
    BY <1>1, <1>a, EndHoldTypes DEF ExpireHoldIfDue, HoldStatus
  <2>2. QED
    BY <1>1, <1>a, <2>1 DEF ExpireHoldIfDue, Occupancy
<1>2. ASSUME NEW h \in Holds, HoldFallsDue(h)
      PROVE  Occupancy(c)' <= Occupancy(c) /\ pc' = pc /\ asked' = asked
  BY <1>2, <1>a DEF HoldFallsDue, Occupancy
<1>3. ASSUME NEW b \in Bookings, ExpireBookingIfDue(b)
      PROVE  Occupancy(c)' <= Occupancy(c) /\ pc' = pc /\ asked' = asked
  BY <1>3, <1>b DEF ExpireBookingIfDue, ExpireBooking
<1>4. ASSUME NEW b \in Bookings, SettleBooking(b)
      PROVE  Occupancy(c)' <= Occupancy(c) /\ pc' = pc /\ asked' = asked
  BY <1>4, <1>a DEF SettleBooking, Occupancy
<1>5. ASSUME NEW b \in Bookings, RefundBooking(b)
      PROVE  Occupancy(c)' <= Occupancy(c) /\ pc' = pc /\ asked' = asked
  BY <1>5, <1>b DEF RefundBooking
<1>6. ASSUME NEW b \in Bookings, BookingFallsDue(b)
      PROVE  Occupancy(c)' <= Occupancy(c) /\ pc' = pc /\ asked' = asked
  BY <1>6, <1>a DEF BookingFallsDue, Occupancy
<1>7. QED
  BY <1>1, <1>2, <1>3, <1>4, <1>5, <1>6 DEF WorkerStep

\* A handler that reads a hold stays out of the pending ones.
LEMMA GoOnWithFits ==
  ASSUME WellFormed, WellFormed', NEW c \in Rows, Fits(c), NEW p \in Handlers,
         pc[p] # "hold_checked", NEW h \in Holds,
         NEW next \in PC \ {"hold_checked"}, GoOnWith(p, h, next)
  PROVE  Fits(c)'
<1>1. asked' = asked /\ pc' = [pc EXCEPT ![p] = next]
  BY DEF GoOnWith
<1>2. Pending(c)' = Pending(c)
  BY <1>1 DEF Pending, WellFormed, TypeOK
<1>3. Occupancy(c)' <= Occupancy(c)
  BY HandlerTakes
<1>4. QED
  BY <1>1, <1>2, <1>3, QuietFits

\* Each step keeps each row under its bound.
LEMMA StepFits ==
  ASSUME WellFormed, WellFormed', Next, NEW c \in Rows, Fits(c)
  PROVE  Fits(c)'
<1>1. ASSUME NEW p \in Handlers, NEW q \in Requests, CheckAvailability(p, q) PROVE Fits(c)'
  BY <1>1, CheckFits
<1>2. ASSUME NEW p \in Handlers, NEW h \in Holds, CreateHold(p, h) PROVE Fits(c)'
  <2>1. Finish(p) /\ pc[p] = "hold_checked" /\ asked[p] \in Requests
    BY <1>2 DEF CreateHold, WellFormed, RefersToRows
  <2>2. Occupancy(c)' = Occupancy(c) + Demand(asked[p])[c]
    BY <1>2, HandlerTakes
  <2>3. Demand(asked[p])[c] \in Nat /\ Occupancy(c) \in Int
    BY <2>1, DemandType, RequestAssumption DEF WellFormed, TypeOK, Occupancy
  <2>4. CASE Demand(asked[p])[c] > 0
    <3>1. p \in Pending(c)
      BY <2>1, <2>4 DEF Pending
    <3>2. QED
      BY <2>1, <2>2, <2>3, <3>1, FinishFits
  <2>5. CASE Demand(asked[p])[c] = 0
    BY <2>1, <2>2, <2>3, <2>5, FinishFits
  <2>6. QED
    BY <2>3, <2>4, <2>5
<1>3. ASSUME NEW p \in Handlers,
             \/ ReleaseHold(p)
             \/ \E b \in Bookings : CreateBookingFromHold(p, b) \/ CreatePaymentIntent(p, b)
             \/ Abort(p)
      PROVE  Fits(c)'
  <2>1. Finish(p)
    BY <1>3 DEF ReleaseHold, CreateBookingFromHold, CreatePaymentIntent, Abort
  <2>2. Occupancy(c)' <= Occupancy(c)
    BY <1>3, HandlerTakes
  <2>3. QED
    BY <2>1, <2>2, FinishFits
<1>4. ASSUME NEW p \in Handlers, NEW h \in Holds,
             ReadHoldToRelease(p, h) \/ ReadHoldToBook(p, h) \/ FindHoldToPay(p, h)
      PROVE  Fits(c)'
  BY <1>4, GoOnWithFits DEF ReadHoldToRelease, ReadHoldToBook, FindHoldToPay, PC
<1>5. ASSUME NEW p \in Handlers, RereadHoldToBook(p) \/ RereadHoldToPay(p)
      PROVE  Fits(c)'
  <2>1. target[p] \in Holds
    BY <1>5 DEF RereadHoldToBook, RereadHoldToPay, WellFormed, RefersToRows
  <2>2. QED
    BY <1>5, <2>1, GoOnWithFits DEF RereadHoldToBook, RereadHoldToPay, PC
<1>6. ASSUME WorkerStep PROVE Fits(c)'
  <2>1. Occupancy(c)' <= Occupancy(c) /\ pc' = pc /\ asked' = asked
    BY <1>6, WorkerTakes
  <2>2. Pending(c)' = Pending(c)
    BY <2>1 DEF Pending
  <2>3. QED
    BY <2>1, <2>2, QuietFits
<1>7. QED
  BY <1>1, <1>2, <1>3, <1>4, <1>5, <1>6 DEF Next, WorkerStep

LEMMA InitFits == Init => \A c \in Rows : Fits(c)
<1> SUFFICES ASSUME Init, NEW c \in Rows PROVE Fits(c)
  OBVIOUS
<1>1. Pending(c) = {}
  BY DEF Init, Pending
<1>2. Occupancy(c) = 0
  BY DEF Init, Occupancy
<1>3. MostOccupied(c) >= 0
  <2>1. Cardinality(Handlers) \in Nat /\ Cardinality(Handlers) # 0
    BY HandlerAssumption, FS_CardinalityType, FS_EmptySet
  <2>2. (Cardinality(Handlers) - 1) * MaxQuantity >= 0
    BY <2>1, RequestAssumption, Multiples, 0 * MaxQuantity = 0
  <2>3. (Cardinality(Handlers) - 1) * MaxQuantity \in Int
    BY <2>1, RequestAssumption, Multiples
  <2>4. TotalRooms[c] \in Nat /\ MaxHidden \in Nat
    BY InventoryAssumption, RequestAssumption
  <2>5. QED
    BY <2>2, <2>3, <2>4 DEF MostOccupied
<1>4. QED
  BY <1>1, <1>2, <1>3 DEF Fits, FitsUnder

LEMMA InitIInv == Init => IInv
BY InitWellFormed, InitFits, FitsIsInvariant DEF IInv, WellFormed

LEMMA StepIInv == IInv /\ [Next]_vars => IInv'
<1> SUFFICES ASSUME IInv, [Next]_vars PROVE IInv'
  OBVIOUS
<1>1. WellFormed /\ WellFormed'
  BY StepWellFormed DEF IInv, WellFormed
<1>2. \A c \in Rows : Fits(c)
  BY FitsIsInvariant DEF IInv
<1>3. CASE UNCHANGED vars
  BY <1>3 DEF vars, holdVars, bookingVars, handlerVars, IInv, TypeOK, RefersToRows,
     BookedHoldIsClosed, OverbookingBounded, PendingFits, Pending, Occupancy, MostOccupied
<1>4. CASE Next
  <2>1. \A c \in Rows : Fits(c)'
    BY <1>1, <1>2, <1>4, StepFits
  <2>2. (OverbookingBounded /\ PendingFits)'
    BY <2>1 DEF OverbookingBounded, PendingFits, Fits, FitsUnder, ToHold
  <2>3. QED
    BY <1>1, <2>2 DEF IInv, WellFormed
<1>5. QED
  BY <1>3, <1>4

\* The invariant the theorems below rest on is inductive.
THEOREM SpecIInv == Spec => []IInv
BY InitIInv, StepIInv, PTL DEF Spec

\* However many requests interleave, a row is overbooked by at most what all
\* handlers but one can ask for plus what the check of one request overlooks.
THEOREM Overbooking == Spec => []OverbookingBounded
<1>1. IInv => OverbookingBounded
  BY DEF IInv
<1>2. QED
  BY <1>1, SpecIInv, PTL

\* One handler at a time and no room named twice in a request: no overbooking.
THEOREM SerialCheckout ==
  ASSUME Cardinality(Handlers) = 1, MaxHidden = 0
  PROVE  Spec => [](\A c \in Rows : Occupancy(c) <= TotalRooms[c])
<1>1. IInv => \A c \in Rows : Occupancy(c) <= TotalRooms[c]
  <2> SUFFICES ASSUME IInv, NEW c \in Rows PROVE Occupancy(c) <= TotalRooms[c]
    OBVIOUS
  <2>1. Occupancy(c) <= TotalRooms[c] + 0 * MaxQuantity + 0
    BY DEF IInv, OverbookingBounded, MostOccupied
  <2>2. 0 * MaxQuantity = 0 /\ TotalRooms[c] \in Nat
    BY RequestAssumption, InventoryAssumption
  <2>3. QED
    BY <2>1, <2>2
<1>2. QED
  BY <1>1, SpecIInv, PTL

\* No step but the creation of a hold takes rooms of any row.
THEOREM HoldsTakeRooms == Spec => OnlyHoldsTakeRooms
<1> DEFINE Step == \A c \in Rows : held'[c] + booked'[c] > held[c] + booked[c] =>
                     \E h \in Holds : holdStatus[h] = "none" /\ holdStatus'[h] = "active"
<1>1. WellFormed /\ Next => Step
  <2> SUFFICES ASSUME WellFormed, Next, NEW c \in Rows,
                      ~ \E h \in Holds : holdStatus[h] = "none" /\ holdStatus'[h] = "active"
               PROVE  ~ (held'[c] + booked'[c] > held[c] + booked[c])
    OBVIOUS
  <2>1. \A p \in Handlers, h \in Holds : ~ CreateHold(p, h)
    BY DEF CreateHold, WellFormed, TypeOK
  <2>2. Occupancy(c)' <= Occupancy(c)
    <3>1. ASSUME NEW p \in Handlers,
                 \/ \E q \in Requests : CheckAvailability(p, q)
                 \/ ReleaseHold(p)
                 \/ \E b \in Bookings : CreateBookingFromHold(p, b) \/ CreatePaymentIntent(p, b)
                 \/ Abort(p)
          PROVE  Occupancy(c)' <= Occupancy(c)
      BY <3>1, HandlerTakes
    <3>2. ASSUME NEW p \in Handlers, NEW h \in Holds,
                 ReadHoldToRelease(p, h) \/ ReadHoldToBook(p, h) \/ FindHoldToPay(p, h)
          PROVE  Occupancy(c)' <= Occupancy(c)
      BY <3>2, HandlerTakes DEF ReadHoldToRelease, ReadHoldToBook, FindHoldToPay, PC
    <3>3. ASSUME NEW p \in Handlers, RereadHoldToBook(p) \/ RereadHoldToPay(p)
          PROVE  Occupancy(c)' <= Occupancy(c)
      <4>1. target[p] \in Holds
        BY <3>3 DEF RereadHoldToBook, RereadHoldToPay, WellFormed, RefersToRows
      <4>2. QED
        BY <3>3, <4>1, HandlerTakes DEF RereadHoldToBook, RereadHoldToPay, PC
    <3>4. ASSUME WorkerStep PROVE Occupancy(c)' <= Occupancy(c)
      BY <3>4, WorkerTakes
    <3>5. QED
      BY <2>1, <3>1, <3>2, <3>3, <3>4 DEF Next, WorkerStep
  <2>3. /\ held[c] \in Int /\ booked[c] \in Int /\ held'[c] \in Int /\ booked'[c] \in Int
    <3>1. WellFormed'
      BY StepWellFormed
    <3>2. QED
      BY <3>1 DEF WellFormed, TypeOK
  <2>4. QED
    BY <2>2, <2>3 DEF Occupancy
<1>2. WellFormed /\ [Next]_vars => [Step]_vars
  BY <1>1
<1>3. QED
  BY <1>2, SpecWellFormed, PTL DEF Spec, OnlyHoldsTakeRooms

-----------------------------------------------------------------------------
(* Sums.  The induction principle of FiniteSetTheorems speaks of any       *)
(* predicate, which the provers cannot instantiate; that a family of       *)
(* subsets of a finite set has a smallest member says the same of sets.    *)

\* A family of subsets of a finite set has a smallest member: induction over
\* finite sets, in the form that needs no predicate.
LEMMA SmallestSubset ==
  ASSUME NEW S, IsFiniteSet(S), NEW F, F \subseteq SUBSET S, F # {}
  PROVE  \E T \in F : \A U \in F : U \subseteq T => U = T
<1>1. F \subseteq FiniteSubsetsOf(S)
  BY FS_FiniteSubsetsOfFinite
<1>2. PICK T \in F : \A U \in F : ~ (<<U, T>> \in StrictSubsetOrdering(S))
  <2>1. IsWellFoundedOn(StrictSubsetOrdering(S), FiniteSubsetsOf(S))
    BY FS_StrictSubsetOrderingWellFounded
  <2>2. QED
    BY <1>1, <2>1, WFMin
<1>3. ASSUME NEW U \in F, U \subseteq T PROVE U = T
  <2>1. U \in SUBSET S /\ T \in SUBSET S
    OBVIOUS
  <2>2. CASE U # T
    BY <1>2, <1>3, <2>1, <2>2 DEF StrictSubsetOrdering
  <2>3. QED
    BY <2>2
<1>4. QED
  BY <1>3

Pick(T) == CHOOSE x \in T : TRUE

LEMMA PickIn == ASSUME NEW T, T # {} PROVE Pick(T) \in T
BY DEF Pick

\* What the recursion of SumFunctionOnSet(f, S) defines: the sum over every subset of S.
Sums(f, S, g) ==
  g = [T \in SUBSET S |-> IF T = {} THEN 0 ELSE f[Pick(T)] + g[T \ {Pick(T)}]]

LEMMA SumIsChosen ==
  ASSUME NEW f, NEW S
  PROVE  SumFunctionOnSet(f, S) = (CHOOSE g : Sums(f, S, g))[S]
BY DEF SumFunctionOnSet, FoldFunctionOnSet, MapThenFoldSet, Sums, Pick

LEMMA SumsAt ==
  ASSUME NEW f, NEW S, NEW g, Sums(f, S, g), NEW T \in SUBSET S
  PROVE  g[T] = IF T = {} THEN 0 ELSE f[Pick(T)] + g[T \ {Pick(T)}]
BY DEF Sums


\* Two functions that follow the recursion agree.
LEMMA SumsUnique ==
  ASSUME NEW f, NEW S, IsFiniteSet(S), NEW g, NEW h, Sums(f, S, g), Sums(f, S, h)
  PROVE  g = h
<1> DEFINE F == {T \in SUBSET S : g[T] # h[T]}
<1>1. F = {}
  <2>1. SUFFICES ASSUME F # {} PROVE FALSE
    OBVIOUS
  <2>2. PICK T \in F : \A U \in F : U \subseteq T => U = T
    <3>1. F \subseteq SUBSET S
      OBVIOUS
    <3> HIDE DEF F
    <3> QED
      BY <2>1, <3>1, SmallestSubset
  <2>3. T # {}
    BY SumsAt
  <2>4. Pick(T) \in T
    BY <2>3, PickIn
  <2>5. g[T \ {Pick(T)}] = h[T \ {Pick(T)}]
    BY <2>2, <2>4
  <2> QED
    BY <2>3, <2>5, SumsAt
<1>2. \A T \in SUBSET S : g[T] = h[T]
  BY <1>1
<1> QED
  BY <1>2 DEF Sums

\* Such a function restricted to the subsets of a subset follows it there.
LEMMA SumsRestricted ==
  ASSUME NEW f, NEW S, NEW g, Sums(f, S, g), NEW R \in SUBSET S
  PROVE  Sums(f, R, [T \in SUBSET R |-> g[T]])
<1> DEFINE r == [T \in SUBSET R |-> g[T]]
<1>1. ASSUME NEW T \in SUBSET R
      PROVE  r[T] = IF T = {} THEN 0 ELSE f[Pick(T)] + r[T \ {Pick(T)}]
  BY SumsAt
<1> QED
  BY <1>1 DEF Sums

\* There is one.
LEMMA SumsExist ==
  ASSUME NEW f, NEW S, IsFiniteSet(S)
  PROVE  \E g : Sums(f, S, g)
<1> DEFINE F == {T \in SUBSET S : ~ \E g : Sums(f, T, g)}
<1>1. F = {}
  <2>1. SUFFICES ASSUME F # {} PROVE FALSE
    OBVIOUS
  <2>2. PICK R \in F : \A U \in F : U \subseteq R => U = R
    <3>1. F \subseteq SUBSET S
      OBVIOUS
    <3> HIDE DEF F
    <3> QED
      BY <2>1, <3>1, SmallestSubset
  <2> DEFINE sums(T) == CHOOSE g : Sums(f, T, g)
             total(T) == sums(T)[T]
  <2>3. ASSUME NEW T \in SUBSET R, T # R PROVE Sums(f, T, sums(T))
    BY <2>2, <2>3
  <2>4. ASSUME NEW T \in SUBSET R, T # R, T # {}
        PROVE  /\ T \ {Pick(T)} \in SUBSET R /\ T \ {Pick(T)} # R
               /\ total(T) = f[Pick(T)] + total(T \ {Pick(T)})
    <3> DEFINE U == T \ {Pick(T)}
    <3>1. Pick(T) \in T
      BY <2>4, PickIn
    <3>2. U \in SUBSET R /\ U # R /\ U \in SUBSET T
      BY <2>4, <3>1
    <3>3. Sums(f, T, sums(T)) /\ Sums(f, U, sums(U))
      BY <2>3, <2>4, <3>2
    <3>4. Sums(f, U, [V \in SUBSET U |-> sums(T)[V]])
      BY <3>2, <3>3, SumsRestricted
    <3>5. IsFiniteSet(U)
      BY <3>2, FS_Subset
    <3>6. [V \in SUBSET U |-> sums(T)[V]] = sums(U)
      <4> HIDE DEF U, sums
      <4> QED
        BY <3>3, <3>4, <3>5, SumsUnique
    <3>7. sums(T)[U] = total(U)
      BY <3>6
    <3>8. total(T) = f[Pick(T)] + sums(T)[U]
      <4> HIDE DEF sums
      <4> QED
        BY <2>4, <3>3, SumsAt
    <3> QED
      BY <3>2, <3>7, <3>8
  <2> DEFINE g == [T \in SUBSET R |->
                     IF T = {} THEN 0
                     ELSE IF T = R THEN f[Pick(R)] + total(R \ {Pick(R)})
                     ELSE total(T)]
  <2> HIDE DEF sums
  <2>5. total({}) = 0 \/ R = {}
    <3>1. CASE R # {}
      BY <2>3, <3>1, SumsAt
    <3> QED
      BY <3>1
  <2>6. ASSUME NEW T \in SUBSET R
        PROVE  g[T] = IF T = {} THEN 0 ELSE f[Pick(T)] + g[T \ {Pick(T)}]
    <3>1. CASE T = {}
      BY <3>1
    <3>2. CASE T # {}
      <4> DEFINE U == T \ {Pick(T)}
      <4>1. Pick(T) \in T
        BY <3>2, PickIn
      <4>2. U \in SUBSET R /\ U # R
        BY <4>1
      <4>3. g[U] = total(U)
        BY <2>5, <4>2
      <4>4. g[T] = f[Pick(T)] + total(U)
        BY <2>4, <3>2
      <4> QED
        BY <3>2, <4>3, <4>4
    <3> QED
      BY <3>1, <3>2
  <2>7. Sums(f, R, g)
    BY <2>6 DEF Sums
  <2> QED
    BY <2>7
<1> QED
  BY <1>1

\* The equation of the recursion.
LEMMA SumStep ==
  ASSUME NEW f, NEW S, IsFiniteSet(S)
  PROVE  SumFunctionOnSet(f, S) =
           IF S = {} THEN 0 ELSE f[Pick(S)] + SumFunctionOnSet(f, S \ {Pick(S)})
<1> DEFINE sums(T) == CHOOSE g : Sums(f, T, g)
           U == S \ {Pick(S)}
<1>1. IsFiniteSet(U) /\ U \in SUBSET S
  BY FS_Subset
<1>2. Sums(f, S, sums(S)) /\ Sums(f, U, sums(U))
  BY <1>1, SumsExist
<1>3. Sums(f, U, [V \in SUBSET U |-> sums(S)[V]])
  BY <1>1, <1>2, SumsRestricted
<1>4. sums(U) = [V \in SUBSET U |-> sums(S)[V]]
  <2> HIDE DEF sums, U
  <2> QED
    BY <1>1, <1>2, <1>3, SumsUnique
<1>5. sums(U)[U] = sums(S)[U]
  BY <1>4
<1>6. sums(S)[S] = IF S = {} THEN 0 ELSE f[Pick(S)] + sums(S)[U]
  <2> HIDE DEF sums
  <2> QED
    BY <1>2, SumsAt
<1>7. SumFunctionOnSet(f, S) = sums(S)[S] /\ SumFunctionOnSet(f, U) = sums(U)[U]
  BY SumIsChosen
<1> QED
  BY <1>5, <1>6, <1>7

LEMMA SumEmpty == \A f : SumFunctionOnSet(f, {}) = 0
BY SumStep, FS_EmptySet

\* A sum of integers is an integer.
LEMMA SumType ==
  ASSUME NEW f, NEW S, IsFiniteSet(S), \A x \in S : f[x] \in Int
  PROVE  SumFunctionOnSet(f, S) \in Int
<1> DEFINE F == {T \in SUBSET S : SumFunctionOnSet(f, T) \notin Int}
<1>1. F = {}
  <2>1. SUFFICES ASSUME F # {} PROVE FALSE
    OBVIOUS
  <2>2. PICK T \in F : \A U \in F : U \subseteq T => U = T
    <3>1. F \subseteq SUBSET S
      OBVIOUS
    <3> HIDE DEF F
    <3> QED
      BY <2>1, <3>1, SmallestSubset
  <2>3. IsFiniteSet(T)
    BY FS_Subset
  <2>4. T # {}
    <3>1. SumFunctionOnSet(f, {}) \in Int
      BY SumEmpty
    <3> QED
      BY <3>1
  <2>5. Pick(T) \in T
    BY <2>4, PickIn
  <2>6. SumFunctionOnSet(f, T \ {Pick(T)}) \in Int
    BY <2>2, <2>5
  <2>7. SumFunctionOnSet(f, T) = f[Pick(T)] + SumFunctionOnSet(f, T \ {Pick(T)})
    BY <2>3, <2>4, SumStep
  <2> QED
    BY <2>5, <2>6, <2>7
<1> QED
  BY <1>1

\* Any element may be taken out first.
LEMMA SumWithout ==
  ASSUME NEW f, NEW S, IsFiniteSet(S), \A x \in S : f[x] \in Int, NEW x \in S
  PROVE  SumFunctionOnSet(f, S) = f[x] + SumFunctionOnSet(f, S \ {x})
<1> DEFINE Follows(T, y) == SumFunctionOnSet(f, T) = f[y] + SumFunctionOnSet(f, T \ {y})
           F == {T \in SUBSET S : \E y \in T : ~Follows(T, y)}
<1>1. F = {}
  <2>1. SUFFICES ASSUME F # {} PROVE FALSE
    OBVIOUS
  <2>2. PICK T \in F : \A U \in F : U \subseteq T => U = T
    <3>1. F \subseteq SUBSET S
      OBVIOUS
    <3> HIDE DEF F
    <3> QED
      BY <2>1, <3>1, SmallestSubset
  <2>3. PICK y \in T : ~Follows(T, y)
    OBVIOUS
  <2> DEFINE p == Pick(T)
             rest == (T \ {p}) \ {y}
  <2>4. p \in T /\ Follows(T, p)
    <3>1. IsFiniteSet(T)
      BY FS_Subset
    <3> QED
      BY <2>3, <3>1, PickIn, SumStep
  <2>5. p # y
    BY <2>3, <2>4
  <2>6. Follows(T \ {p}, y)
    <3>1. T \ {p} \notin F
      BY <2>2, <2>4
    <3> QED
      BY <2>3, <2>5, <3>1
  <2>7. Follows(T \ {y}, p)
    <3>1. T \ {y} \notin F
      BY <2>2, <2>3
    <3> QED
      BY <2>4, <2>5, <3>1
  <2>8. rest = (T \ {y}) \ {p}
    OBVIOUS
  <2>9. f[p] \in Int /\ f[y] \in Int /\ SumFunctionOnSet(f, rest) \in Int
    <3>1. IsFiniteSet(rest)
      BY FS_Subset
    <3> QED
      BY <2>3, <2>4, <3>1, SumType
  <2> QED
    <3> HIDE DEF p
    <3>1. SumFunctionOnSet(f, T) = f[p] + (f[y] + SumFunctionOnSet(f, rest))
      BY <2>4, <2>6
    <3>2. f[y] + SumFunctionOnSet(f, T \ {y}) = f[y] + (f[p] + SumFunctionOnSet(f, rest))
      BY <2>7, <2>8
    <3>3. Follows(T, y)
      BY <2>9, <3>1, <3>2
    <3> QED
      BY <2>3, <3>3
<1> QED
  BY <1>1

\* Functions that agree on a set have the same sum over it.
LEMMA SumSame ==
  ASSUME NEW f, NEW g, NEW S, IsFiniteSet(S), \A x \in S : f[x] = g[x]
  PROVE  SumFunctionOnSet(f, S) = SumFunctionOnSet(g, S)
<1> DEFINE F == {T \in SUBSET S : SumFunctionOnSet(f, T) # SumFunctionOnSet(g, T)}
<1>1. F = {}
  <2>1. SUFFICES ASSUME F # {} PROVE FALSE
    OBVIOUS
  <2>2. PICK T \in F : \A U \in F : U \subseteq T => U = T
    <3>1. F \subseteq SUBSET S
      OBVIOUS
    <3> HIDE DEF F
    <3> QED
      BY <2>1, <3>1, SmallestSubset
  <2>3. T # {}
    BY SumEmpty
  <2>4. Pick(T) \in T
    BY <2>3, PickIn
  <2>5. T \ {Pick(T)} \notin F
    BY <2>2, <2>4
  <2>6. IsFiniteSet(T)
    BY FS_Subset
  <2> QED
    BY <2>3, <2>4, <2>5, <2>6, SumStep
<1> QED
  BY <1>1

\* A function changed at one element changes its sum by that much.
LEMMA SumChanged ==
  ASSUME NEW f, NEW g, NEW S, IsFiniteSet(S), NEW x \in S,
         \A y \in S : f[y] \in Int, g[x] \in Int,
         \A y \in S \ {x} : g[y] = f[y]
  PROVE  SumFunctionOnSet(g, S) = SumFunctionOnSet(f, S) - f[x] + g[x]
<1>1. IsFiniteSet(S \ {x})
  BY FS_Subset
<1>2. SumFunctionOnSet(f, S \ {x}) \in Int
  BY <1>1, SumType
<1>3. SumFunctionOnSet(f, S \ {x}) = SumFunctionOnSet(g, S \ {x})
  BY <1>1, SumSame
<1>4. SumFunctionOnSet(f, S) = f[x] + SumFunctionOnSet(f, S \ {x})
  BY SumWithout
<1>5. SumFunctionOnSet(g, S) = g[x] + SumFunctionOnSet(g, S \ {x})
  <2>1. \A y \in S : g[y] \in Int
    OBVIOUS
  <2> QED
    BY <2>1, SumWithout
<1> QED
  BY <1>2, <1>3, <1>4, <1>5

\* Nothing but zeros adds up to zero.
LEMMA SumZero ==
  ASSUME NEW f, NEW S, IsFiniteSet(S), \A x \in S : f[x] = 0
  PROVE  SumFunctionOnSet(f, S) = 0
<1> DEFINE F == {T \in SUBSET S : SumFunctionOnSet(f, T) # 0}
<1>1. F = {}
  <2>1. SUFFICES ASSUME F # {} PROVE FALSE
    OBVIOUS
  <2>2. PICK T \in F : \A U \in F : U \subseteq T => U = T
    <3>1. F \subseteq SUBSET S
      OBVIOUS
    <3> HIDE DEF F
    <3> QED
      BY <2>1, <3>1, SmallestSubset
  <2>3. T # {}
    BY SumEmpty
  <2>4. Pick(T) \in T
    BY <2>3, PickIn
  <2>5. IsFiniteSet(T) /\ T \ {Pick(T)} \notin F
    BY <2>2, <2>4, FS_Subset
  <2> QED
    BY <2>3, <2>4, <2>5, SumStep
<1> QED
  BY <1>1

-----------------------------------------------------------------------------
(* The accounts of a row: what the holds hold and what the bookings book.  *)

HeldBy(c) == [h \in Holds |-> HeldFor(h, c)]
BookedBy(c) == [b \in Bookings |-> BookedFor(b, c)]

\* One time more and one time less.
LEMMA OneMore ==
  ASSUME NEW m \in Int, NEW k \in Int
  PROVE  m * k \in Int /\ (m + 1) * k = m * k + k /\ (m - 1) * k = m * k - k
BY SMT

\* What holds and bookings stand for are numbers.
LEMMA EntryTypes ==
  ASSUME WellFormed, NEW c \in Rows
  PROVE  /\ \A h \in Holds : HeldFor(h, c) \in Int
         /\ \A b \in Bookings : BookedFor(b, c) \in Int /\ Recorded(b, c) \in Int
<1>1. ASSUME NEW h \in Holds PROVE HeldFor(h, c) \in Int
  <2>1. CASE holdStatus[h] = "none"
    BY <2>1 DEF HeldFor
  <2>2. CASE holdStatus[h] # "none"
    <3>1. Demand(holdRequest[h])[c] \in Int
      BY <2>2, DemandType, RequestAssumption DEF WellFormed, RefersToRows
    <3>2. reended[h] \in Int
      BY DEF WellFormed, TypeOK
    <3> QED
      BY <2>2, <3>1, <3>2, OneMore DEF HeldFor
  <2> QED
    BY <2>1, <2>2
<1>2. ASSUME NEW b \in Bookings PROVE Recorded(b, c) \in Int
  BY RecordedType DEF WellFormed, Recorded
<1>3. ASSUME NEW b \in Bookings PROVE BookedFor(b, c) \in Int
  <2>1. CASE bookingStatus[b] = "none"
    BY <2>1 DEF BookedFor
  <2>2. CASE bookingStatus[b] # "none"
    <3>1. bookingHold[b] \in Holds /\ holdStatus[bookingHold[b]] # "none"
      BY <2>2 DEF WellFormed, RefersToRows, BookedHoldIsClosed
    <3>2. Demand(holdRequest[bookingHold[b]])[c] \in Int
      BY <3>1, DemandType, RequestAssumption DEF WellFormed, RefersToRows
    <3>3. refunds[b] \in Int
      BY RefundAssumption DEF WellFormed, TypeOK
    <3> QED
      BY <1>2, <2>2, <3>2, <3>3, OneMore DEF BookedFor
  <2> QED
    BY <2>1, <2>2
<1> QED
  BY <1>1, <1>2, <1>3

\* held_rooms changes by as much as what one hold stands for.
LEMMA HeldEntryChanged ==
  ASSUME WellFormed, NEW c \in Rows, NEW h \in Holds, NEW d \in Int,
         held[c] = SumFunctionOnSet(HeldBy(c), Holds),
         held'[c] = held[c] + d,
         HeldFor(h, c)' = HeldFor(h, c) + d,
         \A g \in Holds \ {h} : HeldFor(g, c)' = HeldFor(g, c)
  PROVE  held'[c] = SumFunctionOnSet(HeldBy(c)', Holds)
<1> DEFINE f == HeldBy(c)
           g == HeldBy(c)'
<1>1. /\ \A x \in Holds : f[x] \in Int
      /\ f[h] = HeldFor(h, c) /\ g[h] = HeldFor(h, c)'
      /\ g[h] \in Int
      /\ \A x \in Holds \ {h} : g[x] = f[x]
  BY EntryTypes DEF HeldBy
<1>2. SumFunctionOnSet(f, Holds) \in Int
  BY <1>1, SumType, TableAssumption
<1>3. SumFunctionOnSet(g, Holds) = SumFunctionOnSet(f, Holds) - f[h] + g[h]
  <2> HIDE DEF f, g
  <2> QED
    BY <1>1, SumChanged, TableAssumption
<1> QED
  BY <1>1, <1>2, <1>3

\* booked_rooms changes by as much as what one booking stands for.
LEMMA BookedEntryChanged ==
  ASSUME WellFormed, NEW c \in Rows, NEW b \in Bookings, NEW d \in Int,
         booked[c] = SumFunctionOnSet(BookedBy(c), Bookings),
         booked'[c] = booked[c] + d,
         BookedFor(b, c)' = BookedFor(b, c) + d,
         \A a \in Bookings \ {b} : BookedFor(a, c)' = BookedFor(a, c)
  PROVE  booked'[c] = SumFunctionOnSet(BookedBy(c)', Bookings)
<1> DEFINE f == BookedBy(c)
           g == BookedBy(c)'
<1>1. /\ \A x \in Bookings : f[x] \in Int
      /\ f[b] = BookedFor(b, c) /\ g[b] = BookedFor(b, c)'
      /\ g[b] \in Int
      /\ \A x \in Bookings \ {b} : g[x] = f[x]
  BY EntryTypes DEF BookedBy
<1>2. SumFunctionOnSet(f, Bookings) \in Int
  BY <1>1, SumType, TableAssumption
<1>3. SumFunctionOnSet(g, Bookings) = SumFunctionOnSet(f, Bookings) - f[b] + g[b]
  <2> HIDE DEF f, g
  <2> QED
    BY <1>1, SumChanged, TableAssumption
<1> QED
  BY <1>1, <1>2, <1>3

\* Nothing the accounts of a row speak of changes.
LEMMA HeldUnchanged ==
  ASSUME NEW c \in Rows, held[c] = SumFunctionOnSet(HeldBy(c), Holds),
         held' = held, \A h \in Holds : HeldFor(h, c)' = HeldFor(h, c)
  PROVE  held'[c] = SumFunctionOnSet(HeldBy(c)', Holds)
<1>1. HeldBy(c)' = HeldBy(c)
  BY DEF HeldBy
<1> QED
  BY <1>1

LEMMA BookedUnchanged ==
  ASSUME NEW c \in Rows, booked[c] = SumFunctionOnSet(BookedBy(c), Bookings),
         booked' = booked, \A b \in Bookings : BookedFor(b, c)' = BookedFor(b, c)
  PROVE  booked'[c] = SumFunctionOnSet(BookedBy(c)', Bookings)
<1>1. BookedBy(c)' = BookedBy(c)
  BY DEF BookedBy
<1> QED
  BY <1>1

\* The accounts are right on every row.
LEMMA AccountsByRow ==
  /\ HeldAccountsForHolds <=> \A c \in Rows : held[c] = SumFunctionOnSet(HeldBy(c), Holds)
  /\ BookedAccountsForBookings <=>
       \A c \in Rows : booked[c] = SumFunctionOnSet(BookedBy(c), Bookings)
BY DEF HeldAccountsForHolds, BookedAccountsForBookings, HeldBy, BookedBy

LEMMA InitAccounts == Init => Accounts
<1> SUFFICES ASSUME Init PROVE Accounts
  OBVIOUS
<1>1. HistoryStartsEmpty
  BY DEF Init, HistoryStartsEmpty
<1>2. ASSUME NEW c \in Rows
      PROVE  /\ held[c] = SumFunctionOnSet(HeldBy(c), Holds)
             /\ booked[c] = SumFunctionOnSet(BookedBy(c), Bookings)
  <2>1. \A h \in Holds : HeldBy(c)[h] = 0
    BY DEF Init, HeldBy, HeldFor
  <2>2. \A b \in Bookings : BookedBy(c)[b] = 0
    BY DEF Init, BookedBy, BookedFor
  <2> QED
    BY <2>1, <2>2, SumZero, TableAssumption DEF Init
<1> QED
  BY <1>1, <1>2, AccountsByRow DEF Accounts

\* An ending takes what the hold asked for off the row, and off what the hold
\* stands for: the second time as the first.
LEMMA EndHoldAccounts ==
  ASSUME WellFormed, HistoryStartsEmpty, NEW h \in Holds, holdStatus[h] # "none",
         NEW s \in HoldStatus \ {"none", "active"}, EndHold(h, s),
         NEW c \in Rows, held[c] = SumFunctionOnSet(HeldBy(c), Holds)
  PROVE  held'[c] = SumFunctionOnSet(HeldBy(c)', Holds)
<1> DEFINE d == Demand(holdRequest[h])[c]
<1>1. TypeOK /\ RefersToRows
  BY DEF WellFormed
<1>2. /\ holdRequest' = holdRequest /\ d \in Int
      /\ holdStatus'[h] = s
      /\ held'[c] = held[c] - d
      /\ \A g \in Holds \ {h} : holdStatus'[g] = holdStatus[g] /\ reended'[g] = reended[g]
      /\ reended'[h] = IF holdStatus[h] = "active" THEN reended[h] ELSE reended[h] + 1
      /\ held[c] \in Int /\ reended[h] \in Int
  <2>1. /\ Demand(holdRequest[h]) \in [Rows -> Nat]
        /\ \A r \in Rows : held'[r] = held[r] - Demand(holdRequest[h])[r]
        /\ \A g \in Holds : holdStatus'[g] = IF g = h THEN s ELSE holdStatus[g]
    BY <1>1, EndHoldTypes
  <2>2. /\ \A g \in Holds \ {h} : reended'[g] = reended[g]
        /\ reended'[h] = IF holdStatus[h] = "active" THEN reended[h] ELSE reended[h] + 1
        /\ holdRequest' = holdRequest
    BY <1>1 DEF EndHold, TypeOK
  <2> QED
    BY <1>1, <2>1, <2>2 DEF TypeOK
<1>3. Demand(holdRequest[h])' = Demand(holdRequest[h])
  BY <1>2 DEF Demand, RoomNights
<1>4. HeldFor(h, c)' = (0 - reended'[h]) * d
  BY <1>2, <1>3 DEF HeldFor
<1>5. HeldFor(h, c) = ((IF holdStatus[h] = "active" THEN 1 ELSE 0) - reended[h]) * d
  BY DEF HeldFor
<1>6. HeldFor(h, c)' = HeldFor(h, c) + (0 - d)
  <2> HIDE DEF d
  <2>1. CASE holdStatus[h] = "active"
    <3>1. (0 - reended[h]) * d = (1 - reended[h]) * d - d
      BY <1>2, SMT
    <3> QED
      BY <1>2, <1>4, <1>5, <2>1, <3>1, OneMore
  <2>2. CASE holdStatus[h] # "active"
    <3>1. (0 - (reended[h] + 1)) * d = (0 - reended[h]) * d - d
      BY <1>2, SMT
    <3> QED
      BY <1>2, <1>4, <1>5, <2>2, <3>1, OneMore
  <2> QED
    BY <2>1, <2>2
<1>7. \A g \in Holds \ {h} : HeldFor(g, c)' = HeldFor(g, c)
  BY <1>2 DEF HeldFor, Demand, RoomNights
<1> QED
  BY <1>2, <1>6, <1>7, HeldEntryChanged

\* A step that leaves the columns of the holds alone leaves what they stand for.
LEMMA HoldsUntouched ==
  ASSUME NEW c \in Rows, UNCHANGED <<holdStatus, holdRequest, reended>>
  PROVE  \A h \in Holds : HeldFor(h, c)' = HeldFor(h, c)
BY DEF HeldFor, Demand, RoomNights

\* A step that leaves a booking alone, and the request of its hold, leaves
\* what it stands for.
LEMMA BookingUntouched ==
  ASSUME NEW c \in Rows, NEW b \in Bookings,
         bookingStatus'[b] = bookingStatus[b], bookingHold'[b] = bookingHold[b],
         bookingRooms'[b] = bookingRooms[b], refunds'[b] = refunds[b],
         bookingStatus[b] # "none" =>
           holdRequest'[bookingHold[b]] = holdRequest[bookingHold[b]]
  PROVE  BookedFor(b, c)' = BookedFor(b, c)
BY DEF BookedFor, Recorded, Demand, RoomNights

\* The transaction of createHold adds what the new hold asks for.
LEMMA CreateHoldAccounts ==
  ASSUME WellFormed, Accounts, NEW p \in Handlers, NEW h \in Holds, CreateHold(p, h)
  PROVE  Accounts'
<1>1. TypeOK /\ RefersToRows /\ BookedHoldIsClosed /\ HistoryStartsEmpty
  BY DEF WellFormed, Accounts
<1>2. /\ asked[p] \in Requests /\ holdStatus[h] = "none" /\ reended[h] = 0
      /\ holdStatus' = [holdStatus EXCEPT ![h] = "active"]
      /\ holdRequest' = [holdRequest EXCEPT ![h] = asked[p]]
      /\ held' = Increased(held, Demand(asked[p]))
      /\ UNCHANGED <<booked, bookingStatus, bookingHold, bookingRooms, refunds, reended>>
  BY <1>1 DEF CreateHold, RefersToRows, HistoryStartsEmpty, bookingVars
<1>3. HistoryStartsEmpty'
  BY <1>1, <1>2 DEF HistoryStartsEmpty, TypeOK
<1>4. ASSUME NEW c \in Rows PROVE held'[c] = SumFunctionOnSet(HeldBy(c)', Holds)
  <2> DEFINE d == Demand(asked[p])[c]
  <2>1. Demand(asked[p]) \in [Rows -> Nat] /\ d \in Int
    BY <1>2, DemandType, RequestAssumption
  <2>2. held'[c] = held[c] + d
    BY <1>1, <1>2, <2>1, CounterType DEF TypeOK
  <2>3. holdStatus'[h] = "active" /\ holdRequest'[h] = asked[p] /\ reended'[h] = 0
    BY <1>1, <1>2 DEF TypeOK
  <2>4. HeldFor(h, c) = 0 /\ HeldFor(h, c)' = d
    BY <1>2, <2>1, <2>3 DEF HeldFor, Demand, RoomNights
  <2>5. \A g \in Holds \ {h} : HeldFor(g, c)' = HeldFor(g, c)
    BY <1>1, <1>2 DEF HeldFor, Demand, RoomNights, TypeOK
  <2>6. held[c] = SumFunctionOnSet(HeldBy(c), Holds)
    BY AccountsByRow DEF Accounts
  <2> QED
    <3> HIDE DEF d
    <3> QED
      BY <2>1, <2>2, <2>4, <2>5, <2>6, HeldEntryChanged
<1>5. ASSUME NEW c \in Rows PROVE booked'[c] = SumFunctionOnSet(BookedBy(c)', Bookings)
  <2>1. \A b \in Bookings : bookingStatus[b] # "none" =>
          holdRequest'[bookingHold[b]] = holdRequest[bookingHold[b]]
    BY <1>1, <1>2 DEF TypeOK, RefersToRows, BookedHoldIsClosed
  <2>2. \A b \in Bookings : BookedFor(b, c)' = BookedFor(b, c)
    BY <1>2, <2>1, BookingUntouched
  <2> QED
    BY <1>2, <2>2, BookedUnchanged, AccountsByRow DEF Accounts
<1> QED
  BY <1>3, <1>4, <1>5 DEF Accounts, HeldAccountsForHolds, BookedAccountsForBookings, HeldBy, BookedBy

\* The end of a hold without a booking: by its user or by the worker.
LEMMA EndingAccounts ==
  ASSUME WellFormed, Accounts, NEW h \in Holds, holdStatus[h] # "none",
         NEW s \in HoldStatus \ {"none", "active"}, EndHold(h, s),
         UNCHANGED <<booked, bookingVars>>
  PROVE  Accounts'
<1> USE DEF bookingVars
<1>1. TypeOK /\ HistoryStartsEmpty
  BY DEF WellFormed, Accounts
<1>2. HistoryStartsEmpty'
  BY <1>1 DEF HistoryStartsEmpty, EndHold, TypeOK
<1>3. \A c \in Rows : held'[c] = SumFunctionOnSet(HeldBy(c)', Holds)
  BY <1>1, EndHoldAccounts, AccountsByRow DEF Accounts
<1>4. ASSUME NEW c \in Rows PROVE booked'[c] = SumFunctionOnSet(BookedBy(c)', Bookings)
  <2>1. \A b \in Bookings : BookedFor(b, c)' = BookedFor(b, c)
    BY BookingUntouched DEF EndHold
  <2> QED
    BY <2>1, BookedUnchanged, AccountsByRow DEF Accounts
<1> QED
  BY <1>2, <1>3, <1>4 DEF Accounts, HeldAccountsForHolds, BookedAccountsForBookings, HeldBy, BookedBy

\* A conversion takes the rooms of the hold off held_rooms and adds them to
\* booked_rooms, where the new booking stands for them.
LEMMA ConvertAccounts ==
  ASSUME WellFormed, Accounts, NEW h \in Holds, holdStatus[h] # "none", NEW b \in Bookings,
         EndHold(h, "completed"), NEW rooms \in [Rooms -> Nat], InsertBooking(b, h, rooms)
  PROVE  Accounts'
<1>1. TypeOK /\ RefersToRows /\ HistoryStartsEmpty
  BY DEF WellFormed, Accounts
<1>2. /\ bookingStatus[b] = "none" /\ refunds[b] = 0
      /\ bookingStatus' = [bookingStatus EXCEPT ![b] = "pending_payment"]
      /\ bookingHold' = [bookingHold EXCEPT ![b] = h]
      /\ bookingRooms' = [bookingRooms EXCEPT ![b] = rooms]
      /\ booked' = Increased(booked, Demand(holdRequest[h]))
      /\ refunds' = refunds /\ holdRequest' = holdRequest
  BY <1>1 DEF InsertBooking, EndHold, HistoryStartsEmpty
<1>3. HistoryStartsEmpty'
  BY <1>1, <1>2 DEF HistoryStartsEmpty, EndHold, TypeOK
<1>4. \A c \in Rows : held'[c] = SumFunctionOnSet(HeldBy(c)', Holds)
  BY <1>1, EndHoldAccounts, AccountsByRow DEF Accounts, HoldStatus
<1>5. ASSUME NEW c \in Rows PROVE booked'[c] = SumFunctionOnSet(BookedBy(c)', Bookings)
  <2> DEFINE d == Demand(holdRequest[h])[c]
  <2>1. Demand(holdRequest[h]) \in [Rows -> Nat] /\ d \in Int
    BY <1>1, DemandType, RequestAssumption DEF RefersToRows
  <2>2. booked'[c] = booked[c] + d
    BY <1>1, <1>2, <2>1, CounterType DEF TypeOK
  <2>3. /\ bookingStatus'[b] = "pending_payment" /\ bookingHold'[b] = h
        /\ bookingRooms'[b] = rooms /\ refunds'[b] = 0
    BY <1>1, <1>2 DEF TypeOK
  <2>4. BookedFor(b, c) = 0 /\ BookedFor(b, c)' = d
    <3>1. Recorded(b, c)' \in Int
      <4>1. Recorded(b, c)' = RoomNights(rooms, holdRequest[h].nights)[c]
        BY <1>2, <2>3 DEF Recorded, RoomNights
      <4> QED
        BY <4>1, RoomNightsType
    <3>2. BookedFor(b, c)' = d - 0 * Recorded(b, c)'
      BY <1>2, <2>3 DEF BookedFor, Demand, RoomNights
    <3>3. 0 * Recorded(b, c)' = 0
      BY <3>1
    <3> QED
      <4> HIDE DEF d
      <4> QED
        BY <1>2, <2>1, <3>2, <3>3 DEF BookedFor
  <2>5. \A a \in Bookings \ {b} : BookedFor(a, c)' = BookedFor(a, c)
    <3> SUFFICES ASSUME NEW a \in Bookings \ {b} PROVE BookedFor(a, c)' = BookedFor(a, c)
      OBVIOUS
    <3>1. /\ bookingStatus'[a] = bookingStatus[a] /\ bookingHold'[a] = bookingHold[a]
          /\ bookingRooms'[a] = bookingRooms[a] /\ refunds'[a] = refunds[a]
      BY <1>1, <1>2 DEF TypeOK
    <3> QED
      BY <1>2, <3>1, BookingUntouched
  <2>6. booked[c] = SumFunctionOnSet(BookedBy(c), Bookings)
    BY AccountsByRow DEF Accounts
  <2> QED
    <3> HIDE DEF d
    <3> QED
      BY <2>1, <2>2, <2>4, <2>5, <2>6, BookedEntryChanged
<1> QED
  BY <1>3, <1>4, <1>5 DEF Accounts, HeldAccountsForHolds, BookedAccountsForBookings, HeldBy, BookedBy

\* How often the rooms of booking b were given back.
GivenBack(b) ==
  refunds[b] + (IF bookingStatus[b] \in {"expired", "overwritten"} THEN 1 ELSE 0)

\* A step on a booking that was made gives its rooms back once more, or not.
LEMMA GiveBackAccounts ==
  ASSUME WellFormed, Accounts, NEW b \in Bookings, bookingStatus[b] # "none",
         bookingStatus' \in [Bookings -> BookingStatus], bookingStatus'[b] # "none",
         \A a \in Bookings \ {b} : bookingStatus'[a] = bookingStatus[a]
                                     /\ refunds'[a] = refunds[a],
         \/ GivenBack(b)' = GivenBack(b) + 1 /\ GiveBack(b)
         \/ GivenBack(b)' = GivenBack(b) /\ UNCHANGED booked,
         UNCHANGED <<held, holdVars, bookingHold, bookingRooms, reended>>
  PROVE  Accounts'
<1> USE DEF holdVars
<1>1. TypeOK /\ HistoryStartsEmpty
  BY DEF WellFormed, Accounts
<1>2. HistoryStartsEmpty'
  BY <1>1 DEF HistoryStartsEmpty
<1>3. ASSUME NEW c \in Rows PROVE held'[c] = SumFunctionOnSet(HeldBy(c)', Holds)
  BY HoldsUntouched, HeldUnchanged, AccountsByRow DEF Accounts
<1>4. ASSUME NEW c \in Rows PROVE booked'[c] = SumFunctionOnSet(BookedBy(c)', Bookings)
  <2> DEFINE r == Recorded(b, c)
             d == Demand(holdRequest[bookingHold[b]])[c]
             n == GivenBack(b)
  <2>1. /\ r \in Int /\ r' = r /\ d' = d
        /\ BookedFor(b, c) = d - n * r
        /\ BookedFor(b, c)' = d - n' * r
        /\ BookedFor(b, c) \in Int
    BY EntryTypes DEF BookedFor, Recorded, GivenBack, Demand, RoomNights
  <2>2. n \in Int /\ n * r \in Int
    BY <1>1, <2>1, RefundAssumption, OneMore DEF GivenBack, TypeOK
  <2>3. \A a \in Bookings \ {b} : BookedFor(a, c)' = BookedFor(a, c)
    BY BookingUntouched
  <2>4. booked[c] = SumFunctionOnSet(BookedBy(c), Bookings) /\ booked[c] \in Int
    BY <1>1, AccountsByRow DEF Accounts, TypeOK
  <2>5. CASE n' = n + 1 /\ GiveBack(b)
    <3>1. booked'[c] = booked[c] + (0 - r)
      <4> DEFINE amount == RoomNights(bookingRooms[b], holdRequest[bookingHold[b]].nights)
      <4>1. amount \in [Rows -> Nat]
        BY <1>1, RecordedType
      <4>2. booked' = Decreased(booked, amount) /\ r = amount[c]
        BY <2>5 DEF GiveBack, Recorded
      <4>3. booked \in [Rows -> Int]
        BY <1>1 DEF TypeOK
      <4>4. booked'[c] = booked[c] - amount[c]
        <5> HIDE DEF amount
        <5> QED
          BY <4>1, <4>2, <4>3, CounterType
      <4> QED
        <5> HIDE DEF amount, r
        <5> QED
          BY <2>1, <2>4, <4>2, <4>4
    <3>2. n' * r = n * r + r
      <4> HIDE DEF n, r
      <4> QED
        BY <2>1, <2>2, <2>5, OneMore
    <3>3. d \in Int
      <4>1. bookingHold[b] \in Holds /\ holdStatus[bookingHold[b]] # "none"
        BY DEF WellFormed, RefersToRows, BookedHoldIsClosed
      <4> QED
        BY <4>1, DemandType, RequestAssumption DEF WellFormed, RefersToRows
    <3>4. BookedFor(b, c)' = BookedFor(b, c) + (0 - r)
      <4> HIDE DEF n, r, d
      <4> QED
        BY <2>1, <2>2, <3>2, <3>3
    <3> QED
      <4> HIDE DEF n, r, d
      <4> QED
        BY <2>1, <2>3, <2>4, <3>1, <3>4, BookedEntryChanged
  <2>6. CASE n' = n /\ UNCHANGED booked
    <3>1. BookedFor(b, c)' = BookedFor(b, c)
      <4> HIDE DEF n, r, d
      <4> QED
        BY <2>1, <2>6
    <3>2. \A a \in Bookings : BookedFor(a, c)' = BookedFor(a, c)
      BY <2>3, <3>1
    <3> QED
      BY <2>4, <2>6, <3>2, BookedUnchanged
  <2> QED
    BY <2>5, <2>6
<1> QED
  BY <1>2, <1>3, <1>4 DEF Accounts, HeldAccountsForHolds, BookedAccountsForBookings, HeldBy, BookedBy

\* A step that leaves counters, holds and what bookings stand for alone.
LEMMA QuietAccounts ==
  ASSUME Accounts,
         UNCHANGED <<held, booked, holdStatus, holdRequest, reended,
                     bookingStatus, bookingHold, bookingRooms, refunds>>
  PROVE  Accounts'
<1>1. HistoryStartsEmpty'
  BY DEF Accounts, HistoryStartsEmpty
<1>2. ASSUME NEW c \in Rows
      PROVE  /\ held'[c] = SumFunctionOnSet(HeldBy(c)', Holds)
             /\ booked'[c] = SumFunctionOnSet(BookedBy(c)', Bookings)
  BY HoldsUntouched, HeldUnchanged, BookingUntouched, BookedUnchanged, AccountsByRow DEF Accounts
<1> QED
  BY <1>1, <1>2 DEF Accounts, HeldAccountsForHolds, BookedAccountsForBookings, HeldBy, BookedBy

LEMMA StepAccounts == WellFormed /\ Accounts /\ [Next]_vars => Accounts'
<1> SUFFICES ASSUME WellFormed, Accounts, [Next]_vars PROVE Accounts'
  OBVIOUS
<1> USE DEF holdVars, bookingVars, handlerVars
<1>a. TypeOK /\ RefersToRows
  BY DEF WellFormed
<1>1. ASSUME NEW p \in Handlers, NEW h \in Holds, CreateHold(p, h) PROVE Accounts'
  BY <1>1, CreateHoldAccounts
<1>2. ASSUME NEW p \in Handlers, ReleaseHold(p) PROVE Accounts'
  <2>1. target[p] \in Holds /\ holdStatus[target[p]] # "none"
    BY <1>2, <1>a DEF ReleaseHold, RefersToRows
  <2> QED
    BY <1>2, <2>1, EndingAccounts DEF ReleaseHold, HoldStatus
<1>3. ASSUME NEW h \in Holds, ExpireHoldIfDue(h) PROVE Accounts'
  BY <1>3, EndingAccounts DEF ExpireHoldIfDue, HoldStatus
<1>4. ASSUME NEW p \in Handlers, NEW b \in Bookings, CreateBookingFromHold(p, b)
      PROVE  Accounts'
  <2>1. target[p] \in Holds /\ holdStatus[target[p]] # "none"
    BY <1>4, <1>a DEF CreateBookingFromHold, RefersToRows
  <2>2. PICK rooms \in holdRequest[target[p]].quoted : InsertBooking(b, target[p], rooms)
    BY <1>4 DEF CreateBookingFromHold
  <2>3. rooms \in [Rooms -> Nat]
    <3>1. holdRequest[target[p]] \in RequestType
      BY <2>1, <1>a, RequestAssumption DEF RefersToRows
    <3> QED
      BY <3>1 DEF RequestType
  <2> QED
    BY <1>4, <2>1, <2>2, <2>3, ConvertAccounts DEF CreateBookingFromHold
<1>5. ASSUME NEW p \in Handlers, NEW b \in Bookings, CreatePaymentIntent(p, b)
      PROVE  Accounts'
  <2>1. target[p] \in Holds /\ holdStatus[target[p]] # "none"
    BY <1>5, <1>a DEF CreatePaymentIntent, RefersToRows
  <2>2. holdRequest[target[p]].wanted \in [Rooms -> Nat]
    <3>1. holdRequest[target[p]] \in RequestType
      BY <2>1, <1>a, RequestAssumption DEF RefersToRows
    <3> QED
      BY <3>1, RequestAssumption DEF RequestType
  <2> QED
    BY <1>5, <2>1, <2>2, ConvertAccounts DEF CreatePaymentIntent
<1>6. ASSUME NEW b \in Bookings, ExpireBookingIfDue(b) PROVE Accounts'
  <2>1. /\ bookingStatus' \in [Bookings -> BookingStatus]
        /\ bookingStatus[b] = "pending_payment" /\ bookingStatus'[b] = "expired"
        /\ \A a \in Bookings \ {b} : bookingStatus'[a] = bookingStatus[a]
        /\ refunds' = refunds /\ GiveBack(b)
    BY <1>6, <1>a DEF ExpireBookingIfDue, ExpireBooking, TypeOK, BookingStatus
  <2>2. GivenBack(b)' = GivenBack(b) + 1
    BY <2>1, <1>a, RefundAssumption DEF GivenBack, TypeOK
  <2> QED
    BY <1>6, <2>1, <2>2, GiveBackAccounts DEF ExpireBookingIfDue, ExpireBooking
<1>7. ASSUME NEW b \in Bookings, SettleBooking(b) PROVE Accounts'
  <2>1. /\ bookingStatus' \in [Bookings -> BookingStatus]
        /\ bookingStatus[b] # "none" /\ bookingStatus'[b] # "none"
        /\ bookingStatus'[b] \in {"expired", "overwritten"}
             <=> bookingStatus[b] \in {"expired", "overwritten"}
        /\ \A a \in Bookings \ {b} : bookingStatus'[a] = bookingStatus[a]
        /\ refunds' = refunds
    BY <1>7, <1>a DEF SettleBooking, WriteStatus, TypeOK, BookingStatus
  <2>2. GivenBack(b)' = GivenBack(b)
    BY <2>1 DEF GivenBack
  <2> QED
    BY <1>7, <2>1, <2>2, GiveBackAccounts DEF SettleBooking
<1>8. ASSUME NEW b \in Bookings, RefundBooking(b) PROVE Accounts'
  <2>1. /\ bookingStatus' \in [Bookings -> BookingStatus]
        /\ bookingStatus[b] # "none" /\ bookingStatus'[b] # "none"
        /\ bookingStatus'[b] \in {"expired", "overwritten"}
             <=> bookingStatus[b] \in {"expired", "overwritten"}
        /\ \A a \in Bookings \ {b} : bookingStatus'[a] = bookingStatus[a]
                                       /\ refunds'[a] = refunds[a]
        /\ refunds'[b] = refunds[b] + 1 /\ refunds[b] \in Int
        /\ GiveBack(b)
    BY <1>8, <1>a, RefundAssumption DEF RefundBooking, WriteStatus, TypeOK, BookingStatus
  <2>2. GivenBack(b)' = GivenBack(b) + 1
    BY <2>1 DEF GivenBack
  <2> QED
    BY <1>8, <2>1, <2>2, GiveBackAccounts DEF RefundBooking
<1>9. ASSUME NEW p \in Handlers, NEW h \in Holds, NEW next \in PC, GoOnWith(p, h, next)
      PROVE  Accounts'
  BY <1>9, QuietAccounts DEF GoOnWith
<1>10. ASSUME NEW p \in Handlers,
              \/ \E q \in Requests : CheckAvailability(p, q)
              \/ Abort(p)
       PROVE  Accounts'
  BY <1>10, QuietAccounts DEF CheckAvailability, Abort
<1>11. ASSUME NEW p \in Handlers, NEW h \in Holds,
              ReadHoldToRelease(p, h) \/ ReadHoldToBook(p, h) \/ FindHoldToPay(p, h)
       PROVE  Accounts'
  BY <1>9, <1>11 DEF ReadHoldToRelease, ReadHoldToBook, FindHoldToPay, PC
<1>12. ASSUME NEW p \in Handlers, RereadHoldToBook(p) \/ RereadHoldToPay(p)
       PROVE  Accounts'
  <2>1. target[p] \in Holds
    BY <1>12, <1>a DEF RereadHoldToBook, RereadHoldToPay, RefersToRows
  <2> QED
    BY <1>9, <1>12, <2>1 DEF RereadHoldToBook, RereadHoldToPay, PC
<1>13. ASSUME \/ \E h \in Holds : HoldFallsDue(h)
              \/ \E b \in Bookings : BookingFallsDue(b)
              \/ UNCHANGED vars
       PROVE  Accounts'
  BY <1>13, QuietAccounts DEF HoldFallsDue, BookingFallsDue, vars
<1> QED
  BY <1>1, <1>2, <1>3, <1>4, <1>5, <1>6, <1>7, <1>8, <1>10, <1>11, <1>12, <1>13 DEF Next

\* The counters account for holds and bookings in every reachable state.
THEOREM SpecAccounts == Spec => []Accounts
BY InitAccounts, StepAccounts, SpecWellFormed, PTL DEF Spec

\* held_rooms of a row is what the active holds ask for, less what holds that
\* were ended more than once gave back again: no other interleaving of
\* requests, conversions and expiry loses or invents a held room.
THEOREM HeldAccounts == Spec => []HeldAccountsForHolds
<1>1. Accounts => HeldAccountsForHolds
  BY DEF Accounts
<1> QED
  BY <1>1, SpecAccounts, PTL

\* booked_rooms of a row is what the bookings reserved, less what expiry and
\* each refund gave back.
THEOREM BookedAccounts == Spec => []BookedAccountsForBookings
<1>1. Accounts => BookedAccountsForBookings
  BY DEF Accounts
<1> QED
  BY <1>1, SpecAccounts, PTL

-----------------------------------------------------------------------------
(* How often a hold can be ended or booked: each of its readers once.      *)

\* No handler comes to hold h, and nothing is made of it or counted against it.
LeftAlone(h) ==
  /\ Readers(h)' \subseteq Readers(h)
  /\ BookingsOf(h)' \subseteq BookingsOf(h)
  /\ reended'[h] = reended[h]

\* One of the handlers that have read hold h ends it, and may make a booking of it.
EndedByReader(h) ==
  \E p \in Readers(h) :
    /\ Readers(h)' \subseteq Readers(h) \ {p}
    /\ \E b : BookingsOf(h)' \subseteq BookingsOf(h) \cup {b}
    /\ reended'[h] \in {reended[h], reended[h] + 1}

\* What is counted plus who can still add to it does not grow.
LEMMA SharesKept ==
  ASSUME NEW R, IsFiniteSet(R), NEW R2 \in SUBSET R, NEW B, IsFiniteSet(B), NEW B2 \in SUBSET B,
         NEW n \in Nat, Cardinality(B) + Cardinality(R) <= n,
         NEW k \in Nat, k + Cardinality(R) <= n
  PROVE  Cardinality(B2) + Cardinality(R2) <= n /\ k + Cardinality(R2) <= n
<1>1. /\ Cardinality(R2) <= Cardinality(R) /\ Cardinality(R2) \in Nat
      /\ Cardinality(B2) <= Cardinality(B) /\ Cardinality(B2) \in Nat
      /\ Cardinality(R) \in Nat /\ Cardinality(B) \in Nat
  BY FS_Subset, FS_CardinalityType
<1> QED
  BY <1>1

LEMMA SharesSpent ==
  ASSUME NEW R, IsFiniteSet(R), NEW p \in R, NEW R2 \in SUBSET (R \ {p}),
         NEW B, IsFiniteSet(B), NEW b, NEW B2 \in SUBSET (B \cup {b}),
         NEW n \in Nat, Cardinality(B) + Cardinality(R) <= n,
         NEW k \in Nat, k + Cardinality(R) <= n, NEW k2 \in {k, k + 1}
  PROVE  Cardinality(B2) + Cardinality(R2) <= n /\ k2 + Cardinality(R2) <= n
<1>1. Cardinality(R) \in Nat /\ Cardinality(B) \in Nat
  BY FS_CardinalityType
<1>2. IsFiniteSet(R \ {p}) /\ Cardinality(R \ {p}) = Cardinality(R) - 1
  BY FS_RemoveElement
<1>3. /\ IsFiniteSet(B \cup {b})
      /\ Cardinality(B \cup {b}) = IF b \in B THEN Cardinality(B) ELSE Cardinality(B) + 1
  BY FS_AddElement
<1>4. Cardinality(R2) <= Cardinality(R) - 1 /\ Cardinality(R2) \in Nat
  BY <1>2, FS_Subset, FS_CardinalityType
<1>5. Cardinality(B2) <= Cardinality(B) + 1 /\ Cardinality(B2) \in Nat
  <2>1. Cardinality(B2) <= Cardinality(B \cup {b}) /\ Cardinality(B2) \in Nat
    BY <1>3, FS_Subset, FS_CardinalityType
  <2> QED
    BY <1>1, <1>3, <2>1
<1> QED
  BY <1>1, <1>4, <1>5

\* A hold that is open has made no booking and has not ended, so all handlers may
\* have read it.
LEMMA OpenHoldFits ==
  ASSUME WellFormed, HistoryStartsEmpty, NEW h \in Holds,
         holdStatus[h] \in {"none", "active"}
  PROVE  /\ Cardinality(BookingsOf(h)) + Cardinality(Readers(h)) <= Cardinality(Handlers)
         /\ reended[h] + Cardinality(Readers(h)) <= Cardinality(Handlers)
<1>1. BookingsOf(h) = {} /\ reended[h] = 0
  BY DEF WellFormed, BookedHoldIsClosed, HistoryStartsEmpty, BookingsOf
<1>2. Cardinality(Readers(h)) <= Cardinality(Handlers) /\ Cardinality(Readers(h)) \in Nat
  BY HandlerAssumption, FS_Subset, FS_CardinalityType DEF Readers
<1>3. Cardinality(Handlers) \in Nat
  BY HandlerAssumption, FS_CardinalityType
<1> QED
  BY <1>1, <1>2, <1>3, FS_EmptySet

\* Only a handler that has read a hold ends it a second time or books it, and then
\* it is done; no handler comes to a hold that is closed.
LEMMA ClosedHoldStep ==
  ASSUME WellFormed, [Next]_vars, NEW h \in Holds,
         holdStatus'[h] \notin {"none", "active"}
  PROVE  LeftAlone(h) \/ EndedByReader(h)
<1> USE DEF LeftAlone, EndedByReader, Readers, BookingsOf, holdVars, bookingVars, handlerVars
<1>a. TypeOK /\ RefersToRows
  BY DEF WellFormed
<1>b. ASSUME NEW p \in Handlers, Finish(p)
      PROVE  Readers(h)' = Readers(h) \ {p}
  BY <1>a, <1>b, FinishTypes
<1>1. ASSUME NEW p \in Handlers, NEW q \in Requests, CheckAvailability(p, q)
      PROVE  LeftAlone(h)
  BY <1>1, <1>a DEF CheckAvailability, TypeOK
<1>2. ASSUME NEW p \in Handlers, NEW g \in Holds, CreateHold(p, g) PROVE LeftAlone(h)
  BY <1>2, <1>b DEF CreateHold
<1>3. ASSUME NEW p \in Handlers, NEW g \in Holds, holdStatus[g] = "active",
             NEW next \in PC, GoOnWith(p, g, next)
      PROVE  LeftAlone(h)
  <2>1. h # g
    BY <1>3 DEF GoOnWith
  <2> QED
    BY <1>3, <1>a, <2>1 DEF GoOnWith, TypeOK
<1>4. ASSUME NEW p \in Handlers, NEW s, EndHold(target[p], s), Finish(p),
             pc[p] \notin {"idle", "hold_checked"},
             \A g \in Holds : \E b :
               /\ BookingsOf(g)' \subseteq BookingsOf(g) \cup {b}
               /\ g # target[p] => BookingsOf(g)' \subseteq BookingsOf(g)
      PROVE  LeftAlone(h) \/ EndedByReader(h)
  <2> HIDE DEF BookingsOf, Readers
  <2>1. target[p] \in Holds
    BY <1>4, <1>a DEF RefersToRows
  <2>2. CASE h = target[p]
    <3>1. p \in Readers(h) /\ Readers(h)' = Readers(h) \ {p}
      BY <1>4, <1>b, <2>2 DEF Readers
    <3>2. reended'[h] \in {reended[h], reended[h] + 1}
      BY <1>4, <1>a, <2>2 DEF EndHold, TypeOK
    <3> QED
      BY <1>4, <3>1, <3>2
  <2>3. CASE h # target[p]
    <3>1. reended'[h] = reended[h]
      BY <1>4, <1>a, <2>3 DEF EndHold, TypeOK
    <3> QED
      BY <1>4, <1>b, <2>3, <3>1
  <2> QED
    BY <2>2, <2>3
<1>5. ASSUME NEW p \in Handlers, ReleaseHold(p) PROVE LeftAlone(h) \/ EndedByReader(h)
  <2>1. \A g \in Holds : BookingsOf(g)' = BookingsOf(g)
    BY <1>5 DEF ReleaseHold
  <2> HIDE DEF BookingsOf, Readers, LeftAlone, EndedByReader
  <2> QED
    BY <1>4, <1>5, <2>1 DEF ReleaseHold
<1>6. ASSUME NEW p \in Handlers, NEW b \in Bookings, NEW rooms,
             InsertBooking(b, target[p], rooms)
      PROVE  \A g \in Holds :
               /\ BookingsOf(g)' \subseteq BookingsOf(g) \cup {b}
               /\ g # target[p] => BookingsOf(g)' \subseteq BookingsOf(g)
  BY <1>6, <1>a DEF InsertBooking, TypeOK
<1>7. ASSUME NEW p \in Handlers, NEW b \in Bookings,
             CreateBookingFromHold(p, b) \/ CreatePaymentIntent(p, b)
      PROVE  LeftAlone(h) \/ EndedByReader(h)
  <2> HIDE DEF BookingsOf, Readers, LeftAlone, EndedByReader
  <2>1. PICK rooms : InsertBooking(b, target[p], rooms)
    BY <1>7 DEF CreateBookingFromHold, CreatePaymentIntent
  <2>2. /\ EndHold(target[p], "completed") /\ Finish(p)
        /\ pc[p] \notin {"idle", "hold_checked"}
    BY <1>7 DEF CreateBookingFromHold, CreatePaymentIntent
  <2> QED
    BY <1>4, <1>6, <2>1, <2>2
<1>8. ASSUME NEW p \in Handlers, Abort(p) PROVE LeftAlone(h)
  BY <1>8, <1>b DEF Abort
<1>9. ASSUME NEW g \in Holds, ExpireHoldIfDue(g) PROVE LeftAlone(h)
  <2>1. reended'[h] = reended[h]
    BY <1>9, <1>a DEF ExpireHoldIfDue, EndHold, TypeOK
  <2> QED
    BY <1>9, <2>1 DEF ExpireHoldIfDue
<1>10. ASSUME NEW b \in Bookings, ExpireBookingIfDue(b) \/ SettleBooking(b) \/ RefundBooking(b)
       PROVE  LeftAlone(h)
  <2>1. /\ bookingStatus[b] # "none" /\ bookingHold' = bookingHold
        /\ \A a \in Bookings \ {b} : bookingStatus'[a] = bookingStatus[a]
        /\ UNCHANGED <<pc, target, reended>>
    BY <1>10, <1>a DEF ExpireBookingIfDue, ExpireBooking, SettleBooking, RefundBooking,
       WriteStatus, TypeOK
  <2> QED
    BY <2>1
<1>11. ASSUME \/ \E g \in Holds : HoldFallsDue(g)
              \/ \E b \in Bookings : BookingFallsDue(b)
              \/ UNCHANGED vars
       PROVE  LeftAlone(h)
  BY <1>11 DEF HoldFallsDue, BookingFallsDue, vars
<1>12. ASSUME NEW p \in Handlers, NEW g \in Holds,
              ReadHoldToRelease(p, g) \/ ReadHoldToBook(p, g) \/ FindHoldToPay(p, g)
       PROVE  LeftAlone(h)
  <2> HIDE DEF BookingsOf, Readers, LeftAlone
  <2> QED
    BY <1>3, <1>12 DEF ReadHoldToRelease, ReadHoldToBook, FindHoldToPay, IsLive, PC
<1>13. ASSUME NEW p \in Handlers, RereadHoldToBook(p) \/ RereadHoldToPay(p)
       PROVE  LeftAlone(h)
  <2> HIDE DEF BookingsOf, Readers, LeftAlone
  <2>1. target[p] \in Holds
    BY <1>13, <1>a DEF RereadHoldToBook, RereadHoldToPay, RefersToRows
  <2> QED
    BY <1>3, <1>13, <2>1 DEF RereadHoldToBook, RereadHoldToPay, PC
<1> HIDE DEF BookingsOf, Readers, LeftAlone, EndedByReader
<1> QED
  BY <1>1, <1>2, <1>5, <1>7, <1>8, <1>9, <1>10, <1>11, <1>12, <1>13 DEF Next

LEMMA StepReadersFit ==
  ASSUME WellFormed, HistoryStartsEmpty, ReadersFit, [Next]_vars,
         WellFormed', HistoryStartsEmpty'
  PROVE  ReadersFit'
<1> DEFINE Fit(h) ==
      /\ Cardinality(BookingsOf(h)) + Cardinality(Readers(h)) <= Cardinality(Handlers)
      /\ reended[h] + Cardinality(Readers(h)) <= Cardinality(Handlers)
<1>1. ASSUME NEW h \in Holds, holdStatus'[h] \in {"none", "active"} PROVE Fit(h)'
  <2>1. BookingsOf(h)' = {} /\ reended'[h] = 0
    BY <1>1 DEF WellFormed, BookedHoldIsClosed, HistoryStartsEmpty, BookingsOf
  <2>2. Readers(h)' \subseteq Handlers
    BY DEF Readers
  <2>3. /\ Cardinality(Readers(h)') <= Cardinality(Handlers)
        /\ Cardinality(Readers(h)') \in Nat /\ Cardinality(Handlers) \in Nat
    BY <2>2, HandlerAssumption, FS_Subset, FS_CardinalityType
  <2> QED
    BY <2>1, <2>3, FS_EmptySet
<1>2. ASSUME NEW h \in Holds, holdStatus'[h] \notin {"none", "active"} PROVE Fit(h)'
  <2>1. LeftAlone(h) \/ EndedByReader(h)
    BY <1>2, ClosedHoldStep
  <2>2. IsFiniteSet(Readers(h)) /\ IsFiniteSet(BookingsOf(h))
    BY HandlerAssumption, TableAssumption, FS_Subset DEF Readers, BookingsOf
  <2>3. reended[h] \in Nat /\ reended'[h] \in Nat /\ Cardinality(Handlers) \in Nat
    BY HandlerAssumption, FS_CardinalityType DEF WellFormed, TypeOK
  <2>4. Fit(h)
    BY DEF ReadersFit
  <2>5. \/ /\ Readers(h)' \subseteq Readers(h) /\ BookingsOf(h)' \subseteq BookingsOf(h)
           /\ reended'[h] = reended[h]
        \/ \E p \in Readers(h) : /\ Readers(h)' \subseteq Readers(h) \ {p}
                                 /\ \E b : BookingsOf(h)' \subseteq BookingsOf(h) \cup {b}
                                 /\ reended'[h] \in {reended[h], reended[h] + 1}
    BY <2>1 DEF LeftAlone, EndedByReader
  <2> DEFINE R == Readers(h)
             R2 == Readers(h)'
             B == BookingsOf(h)
             B2 == BookingsOf(h)'
             n == Cardinality(Handlers)
             k == reended[h]
             k2 == reended'[h]
  <2>6. Cardinality(B2) + Cardinality(R2) <= n /\ k2 + Cardinality(R2) <= n
    <3>1. /\ IsFiniteSet(R) /\ IsFiniteSet(B) /\ n \in Nat /\ k \in Nat /\ k2 \in Nat
          /\ Cardinality(B) + Cardinality(R) <= n /\ k + Cardinality(R) <= n
      BY <2>2, <2>3, <2>4
    <3>2. CASE R2 \subseteq R /\ B2 \subseteq B /\ k2 = k
      <4> HIDE DEF R, R2, B, B2, n, k, k2
      <4> QED
        BY <3>1, <3>2, SharesKept
    <3>3. ASSUME NEW p \in R, R2 \subseteq R \ {p}, NEW b, B2 \subseteq B \cup {b},
                 k2 \in {k, k + 1}
          PROVE  Cardinality(B2) + Cardinality(R2) <= n /\ k2 + Cardinality(R2) <= n
      <4> HIDE DEF R, R2, B, B2, n, k, k2
      <4> QED
        BY <3>1, <3>3, SharesSpent
    <3> QED
      BY <2>5, <3>2, <3>3
  <2> QED
    BY <2>6
<1> QED
  BY <1>1, <1>2 DEF ReadersFit

\* However many handlers, holds and bookings there are: a hold makes at most one
\* booking, and is ended at most once after its end, for each handler that can have
\* read it while it was active.
THEOREM Endings == Spec => []EndingsBounded
<1>1. Init => ReadersFit
  BY InitWellFormed, InitAccounts, OpenHoldFits DEF Accounts, ReadersFit, Init
<1>2. WellFormed /\ Accounts /\ WellFormed' /\ Accounts' /\ ReadersFit /\ [Next]_vars
        => ReadersFit'
  BY StepReadersFit DEF Accounts
<1>3. ReadersFit /\ WellFormed => EndingsBounded
  <2> SUFFICES ASSUME ReadersFit, WellFormed, NEW h \in Holds
               PROVE  /\ Cardinality(BookingsOf(h)) <= Cardinality(Handlers)
                      /\ reended[h] <= Cardinality(Handlers)
    BY DEF EndingsBounded
  <2>1. IsFiniteSet(Readers(h)) /\ IsFiniteSet(BookingsOf(h))
    BY HandlerAssumption, TableAssumption, FS_Subset DEF Readers, BookingsOf
  <2>2. /\ Cardinality(Readers(h)) \in Nat /\ Cardinality(BookingsOf(h)) \in Nat
        /\ Cardinality(Handlers) \in Nat /\ reended[h] \in Nat
    BY <2>1, HandlerAssumption, FS_CardinalityType DEF WellFormed, TypeOK
  <2> QED
    BY <2>2 DEF ReadersFit
<1> QED
  BY <1>1, <1>2, <1>3, SpecWellFormed, SpecAccounts, PTL DEF Spec

\* While the server works on one request at a time a hold makes one booking.
THEOREM SerialConversion ==
  ASSUME Cardinality(Handlers) = 1
  PROVE  Spec => [](\A h \in Holds : Cardinality(BookingsOf(h)) <= 1)
<1>1. EndingsBounded => \A h \in Holds : Cardinality(BookingsOf(h)) <= 1
  BY DEF EndingsBounded
<1> QED
  BY <1>1, Endings, PTL

-----------------------------------------------------------------------------
(* The bookings live as BookingPayment makes them live.                    *)

\* Every write of a booking's status is one of these.
Written(b, s) == bookingStatus' = [bookingStatus EXCEPT ![b] = s]

LEMMA StatusSteps ==
  ASSUME [Next]_vars
  PROVE  \/ UNCHANGED bookingStatus
         \/ \E b \in Bookings :
              \/ bookingStatus[b] = "none" /\ Written(b, "pending_payment")
              \/ bookingStatus[b] = "pending_payment" /\ Written(b, "expired")
              \/ bookingStatus[b] \in {"pending_payment", "settled"} /\ Written(b, "settled")
              \/ bookingStatus[b] \in {"expired", "overwritten"} /\ Written(b, "overwritten")
<1> USE DEF Written
<1>1. ASSUME NEW p \in Handlers, NEW b \in Bookings,
             CreateBookingFromHold(p, b) \/ CreatePaymentIntent(p, b)
      PROVE  bookingStatus[b] = "none" /\ Written(b, "pending_payment")
  BY <1>1 DEF CreateBookingFromHold, CreatePaymentIntent, InsertBooking
<1>2. ASSUME NEW b \in Bookings, ExpireBookingIfDue(b)
      PROVE  bookingStatus[b] = "pending_payment" /\ Written(b, "expired")
  BY <1>2 DEF ExpireBookingIfDue, ExpireBooking
<1>3. ASSUME NEW b \in Bookings, SettleBooking(b) \/ RefundBooking(b)
      PROVE  \/ bookingStatus[b] \in {"pending_payment", "settled"} /\ Written(b, "settled")
             \/ bookingStatus[b] \in {"expired", "overwritten"} /\ Written(b, "overwritten")
  BY <1>3 DEF SettleBooking, RefundBooking, WriteStatus
<1> QED
  BY <1>1, <1>2, <1>3
  DEF Next, CheckAvailability, CreateHold, ReadHoldToRelease, ReadHoldToBook, FindHoldToPay,
      GoOnWith, ReleaseHold, RereadHoldToBook, RereadHoldToPay, Abort, ExpireHoldIfDue,
      HoldFallsDue, BookingFallsDue, vars, bookingVars

\* What the requests, webhooks and workers do to a booking is a step of BookingLife:
\* expiry gives its rooms back once, and no write of a status opens it again.
THEOREM ImplementsLife == Spec => BookingsLive
<1>1. Init => Life!Init
  BY DEF Init, Life!Init, Stage, RoomsLeft
<1>2. WellFormed /\ [Next]_vars => [Life!Next]_<<Stage, RoomsLeft>>
  <2> SUFFICES ASSUME WellFormed, [Next]_vars PROVE [Life!Next]_<<Stage, RoomsLeft>>
    OBVIOUS
  <2>0. bookingStatus \in [Bookings -> BookingStatus]
    BY DEF WellFormed, TypeOK
  <2>1. CASE UNCHANGED bookingStatus
    BY <2>1 DEF Stage, RoomsLeft
  <2>2. ASSUME NEW b \in Bookings, bookingStatus[b] = "none", Written(b, "pending_payment")
        PROVE  UNCHANGED <<Stage, RoomsLeft>>
    BY <2>0, <2>2 DEF Written, Stage, RoomsLeft
  <2>3. ASSUME NEW b \in Bookings, bookingStatus[b] = "pending_payment", Written(b, "expired")
        PROVE  Life!Expire(b)
    <3>1. Stage' = [Stage EXCEPT ![b] = "expired"] /\ Stage[b] = "pending_payment"
      BY <2>0, <2>3 DEF Written, Stage
    <3>2. RoomsLeft' = [RoomsLeft EXCEPT ![b] = 0] /\ RoomsLeft[b] = 1
      BY <2>0, <2>3 DEF Written, RoomsLeft
    <3> QED
      BY <3>1, <3>2 DEF Life!Expire
  <2>4. ASSUME NEW b \in Bookings, bookingStatus[b] \in {"pending_payment", "expired"},
               Written(b, IF bookingStatus[b] = "expired" THEN "overwritten" ELSE "settled")
        PROVE  Life!Settle(b)
    <3>1. /\ Stage' = [Stage EXCEPT ![b] =
                          IF bookingStatus[b] = "expired" THEN "overwritten" ELSE "settled"]
          /\ Stage[b] = bookingStatus[b]
      BY <2>0, <2>4 DEF Written, Stage
    <3>2. RoomsLeft' = RoomsLeft
      BY <2>0, <2>4 DEF Written, RoomsLeft
    <3> QED
      BY <2>4, <3>1, <3>2 DEF Life!Settle
  <2>5. ASSUME NEW b \in Bookings, bookingStatus[b] \in {"settled", "overwritten"},
               Written(b, bookingStatus[b])
        PROVE  UNCHANGED <<Stage, RoomsLeft>>
    BY <2>0, <2>5 DEF Written, Stage, RoomsLeft
  <2> QED
    BY <2>0, <2>1, <2>2, <2>3, <2>4, <2>5, StatusSteps DEF Life!Next
<1> QED
  BY <1>1, <1>2, SpecWellFormed, PTL DEF Spec, BookingsLive, Life!Spec

-----------------------------------------------------------------------------
(* The lines of a request: what its readers make of them.                  *)

\* A finite set of integers that is not empty has a greatest member.
LEMMA GreatestMember ==
  ASSUME NEW S, IsFiniteSet(S)
  PROVE  S \subseteq Int /\ S # {} => Max(S) \in S /\ \A y \in S : Max(S) >= y
<1> DEFINE Has(T) == \E x \in T : \A y \in T : x >= y
           F == {T \in SUBSET S : T \subseteq Int /\ T # {} /\ ~Has(T)}
<1>1. F = {}
  <2>1. SUFFICES ASSUME F # {} PROVE FALSE
    OBVIOUS
  <2>2. PICK T \in F : \A U \in F : U \subseteq T => U = T
    <3>1. F \subseteq SUBSET S
      OBVIOUS
    <3> HIDE DEF F
    <3> QED
      BY <2>1, <3>1, SmallestSubset
  <2>3. PICK z \in T : TRUE
    BY <2>2
  <2>4. T \ {z} # {}
    BY <2>2, <2>3
  <2>5. Has(T \ {z})
    <3>1. T \ {z} \notin F
      BY <2>2, <2>3
    <3>2. T \ {z} \in SUBSET S /\ T \ {z} \subseteq Int
      BY <2>2
    <3> HIDE DEF Has
    <3> QED
      BY <2>4, <3>1, <3>2
  <2>6. PICK x \in T \ {z} : \A y \in T \ {z} : x >= y
    BY <2>5
  <2>7. x \in Int /\ z \in Int /\ T \subseteq Int
    BY <2>2, <2>3, <2>6
  <2>8. CASE x >= z
    BY <2>2, <2>6, <2>8
  <2>9. CASE z >= x
    <3>1. \A y \in T : z >= y
      BY <2>3, <2>6, <2>7, <2>9
    <3> QED
      BY <2>2, <2>3, <3>1
  <2> QED
    BY <2>7, <2>8, <2>9
<1>2. S \subseteq Int /\ S # {} => Has(S)
  BY <1>1
<1> QED
  BY <1>2 DEF Max

\* Naturals add up to a natural, which is no less than any of them.
LEMMA SumOfNaturals ==
  ASSUME NEW f, NEW S, IsFiniteSet(S), \A x \in S : f[x] \in Nat
  PROVE  /\ SumFunctionOnSet(f, S) \in Nat
         /\ \A x \in S : f[x] <= SumFunctionOnSet(f, S)
<1> DEFINE F == {T \in SUBSET S : SumFunctionOnSet(f, T) \notin Nat}
<1>1. F = {}
  <2>1. SUFFICES ASSUME F # {} PROVE FALSE
    OBVIOUS
  <2>2. PICK T \in F : \A U \in F : U \subseteq T => U = T
    <3>1. F \subseteq SUBSET S
      OBVIOUS
    <3> HIDE DEF F
    <3> QED
      BY <2>1, <3>1, SmallestSubset
  <2>3. T # {}
    <3>1. SumFunctionOnSet(f, {}) \in Nat
      BY SumEmpty
    <3> QED
      BY <3>1
  <2>4. Pick(T) \in T
    BY <2>3, PickIn
  <2>5. IsFiniteSet(T) /\ T \ {Pick(T)} \notin F
    BY <2>2, <2>4, FS_Subset
  <2> QED
    BY <2>2, <2>3, <2>4, <2>5, SumStep
<1>2. ASSUME NEW x \in S PROVE f[x] <= SumFunctionOnSet(f, S)
  <2>1. SumFunctionOnSet(f, S) = f[x] + SumFunctionOnSet(f, S \ {x})
    BY SumWithout
  <2>2. SumFunctionOnSet(f, S \ {x}) \in Nat
    BY <1>1
  <2> QED
    BY <2>1, <2>2
<1> QED
  BY <1>1, <1>2

LEMMA SumOfOne ==
  ASSUME NEW f, NEW x, f[x] \in Int
  PROVE  SumFunctionOnSet(f, {x}) = f[x]
<1>1. IsFiniteSet({x}) /\ {x} \ {x} = {}
  BY FS_Singleton
<1>2. SumFunctionOnSet(f, {x}) = f[x] + SumFunctionOnSet(f, {})
  BY <1>1, SumWithout
<1> QED
  BY <1>2, SumEmpty

\* The lines of a room are finitely many, each with its quantity.
LEMMA LinesOfRoom ==
  ASSUME NEW lines \in LinesType, NEW r
  PROVE  /\ LinesOf(lines, r) \in SUBSET (DOMAIN lines)
         /\ LinesOf(lines, r) \in SUBSET Int
         /\ IsFiniteSet(LinesOf(lines, r))
         /\ \A i \in DOMAIN lines : lines[i].quantity \in Nat
<1>1. DOMAIN lines = 1..Len(lines) /\ Len(lines) \in Nat
  BY DEF LinesType
<1>2. IsFiniteSet(1..Len(lines))
  BY <1>1, FS_Interval
<1>3. LinesOf(lines, r) \in SUBSET (1..Len(lines))
  BY <1>1 DEF LinesOf
<1>4. \A i \in DOMAIN lines : lines[i] \in [room : Rooms, quantity : Nat \ {0}]
  <2> DEFINE Line == [room : Rooms, quantity : Nat \ {0}]
  <2>1. lines \in Seq(Line)
    BY DEF LinesType
  <2> HIDE DEF Line
  <2>2. \A i \in DOMAIN lines : lines[i] \in Line
    BY <2>1
  <2> QED
    BY <2>2 DEF Line
<1> QED
  BY <1>1, <1>2, <1>3, <1>4, FS_Subset

\* Whatever the lines are, the check never asks for more of a room than the
\* request holds: what it overlooks is what the other lines of the room add.
THEOREM CheckedIsWanted ==
  ASSUME NEW lines \in LinesType, NEW r \in Rooms
  PROVE  /\ Wanted(lines)[r] \in Nat /\ LastLine(lines)[r] \in Nat
         /\ LastLine(lines)[r] <= Wanted(lines)[r]
<1> DEFINE f == [i \in DOMAIN lines |-> lines[i].quantity]
           S == LinesOf(lines, r)
<1>1. /\ S \in SUBSET (DOMAIN lines) /\ S \in SUBSET Int /\ IsFiniteSet(S)
      /\ \A i \in S : f[i] = lines[i].quantity /\ f[i] \in Nat
  BY LinesOfRoom
<1>2. Wanted(lines)[r] = SumFunctionOnSet(f, S)
  BY DEF Wanted
<1>3. LastLine(lines)[r] = IF S = {} THEN 0 ELSE lines[Max(S)].quantity
  BY DEF LastLine
<1> HIDE DEF f, S
<1>4. /\ SumFunctionOnSet(f, S) \in Nat
      /\ \A x \in S : f[x] <= SumFunctionOnSet(f, S)
  BY <1>1, SumOfNaturals
<1>5. S # {} => Max(S) \in S
  BY <1>1, GreatestMember
<1> QED
  BY <1>1, <1>2, <1>3, <1>4, <1>5

\* One line of a room, or none: the total and the last line are its quantity.
LEMMA LineOfRoom ==
  ASSUME NEW lines \in LinesType, OneLineEach(lines), NEW r \in Rooms
  PROVE  \/ LinesOf(lines, r) = {} /\ Wanted(lines)[r] = 0 /\ LastLine(lines)[r] = 0
         \/ \E i \in DOMAIN lines : /\ LinesOf(lines, r) = {i}
                                    /\ Wanted(lines)[r] = lines[i].quantity
                                    /\ LastLine(lines)[r] = lines[i].quantity
<1> DEFINE f == [i \in DOMAIN lines |-> lines[i].quantity]
<1>1. Wanted(lines)[r] = SumFunctionOnSet(f, LinesOf(lines, r))
  BY DEF Wanted
<1>2. CASE LinesOf(lines, r) = {}
  BY <1>1, <1>2, SumEmpty DEF LastLine
<1>3. ASSUME NEW i \in LinesOf(lines, r)
      PROVE  /\ i \in DOMAIN lines /\ LinesOf(lines, r) = {i}
             /\ Wanted(lines)[r] = lines[i].quantity
             /\ LastLine(lines)[r] = lines[i].quantity
  <2>1. i \in DOMAIN lines /\ LinesOf(lines, r) = {i}
    BY <1>3 DEF LinesOf, OneLineEach
  <2>2. f[i] = lines[i].quantity /\ f[i] \in Int
    BY <2>1, LinesOfRoom
  <2>3. SumFunctionOnSet(f, {i}) = f[i]
    <3> HIDE DEF f
    <3> QED
      BY <2>2, SumOfOne
  <2>4. Max({i}) = i
    <3>1. i \in Int
      BY <2>1, LinesOfRoom
    <3> QED
      BY <3>1 DEF Max
  <2> QED
    BY <1>1, <2>1, <2>2, <2>3, <2>4 DEF LastLine
<1> QED
  BY <1>2, <1>3

\* In whatever order hold_rooms returns them, the lines of a room are as many, and
\* the only line of a room is its last.
LEMMA LineInOrder ==
  ASSUME NEW lines \in LinesType, OneLineEach(lines), NEW r \in Rooms,
         NEW order \in Orders(lines)
  PROVE  LastLine(order)[r] * Cardinality(LinesOf(lines, r)) = Wanted(lines)[r]
<1> DEFINE D == DOMAIN lines
<1>1. PICK p \in [D -> D] : /\ \A i, j \in D : i # j => p[i] # p[j]
                           /\ order = [i \in D |-> lines[p[i]]]
  BY DEF Orders
<1>2. IsFiniteSet(D)
  BY FS_Interval DEF LinesType
<1>3. \A k \in D : \E i \in D : p[i] = k
  <2>1. p \in Injection(D, D)
    BY <1>1 DEF Injection, IsInjective
  <2>2. p \in Surjection(D, D)
    <3> HIDE DEF D
    <3> QED
      BY <1>2, <2>1, FS_Injection
  <2> QED
    BY <2>2 DEF Surjection
<1>4. CASE LinesOf(lines, r) = {}
  <2>1. LinesOf(order, r) = {}
    BY <1>1, <1>4 DEF LinesOf
  <2>2. LastLine(order)[r] = 0 /\ Wanted(lines)[r] = 0
    BY <1>4, <2>1, LineOfRoom DEF LastLine
  <2> QED
    BY <1>4, <2>2, FS_EmptySet
<1>5. CASE LinesOf(lines, r) # {}
  <2>1. PICK k \in D : LinesOf(lines, r) = {k} /\ Wanted(lines)[r] = lines[k].quantity
    BY <1>5, LineOfRoom
  <2>2. PICK i \in D : p[i] = k
    BY <1>3
  <2>3. LinesOf(order, r) = {i}
    BY <1>1, <2>1, <2>2 DEF LinesOf
  <2>4. Max({i}) = i
    <3>1. i \in Int
      BY <1>2 DEF LinesType
    <3> QED
      BY <3>1 DEF Max
  <2>5. LastLine(order)[r] = lines[k].quantity
    BY <1>1, <2>2, <2>3, <2>4 DEF LastLine
  <2>6. Cardinality({k}) = 1 /\ lines[k].quantity \in Nat
    BY <2>1, FS_Singleton, LinesOfRoom
  <2> QED
    BY <2>1, <2>5, <2>6
<1> QED
  BY <1>4, <1>5

\* The lines come back from hold_rooms as lines.
LEMMA OrdersAreLines ==
  ASSUME NEW lines \in LinesType, NEW order \in Orders(lines)
  PROVE  order \in LinesType
<1> DEFINE Line == [room : Rooms, quantity : Nat \ {0}]
<1>1. lines \in Seq(Line) /\ DOMAIN lines = 1..Len(lines) /\ Len(lines) \in Nat
  BY DEF LinesType
<1>2. PICK p \in [DOMAIN lines -> DOMAIN lines] : order = [i \in DOMAIN lines |-> lines[p[i]]]
  BY DEF Orders
<1> HIDE DEF Line
<1>3. order \in [1..Len(lines) -> Line]
  BY <1>1, <1>2
<1>4. order \in Seq(Line)
  BY <1>1, <1>3
<1> QED
  BY <1>4 DEF LinesType, Line

\* Every list of lines makes a request of the kind the rest is proved for, as long as
\* it asks for no more than MaxQuantity of a room.
THEOREM LinesMakeRequests ==
  ASSUME NEW lines \in LinesType, NEW nights \in SUBSET Nights,
         \A r \in Rooms : Wanted(lines)[r] <= MaxQuantity
  PROVE  Request(nights, lines) \in RequestType
<1>1. ASSUME NEW r \in Rooms
      PROVE  Wanted(lines)[r] \in 0..MaxQuantity /\ LastLine(lines)[r] \in 0..MaxQuantity
  BY CheckedIsWanted, RequestAssumption
<1>2. Wanted(lines) \in [Rooms -> 0..MaxQuantity] /\ LastLine(lines) \in [Rooms -> 0..MaxQuantity]
  BY <1>1 DEF Wanted, LastLine
<1>3. ASSUME NEW order \in Orders(lines)
      PROVE  [r \in Rooms |-> LastLine(order)[r] * Cardinality(LinesOf(lines, r))]
               \in [Rooms -> Nat]
  <2>1. \A r \in Rooms : LastLine(order)[r] \in Nat /\ Cardinality(LinesOf(lines, r)) \in Nat
    BY OrdersAreLines, CheckedIsWanted, LinesOfRoom, FS_CardinalityType
  <2>2. \A m, n \in Nat : m * n \in Nat
    OBVIOUS
  <2> QED
    BY <2>1, <2>2
<1> QED
  BY <1>2, <1>3 DEF Request, RequestType, Quoted

\* With one line for each room the check sees all that is held, and every booking
\* records all that it reserves: the three readers of the lines agree.
THEOREM OneLineAgrees ==
  ASSUME NEW lines \in LinesType, OneLineEach(lines)
  PROVE  LastLine(lines) = Wanted(lines) /\ Quoted(lines) = {Wanted(lines)}
<1>1. LastLine(lines) = Wanted(lines)
  <2>1. \A r \in Rooms : LastLine(lines)[r] = Wanted(lines)[r]
    BY LineOfRoom
  <2> QED
    BY <2>1 DEF LastLine, Wanted
<1>2. \A order \in Orders(lines) :
        [r \in Rooms |-> LastLine(order)[r] * Cardinality(LinesOf(lines, r))] = Wanted(lines)
  <2>1. TAKE order \in Orders(lines)
  <2>2. \A r \in Rooms :
          LastLine(order)[r] * Cardinality(LinesOf(lines, r)) = Wanted(lines)[r]
    BY LineInOrder
  <2> QED
    BY <2>2 DEF Wanted
<1>3. Orders(lines) # {}
  <2> DEFINE id == [i \in DOMAIN lines |-> i]
  <2>1. id \in {f \in [DOMAIN lines -> DOMAIN lines] :
                 \A i, j \in DOMAIN lines : i # j => f[i] # f[j]}
    OBVIOUS
  <2>2. [i \in DOMAIN lines |-> lines[id[i]]] \in Orders(lines)
    <3> HIDE DEF id
    <3> QED
      BY <2>1 DEF Orders
  <2> QED
    BY <2>2
<1> QED
  BY <1>1, <1>2, <1>3 DEF Quoted

=============================================================================
