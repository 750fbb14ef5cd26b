---------------------------- MODULE RoomCheckout ----------------------------
(***************************************************************************)
(* The checkout core of TravelNest: room inventory rows, temporary holds   *)
(* and the bookings made from them (services/hold.service.js,              *)
(* services/booking.service.js, services/payment.service.js and the        *)
(* repositories they call).                                                *)
(*                                                                         *)
(* Every HTTP request in progress is a handler.  A handler is not atomic:  *)
(* it reads with an autocommit SELECT that takes no lock, awaits, and then *)
(* writes in one MySQL transaction.  The writes of a transaction are       *)
(* relative (held_rooms = held_rooms + q) or keyed on the id alone, so a   *)
(* whole transaction is one step taken at its commit; every read before it *)
(* is a step of its own.  The expiry workers lock the row they read        *)
(* (SELECT ... FOR UPDATE) until they commit, so each is a single step.    *)
(*                                                                         *)
(* Calls that are refused change no state and are not steps: a request for *)
(* somebody else's hold, an unknown id, a body the validators reject.      *)
(***************************************************************************)
EXTENDS RequestLines, FiniteSets

CONSTANTS
  Nights,       \* calendar dates
  Rows,         \* the (room, night) pairs that have a room_inventory row
  OpenRows,     \* the rows whose status is 'open'
  TotalRooms,   \* total_rooms of each row
  Requests,     \* the hold requests users make, see RequestType
  MaxQuantity,  \* the most rooms of one type a single request adds up to
  MaxHidden,    \* the most of those its availability check overlooks
  Holds,        \* ids of hold rows
  Bookings,     \* ids of booking rows
  Handlers,     \* HTTP requests the server works on at the same time
  MaxRefunds,   \* bound: charge.refunded events for one booking
  NoRequest,    \* null
  NoHold        \* null

(***************************************************************************)
(* A request asks for one stay: a set of nights and some lines { roomId,   *)
(* quantity }.  What the code derives from the lines, room by room, is     *)
(*   wanted   the total over the lines: holdRooms and reserveRooms loop    *)
(*            over them all,                                               *)
(*   checked  the quantity checkAvailabilityForHold compares: the last     *)
(*            line of a room wins, quantityByRoom is a Map,                *)
(*   quoted   what booking_rooms can come to record: one entry per line,   *)
(*            each with the quantity of the line that came last from the   *)
(*            unordered hold_rooms.                                        *)
(* With one line for each room the three agree.  Request of RequestLines   *)
(* derives them from a list of lines.                                      *)
(***************************************************************************)
RequestType ==
  [nights  : SUBSET Nights,
   wanted  : [Rooms -> 0..MaxQuantity],
   checked : [Rooms -> 0..MaxQuantity],
   quoted  : SUBSET [Rooms -> Nat]]

ASSUME InventoryAssumption ==
  /\ Rows \subseteq Rooms \X Nights
  /\ OpenRows \subseteq Rows
  /\ TotalRooms \in [Rows -> Nat]

ASSUME RequestAssumption ==
  /\ MaxQuantity \in Nat /\ MaxHidden \in Nat
  /\ Requests \subseteq RequestType
  /\ \A q \in Requests : \A r \in Rooms : q.wanted[r] - q.checked[r] <= MaxHidden

ASSUME HandlerAssumption == IsFiniteSet(Handlers) /\ Handlers # {}

\* Ids are UUIDs, of which there are finitely many.
ASSUME TableAssumption == IsFiniteSet(Holds) /\ IsFiniteSet(Bookings)

ASSUME RefundAssumption == MaxRefunds \in Nat

ASSUME NullAssumption == NoRequest \notin Requests /\ NoHold \notin Holds

VARIABLES
  held,            \* room_inventory.held_rooms of each row
  booked,          \* room_inventory.booked_rooms of each row
  holdStatus,      \* holds.status, "none" while the row does not exist
  holdRequest,     \* the stay and the hold_rooms of each hold
  holdDue,         \* holds whose expires_at has passed
  bookingStatus,   \* bookings.status, see BookingStatus
  bookingHold,     \* bookings.hold_id
  bookingRooms,    \* the quantities recorded with the booking
  bookingDue,      \* bookings whose expires_at has passed
  fromIntent,      \* bookings whose payment intent carries booked_rooms
  refunds,         \* charge.refunded events handled for each booking
  pc,              \* where each handler is between two awaits
  asked,           \* the request a createHold handler works on
  target,          \* the hold any other handler works on
  reended          \* history: how often a hold ended that had ended before

holdVars == <<holdStatus, holdRequest, holdDue>>
bookingVars == <<bookingStatus, bookingHold, bookingRooms, bookingDue,
                 fromIntent, refunds>>
handlerVars == <<pc, asked, target>>
vars == <<held, booked, holdVars, bookingVars, handlerVars, reended>>

HoldStatus == {"none", "active", "released", "expired", "completed"}

(***************************************************************************)
(* The statuses of a booking this module tells apart: "settled" is any of  *)
(* confirmed, payment_failed, cancelled, checked_in and completed, and     *)
(* "overwritten" any of them written over 'expired'.                       *)
(***************************************************************************)
BookingStatus == {"none", "pending_payment", "expired", "settled", "overwritten"}

PC == {"idle", "hold_checked", "release_read",
       "book_read", "book_reread", "pay_found", "pay_reread"}

NoRooms == [r \in Rooms |-> 0]

TypeOK ==
  /\ held \in [Rows -> Int]
  /\ booked \in [Rows -> Int]
  /\ holdStatus \in [Holds -> HoldStatus]
  /\ holdRequest \in [Holds -> Requests \cup {NoRequest}]
  /\ holdDue \subseteq Holds
  /\ bookingStatus \in [Bookings -> BookingStatus]
  /\ bookingHold \in [Bookings -> Holds \cup {NoHold}]
  /\ bookingRooms \in [Bookings -> [Rooms -> Nat]]
  /\ bookingDue \subseteq Bookings
  /\ fromIntent \subseteq Bookings
  /\ refunds \in [Bookings -> 0..MaxRefunds]
  /\ pc \in [Handlers -> PC]
  /\ asked \in [Handlers -> Requests \cup {NoRequest}]
  /\ target \in [Handlers -> Holds \cup {NoHold}]
  /\ reended \in [Holds -> Nat]

-----------------------------------------------------------------------------
(* Inventory arithmetic: room_inventory.repository.js and                  *)
(* inventory.service.js.                                                   *)

\* What `quantities` of each room on each of `nights` come to, row by row.
\* A pair without a row is not in it: the UPDATE matches nothing.
RoomNights(quantities, nights) ==
  [c \in Rows |-> IF c[2] \in nights THEN quantities[c[1]] ELSE 0]

Demand(q) == RoomNights(q.wanted, q.nights)

Increased(counter, amount) == [c \in Rows |-> counter[c] + amount[c]]
Decreased(counter, amount) == [c \in Rows |-> counter[c] - amount[c]]

Occupancy(c) == held[c] + booked[c]

\* Mutant: held_rooms left out of what is available.
IsAvailableIgnoringHeld(q) ==
  \A c \in Rows :
    (c[2] \in q.nights /\ q.wanted[c[1]] > 0) =>
      TotalRooms[c] - booked[c] >= q.checked[c[1]]

\* checkAvailabilityForHold.  Every row found must be open and have room for
\* the quantity checked; every night must be found for some room.
IsAvailable(q) ==
  /\ \A c \in Rows :
       (c[2] \in q.nights /\ q.wanted[c[1]] > 0) =>
         /\ TotalRooms[c] - booked[c] - held[c] >= q.checked[c[1]]
         /\ c \in OpenRows
  /\ \A n \in q.nights : \E r \in Rooms : q.wanted[r] > 0 /\ <<r, n>> \in Rows

\* createPaymentIntent makes one booking per line, all with the same
\* booking_code: the unique index lets a hold with one line through.
OneLine(q) ==
  \E r \in Rooms :
    /\ q.wanted[r] > 0 /\ q.wanted[r] = q.checked[r]
    /\ \A s \in Rooms \ {r} : q.wanted[s] = 0

-----------------------------------------------------------------------------
Init ==
  /\ held = [c \in Rows |-> 0]
  /\ booked = [c \in Rows |-> 0]
  /\ holdStatus = [h \in Holds |-> "none"]
  /\ holdRequest = [h \in Holds |-> NoRequest]
  /\ holdDue = {}
  /\ bookingStatus = [b \in Bookings |-> "none"]
  /\ bookingHold = [b \in Bookings |-> NoHold]
  /\ bookingRooms = [b \in Bookings |-> NoRooms]
  /\ bookingDue = {}
  /\ fromIntent = {}
  /\ refunds = [b \in Bookings |-> 0]
  /\ pc = [p \in Handlers |-> "idle"]
  /\ asked = [p \in Handlers |-> NoRequest]
  /\ target = [p \in Handlers |-> NoHold]
  /\ reended = [h \in Holds |-> 0]

\* The handler answers its client, or fails: either way it is done.
Finish(p) ==
  /\ pc' = [pc EXCEPT ![p] = "idle"]
  /\ asked' = [asked EXCEPT ![p] = NoRequest]
  /\ target' = [target EXCEPT ![p] = NoHold]

\* A handler goes on to `next` with hold h, after reading it as `status ok`.
GoOnWith(p, h, next) ==
  /\ pc' = [pc EXCEPT ![p] = next]
  /\ target' = [target EXCEPT ![p] = h]
  /\ UNCHANGED <<held, booked, holdVars, bookingVars, asked, reended>>

-----------------------------------------------------------------------------
(* createHold: check, then insert and increment.                           *)

\* checkAvailabilityForHold and the quote: reads, no transaction yet.
CheckAvailability(p, q) ==
  /\ pc[p] = "idle"
  /\ IsAvailable(q)
  /\ pc' = [pc EXCEPT ![p] = "hold_checked"]
  /\ asked' = [asked EXCEPT ![p] = q]
  /\ UNCHANGED <<held, booked, holdVars, bookingVars, target, reended>>

\* The transaction: insert the hold and its rooms, increment held_rooms.
CreateHold(p, h) ==
  /\ pc[p] = "hold_checked"
  /\ holdStatus[h] = "none"
  /\ held' = Increased(held, Demand(asked[p]))
  /\ holdStatus' = [holdStatus EXCEPT ![h] = "active"]
  /\ holdRequest' = [holdRequest EXCEPT ![h] = asked[p]]
  /\ Finish(p)
  /\ UNCHANGED <<booked, holdDue, bookingVars, reended>>

-----------------------------------------------------------------------------
(* releaseHold, called by the user or inside a booking transaction.        *)

\* Mutant: the status is written, held_rooms is not given back.
EndHoldKeepsHeld(h, newStatus) ==
  /\ holdStatus' = [holdStatus EXCEPT ![h] = newStatus]
  /\ UNCHANGED <<held, holdRequest, holdDue, reended>>

\* Mutant: held_rooms is given back, the status is not written.
EndHoldKeepsStatus(h, newStatus) ==
  /\ held' = Decreased(held, Demand(holdRequest[h]))
  /\ UNCHANGED <<holdStatus, holdRequest, holdDue, reended>>

\* Mutant: a status written that holds.status does not have.
EndHoldUnknownStatus(h, newStatus) ==
  /\ held' = Decreased(held, Demand(holdRequest[h]))
  /\ holdStatus' = [holdStatus EXCEPT ![h] = "cancelled"]
  /\ UNCHANGED <<holdRequest, holdDue, reended>>

\* The writes of releaseHold: give the rooms back, set the status by id.
EndHold(h, newStatus) ==
  /\ held' = Decreased(held, Demand(holdRequest[h]))
  /\ holdStatus' = [holdStatus EXCEPT ![h] = newStatus]
  /\ reended' = [reended EXCEPT ![h] =
                   IF holdStatus[h] = "active" THEN @ ELSE @ + 1]
  /\ UNCHANGED <<holdRequest, holdDue>>

\* Mutant: any hold that exists is read to be released.
ReadAnyHoldToRelease(p, h) ==
  /\ pc[p] = "idle"
  /\ holdStatus[h] # "none"
  /\ GoOnWith(p, h, "release_read")

\* DELETE /api/hold/:holdId reads the hold before its transaction starts.
ReadHoldToRelease(p, h) ==
  /\ pc[p] = "idle"
  /\ holdStatus[h] = "active"
  /\ GoOnWith(p, h, "release_read")

ReleaseHold(p) ==
  /\ pc[p] = "release_read"
  /\ EndHold(target[p], "released")
  /\ Finish(p)
  /\ UNCHANGED <<booked, bookingVars>>

-----------------------------------------------------------------------------
(* From a hold to a booking.  createBookingFromHold and createPaymentIntent *)
(* find the hold active and not expired; then releaseHold reads it again,  *)
(* on another connection, and checks its status only; the transaction ends *)
(* the hold, reserves its rooms and inserts the booking.                   *)

IsLive(h) == holdStatus[h] = "active" /\ h \notin holdDue

\* Insert booking b for hold h, recording `rooms`.
InsertBooking(b, h, rooms) ==
  /\ bookingStatus[b] = "none"
  /\ booked' = Increased(booked, Demand(holdRequest[h]))
  /\ bookingStatus' = [bookingStatus EXCEPT ![b] = "pending_payment"]
  /\ bookingHold' = [bookingHold EXCEPT ![b] = h]
  /\ bookingRooms' = [bookingRooms EXCEPT ![b] = rooms]
  /\ UNCHANGED <<bookingDue, refunds>>

\* POST /api/bookings: findByIdWithRooms inside the transaction, not locking.
ReadHoldToBook(p, h) ==
  /\ pc[p] = "idle"
  /\ IsLive(h)
  /\ GoOnWith(p, h, "book_read")

RereadHoldToBook(p) ==
  /\ pc[p] = "book_read"
  /\ holdStatus[target[p]] = "active"
  /\ GoOnWith(p, target[p], "book_reread")

CreateBookingFromHold(p, b) ==
  /\ pc[p] = "book_reread"
  /\ EndHold(target[p], "completed")
  /\ \E rooms \in holdRequest[target[p]].quoted : InsertBooking(b, target[p], rooms)
  /\ UNCHANGED fromIntent
  /\ Finish(p)

\* POST /api/payments: findActiveByUserId, before the transaction.
FindHoldToPay(p, h) ==
  /\ pc[p] = "idle"
  /\ IsLive(h)
  /\ GoOnWith(p, h, "pay_found")

RereadHoldToPay(p) ==
  /\ pc[p] = "pay_found"
  /\ holdStatus[target[p]] = "active"
  /\ GoOnWith(p, target[p], "pay_reread")

CreatePaymentIntent(p, b) ==
  /\ pc[p] = "pay_reread"
  /\ OneLine(holdRequest[target[p]])
  /\ EndHold(target[p], "completed")
  /\ InsertBooking(b, target[p], holdRequest[target[p]].wanted)
  /\ fromIntent' = fromIntent \cup {b}
  /\ Finish(p)

\* A check that fails, an error, a deadlock victim, a server that stops: the
\* transaction rolls back and nothing the handler did is left.
Abort(p) ==
  /\ pc[p] # "idle"
  /\ Finish(p)
  /\ UNCHANGED <<held, booked, holdVars, bookingVars, reended>>

-----------------------------------------------------------------------------
(* The expiry workers and the clock.                                       *)

\* expireHoldIfDue, from SELECT ... FOR UPDATE to COMMIT.
ExpireHoldIfDue(h) ==
  /\ holdStatus[h] = "active"
  /\ h \in holdDue
  /\ EndHold(h, "expired")
  /\ UNCHANGED <<booked, bookingVars, handlerVars>>

\* releaseRooms, for the rooms recorded with booking b.
GiveBack(b) ==
  booked' = Decreased(booked,
              RoomNights(bookingRooms[b], holdRequest[bookingHold[b]].nights))

ExpireBooking(b) ==
  /\ GiveBack(b)
  /\ bookingStatus' = [bookingStatus EXCEPT ![b] = "expired"]
  /\ UNCHANGED <<held, holdVars, bookingHold, bookingRooms, bookingDue,
                 fromIntent, refunds, handlerVars, reended>>

\* Mutants: the status is not looked at; it is compared with one no booking has.
ExpireBookingAgain(b) == b \in bookingDue /\ ExpireBooking(b)
ExpireBookingNever(b) == bookingStatus[b] = "pending" /\ ExpireBooking(b)

\* expireBookingIfDue, from SELECT ... FOR UPDATE to COMMIT.
ExpireBookingIfDue(b) ==
  /\ bookingStatus[b] = "pending_payment"
  /\ b \in bookingDue
  /\ ExpireBooking(b)

\* cancelBooking and the payment webhooks write a status by id or by
\* booking_code.  They leave the inventory alone, and cancelBooking and
\* handlePaymentFailed do not look whether the booking expired meanwhile.
WriteStatus(b) ==
  bookingStatus' = [bookingStatus EXCEPT ![b] =
                     IF @ \in {"expired", "overwritten"}
                     THEN "overwritten" ELSE "settled"]

SettleBooking(b) ==
  /\ bookingStatus[b] \in {"pending_payment", "expired"}
  /\ WriteStatus(b)
  /\ UNCHANGED <<held, booked, holdVars, bookingHold, bookingRooms, bookingDue,
                 fromIntent, refunds, handlerVars, reended>>

\* handleRefundSucceeded, for a charge whose metadata lists the rooms: the
\* rooms go back with every refund of the charge, partial or not, whatever
\* the status.  A charge that is paid has made the booking leave
\* pending_payment, or was paid after it expired.
RefundBooking(b) ==
  /\ b \in fromIntent
  /\ bookingStatus[b] \in {"settled", "expired", "overwritten"}
  /\ refunds[b] < MaxRefunds
  /\ GiveBack(b)
  /\ WriteStatus(b)
  /\ refunds' = [refunds EXCEPT ![b] = @ + 1]
  /\ UNCHANGED <<held, holdVars, bookingHold, bookingRooms, bookingDue,
                 fromIntent, handlerVars, reended>>

\* Fifteen minutes pass.  What is no longer open does not look at the clock.
HoldFallsDue(h) ==
  /\ holdStatus[h] = "active" /\ h \notin holdDue
  /\ holdDue' = holdDue \cup {h}
  /\ UNCHANGED <<held, booked, holdStatus, holdRequest, bookingVars,
                 handlerVars, reended>>

BookingFallsDue(b) ==
  /\ bookingStatus[b] = "pending_payment" /\ b \notin bookingDue
  /\ bookingDue' = bookingDue \cup {b}
  /\ UNCHANGED <<held, booked, holdVars, bookingStatus, bookingHold,
                 bookingRooms, fromIntent, refunds, handlerVars, reended>>

-----------------------------------------------------------------------------
Next ==
  \/ \E p \in Handlers :
       \/ \E q \in Requests : CheckAvailability(p, q)
       \/ \E h \in Holds :
            \/ CreateHold(p, h)
            \/ ReadHoldToRelease(p, h)
            \/ ReadHoldToBook(p, h)
            \/ FindHoldToPay(p, h)
       \/ ReleaseHold(p)
       \/ RereadHoldToBook(p)
       \/ RereadHoldToPay(p)
       \/ \E b \in Bookings : CreateBookingFromHold(p, b) \/ CreatePaymentIntent(p, b)
       \/ Abort(p)
  \/ \E h \in Holds : ExpireHoldIfDue(h) \/ HoldFallsDue(h)
  \/ \E b \in Bookings :
       \/ ExpireBookingIfDue(b)
       \/ SettleBooking(b)
       \/ RefundBooking(b)
       \/ BookingFallsDue(b)

Spec == Init /\ [][Next]_vars

(***************************************************************************)
(* The workers scan every 30 seconds for as long as the system runs, take  *)
(* the oldest due rows first and leave a row that failed for the next scan.*)
(* Nothing else is fair: users leave, and handlers may fail.               *)
(***************************************************************************)
FairSpec ==
  /\ Spec
  /\ \A h \in Holds : WF_vars(ExpireHoldIfDue(h))
  /\ \A b \in Bookings : WF_vars(ExpireBookingIfDue(b))

-----------------------------------------------------------------------------
(* What the checkout promises.                                             *)

\* Handlers that have checked a row and not yet held it.
Pending(c) ==
  {p \in Handlers : pc[p] = "hold_checked" /\ Demand(asked[p])[c] > 0}

\* Between checkAvailabilityForHold and the increment of held_rooms other
\* handlers hold the same rooms.  A row is overbooked by no more than what
\* all handlers but one can ask for, and what the check overlooks when a
\* request names a room twice: one handler at a time and one line per room
\* never overbook.  Conversion, release, expiry and refund add nothing.
MostOccupied(c) ==
  TotalRooms[c] + (Cardinality(Handlers) - 1) * MaxQuantity + MaxHidden

OverbookingBounded == \A c \in Rows : Occupancy(c) <= MostOccupied(c)

\* No step takes rooms but the creation of a hold: a booking only moves rooms
\* that are held, and everything else gives rooms back.
OnlyHoldsTakeRooms ==
  [][\A c \in Rows : held'[c] + booked'[c] > held[c] + booked[c] =>
       \E h \in Holds : holdStatus[h] = "none" /\ holdStatus'[h] = "active"]_vars

\* The rooms of row c that hold h stands for in held_rooms: what it asked for
\* while it is active, and less than none when a handler ended it once more
\* after another handler, or the expiry worker, ended it.
HeldFor(h, c) ==
  IF holdStatus[h] = "none" THEN 0
  ELSE ((IF holdStatus[h] = "active" THEN 1 ELSE 0) - reended[h])
         * Demand(holdRequest[h])[c]

\* held_rooms is what the active holds hold, less what was given back twice:
\* no interleaving of requests and workers loses or adds a room otherwise.
HeldAccountsForHolds ==
  \A c \in Rows :
    held[c] = SumFunctionOnSet([h \in Holds |-> HeldFor(h, c)], Holds)

\* What releaseRooms gives back of row c for booking b.
Recorded(b, c) == RoomNights(bookingRooms[b], holdRequest[bookingHold[b]].nights)[c]

\* The rooms of row c that booking b stands for in booked_rooms: what it
\* reserved, less what its expiry and each of its refunds gave back.
BookedFor(b, c) ==
  IF bookingStatus[b] = "none" THEN 0
  ELSE Demand(holdRequest[bookingHold[b]])[c]
         - (refunds[b] + (IF bookingStatus[b] \in {"expired", "overwritten"} THEN 1 ELSE 0))
             * Recorded(b, c)

\* booked_rooms is what the bookings reserved, less what the expired ones and
\* the refunds gave back.
BookedAccountsForBookings ==
  \A c \in Rows :
    booked[c] = SumFunctionOnSet([b \in Bookings |-> BookedFor(b, c)], Bookings)

\* A hold with a booking is closed for good: nobody can release, expire or
\* book it again, except the handlers that had read it before.
BookedHoldIsClosed ==
  \A b \in Bookings :
    bookingStatus[b] # "none" =>
      holdStatus[bookingHold[b]] \in {"completed", "released"}

\* The bookings made of hold h.
BookingsOf(h) == {b \in Bookings : bookingStatus[b] # "none" /\ bookingHold[b] = h}

\* No lock keeps two handlers from converting or ending one hold, but only
\* those that read it while it was active can: however the requests, workers
\* and retries of a hold's life come together, it makes no more bookings, and
\* is ended no more often after its end, than there are handlers at a time.
EndingsBounded ==
  \A h \in Holds :
    /\ Cardinality(BookingsOf(h)) <= Cardinality(Handlers)
    /\ reended[h] <= Cardinality(Handlers)

\* What a booking is to the inventory: the rooms it reserved, until it expires.
\* A row to be made counts as one that waits for its payment.
Stage ==
  [b \in Bookings |-> IF bookingStatus[b] = "none" THEN "pending_payment" ELSE bookingStatus[b]]

RoomsLeft ==
  [b \in Bookings |-> IF bookingStatus[b] \in {"expired", "overwritten"} THEN 0 ELSE 1]

Life == INSTANCE BookingLife WITH stage <- Stage, rooms <- RoomsLeft

\* The bookings that the inventory sees live as BookingPayment makes them live:
\* in whatever order they are converted, paid, cancelled, refunded and expired,
\* none expires twice or after it was settled, and none waits for payment again.
BookingsLive == Life!Spec

\* A hold that is due does not stay active, a booking that is due does not
\* stay pending: the scanner comes to it.
OverdueReservationsEnd ==
  /\ \A h \in Holds :
       (holdStatus[h] = "active" /\ h \in holdDue) ~> (holdStatus[h] # "active")
  /\ \A b \in Bookings :
       (bookingStatus[b] = "pending_payment" /\ b \in bookingDue)
         ~> (bookingStatus[b] # "pending_payment")

(***************************************************************************)
(* Why it promises that: the invariant the proofs use.                     *)
(***************************************************************************)

\* What a handler, a hold and a booking refer to exists.
RefersToRows ==
  /\ \A p \in Handlers :
       /\ pc[p] = "hold_checked" => asked[p] \in Requests
       /\ pc[p] \notin {"idle", "hold_checked"} =>
            target[p] \in Holds /\ holdStatus[target[p]] # "none"
  /\ \A h \in Holds : holdStatus[h] # "none" => holdRequest[h] \in Requests
  /\ \A b \in Bookings : bookingStatus[b] # "none" => bookingHold[b] \in Holds

\* Of the handlers that have checked a row there is one, the last to check or
\* one that took the room of a later one, after whose hold all others may ask
\* for the most and still stay within the bound.
PendingFits ==
  \A c \in Rows : Pending(c) # {} =>
    \E p \in Pending(c) :
      Occupancy(c) + Demand(asked[p])[c]
        + (Cardinality(Pending(c)) - 1) * MaxQuantity <= MostOccupied(c)

\* A hold that has not ended has not ended again, and a booking that is not
\* made has no refunds.
HistoryStartsEmpty ==
  /\ \A h \in Holds : holdStatus[h] \in {"none", "active"} => reended[h] = 0
  /\ \A b \in Bookings : bookingStatus[b] = "none" => refunds[b] = 0

\* The counters and what they count.
Accounts == HistoryStartsEmpty /\ HeldAccountsForHolds /\ BookedAccountsForBookings

\* Handlers that found hold h active and have not ended it yet.
Readers(h) ==
  {p \in Handlers : pc[p] \notin {"idle", "hold_checked"} /\ target[p] = h}

\* Each of them can end it, or book it, once more.
ReadersFit ==
  \A h \in Holds :
    /\ Cardinality(BookingsOf(h)) + Cardinality(Readers(h)) <= Cardinality(Handlers)
    /\ reended[h] + Cardinality(Readers(h)) <= Cardinality(Handlers)

IInv ==
  /\ TypeOK
  /\ RefersToRows
  /\ BookedHoldIsClosed
  /\ OverbookingBounded
  /\ PendingFits

(***************************************************************************)
(* What the comments and validators of models/room_inventory.model.js say. *)
(* The code does not keep to them: see the runs that expect a violation.   *)
(***************************************************************************)

\* The validator: 'booked rooms cannot exceed total rooms'.
BookedWithinTotal == \A c \in Rows : booked[c] <= TotalRooms[c]
=============================================================================
