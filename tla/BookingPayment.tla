--------------------------- MODULE BookingPayment ---------------------------
(***************************************************************************)
(* What happens to a booking after POST /api/bookings has made it: payment *)
(* intents, Stripe's webhook events, expiry and cancellation               *)
(* (services/booking.service.js, services/payment.service.js).             *)
(*                                                                         *)
(* A booking and its transaction row change in different ways:             *)
(*   handlePaymentSucceeded and expireBookingIfDue lock the booking row    *)
(*     (SELECT ... FOR UPDATE) and commit once: one step each;             *)
(*   handlePaymentFailed, cancelBooking and createPaymentIntentForBooking  *)
(*     are a series of autocommit statements with awaits between them: one *)
(*     step for each, and another process can run between two of them.     *)
(*                                                                         *)
(* Stripe is the environment.  Its events come in any order, may be lost   *)
(* and may be handled more than once: the duplicate check of the webhook   *)
(* controller can let an event through again (SendAgain).                  *)
(*                                                                         *)
(* The statuses checked_in of a booking and partially_refunded of a        *)
(* transaction are written and read like confirmed and refunded.           *)
(***************************************************************************)
EXTENDS Integers, FiniteSets, FiniteSetsExt

CONSTANTS
  Bookings,       \* bookings just made, their rooms reserved
  Intents,        \* payment intents Stripe can create
  Users,          \* user requests the server works on at the same time
  ChargeParts,    \* a charge can be refunded in that many parts
  MaxMishaps,     \* bound: declines, and events that pass the duplicate check again
  NoBooking,      \* null
  NoIntent        \* null

ASSUME PaymentAssumption ==
  /\ ChargeParts \in Nat \ {0}
  /\ MaxMishaps \in Nat
  /\ IsFiniteSet(Users) /\ IsFiniteSet(Intents)
  /\ NoBooking \notin Bookings /\ NoIntent \notin Intents

VARIABLES
  status,         \* bookings.status
  due,            \* bookings whose expires_at and payment_due_at have passed
  rooms,          \* how often booked_rooms counts the rooms of a booking
  txnStatus,      \* transactions.status of the booking's transaction
  txnIntent,      \* its stripe_payment_intent_id
  txnCharge,      \* its stripe_charge_id, named by the intent charged
  intentBooking,  \* Stripe: metadata.booking_id of an intent
  intentState,    \* Stripe: none, open, succeeded or canceled
  declines,       \* Stripe: declined attempts so far
  refunded,       \* Stripe: parts of the charge refunded
  inbox,          \* events that may yet be handled
  resends,        \* events handled once more than Stripe emitted them
  failing,        \* how far handlePaymentFailed is with an intent
  closing,        \* intents an expiry has yet to cancel
  pc, onBooking, onIntent,   \* the user requests in progress
  orphaned,       \* history: intents of requests that stopped before storing them
  raced,          \* history: bookings two requests were paying for at once
  revived         \* history: bookings whose status was written after expiry

bookingVars == <<status, due, rooms>>
txnVars == <<txnStatus, txnIntent, txnCharge>>
stripeVars == <<intentBooking, intentState, declines, refunded, resends>>
userVars == <<pc, onBooking, onIntent>>
raceVars == <<orphaned, raced>>
vars == <<bookingVars, txnVars, stripeVars, inbox, failing, closing, userVars,
          raceVars, revived>>

BookingStatus ==
  {"pending_payment", "confirmed", "payment_failed", "expired", "cancelled", "completed"}
TxnStatus == {"pending", "processing", "completed", "failed", "refunded", "cancelled"}
PC == {"idle", "pay_read", "pay_created",
       "cancel_read", "cancel_charge", "cancel_refunded", "cancel_write"}

Events == {"succeeded", "failed", "refunded"} \X Intents

TypeOK ==
  /\ status \in [Bookings -> BookingStatus]
  /\ due \subseteq Bookings
  /\ rooms \in [Bookings -> Int]
  /\ txnStatus \in [Bookings -> TxnStatus]
  /\ txnIntent \in [Bookings -> Intents \cup {NoIntent}]
  /\ txnCharge \in [Bookings -> Intents \cup {NoIntent}]
  /\ intentBooking \in [Intents -> Bookings \cup {NoBooking}]
  /\ intentState \in [Intents -> {"none", "open", "succeeded", "canceled"}]
  /\ declines \in 0..MaxMishaps
  /\ refunded \in [Intents -> 0..ChargeParts]
  /\ inbox \in [Events -> Nat]
  /\ resends \in 0..MaxMishaps
  /\ failing \in [Intents -> {"no", "read", "txn_written"}]
  /\ closing \subseteq Intents
  /\ pc \in [Users -> PC]
  /\ onBooking \in [Users -> Bookings \cup {NoBooking}]
  /\ onIntent \in [Users -> Intents \cup {NoIntent}]
  /\ orphaned \subseteq Intents
  /\ raced \subseteq Bookings
  /\ revived \subseteq Bookings

Init ==
  /\ status = [b \in Bookings |-> "pending_payment"]
  /\ due = {}
  /\ rooms = [b \in Bookings |-> 1]
  /\ txnStatus = [b \in Bookings |-> "pending"]
  /\ txnIntent = [b \in Bookings |-> NoIntent]
  /\ txnCharge = [b \in Bookings |-> NoIntent]
  /\ intentBooking = [i \in Intents |-> NoBooking]
  /\ intentState = [i \in Intents |-> "none"]
  /\ declines = 0
  /\ refunded = [i \in Intents |-> 0]
  /\ inbox = [e \in Events |-> 0]
  /\ resends = 0
  /\ failing = [i \in Intents |-> "no"]
  /\ closing = {}
  /\ pc = [u \in Users |-> "idle"]
  /\ onBooking = [u \in Users |-> NoBooking]
  /\ onIntent = [u \in Users |-> NoIntent]
  /\ orphaned = {}
  /\ raced = {}
  /\ revived = {}

Emitted(box, type, i) == [box EXCEPT ![<<type, i>>] = @ + 1]
Taken(box, type, i) == [box EXCEPT ![<<type, i>>] = @ - 1]

\* UPDATE bookings SET status = s, by id or by booking_code.
WriteStatus(b, s) ==
  /\ status' = [status EXCEPT ![b] = s]
  /\ revived' = IF status[b] = "expired" THEN revived \cup {b} ELSE revived

-----------------------------------------------------------------------------
(* User requests.                                                          *)

Proceed(u, next, b, i) ==
  /\ pc' = [pc EXCEPT ![u] = next]
  /\ onBooking' = [onBooking EXCEPT ![u] = b]
  /\ onIntent' = [onIntent EXCEPT ![u] = i]

Done(u) == Proceed(u, "idle", NoBooking, NoIntent)

PayingFor(u, b) == pc[u] \in {"pay_read", "pay_created"} /\ onBooking[u] = b

\* Mutant: an intent on record is not looked for.
ReadToPayAgain(u, b) ==
  /\ pc[u] = "idle"
  /\ status[b] = "pending_payment" /\ b \notin due
  /\ Proceed(u, "pay_read", b, NoIntent)
  /\ raced' = IF \E v \in Users : PayingFor(v, b) THEN raced \cup {b} ELSE raced
  /\ UNCHANGED <<bookingVars, txnVars, stripeVars, inbox, failing, closing,
                 orphaned, revived>>

\* createPaymentIntentForBooking reads the booking and its transaction.  When
\* the transaction has an intent it is returned and nothing changes.
ReadToPay(u, b) ==
  /\ pc[u] = "idle"
  /\ status[b] = "pending_payment" /\ b \notin due
  /\ txnIntent[b] = NoIntent
  /\ Proceed(u, "pay_read", b, NoIntent)
  /\ raced' = IF \E v \in Users : PayingFor(v, b) THEN raced \cup {b} ELSE raced
  /\ UNCHANGED <<bookingVars, txnVars, stripeVars, inbox, failing, closing,
                 orphaned, revived>>

\* paymentProvider.createPayment: the intent exists at Stripe.
CreateIntent(u, i) ==
  /\ pc[u] = "pay_read"
  /\ intentState[i] = "none"
  /\ intentState' = [intentState EXCEPT ![i] = "open"]
  /\ intentBooking' = [intentBooking EXCEPT ![i] = onBooking[u]]
  /\ Proceed(u, "pay_created", onBooking[u], i)
  /\ UNCHANGED <<bookingVars, txnVars, declines, refunded, resends, inbox, failing, closing,
                 raceVars, revived>>

\* transactionRepository.update: the row names it, instead of any other.
StoreIntent(u) ==
  /\ pc[u] = "pay_created"
  /\ txnIntent' = [txnIntent EXCEPT ![onBooking[u]] = onIntent[u]]
  /\ Done(u)
  /\ UNCHANGED <<bookingVars, txnStatus, txnCharge, stripeVars, inbox, failing,
                 closing, raceVars, revived>>

\* cancelBooking reads the booking, without a lock.  It goes on to the refund
\* when one is asked for and the policy grants one, to the update otherwise.
ReadToCancel(u, b) ==
  /\ pc[u] = "idle"
  /\ status[b] \notin {"cancelled", "completed"}
  /\ \E next \in {"cancel_read", "cancel_write"} : Proceed(u, next, b, NoIntent)
  /\ UNCHANGED <<bookingVars, txnVars, stripeVars, inbox, failing, closing,
                 raceVars, revived>>

\* processRefund reads the transaction.  Without a charge there is no refund,
\* the error is logged and the cancellation goes on.
ReadCharge(u) ==
  /\ pc[u] = "cancel_read"
  /\ LET b == onBooking[u] IN
       Proceed(u, IF txnCharge[b] = NoIntent THEN "cancel_write" ELSE "cancel_charge",
               b, txnCharge[b])
  /\ UNCHANGED <<bookingVars, txnVars, stripeVars, inbox, failing, closing,
                 raceVars, revived>>

\* Stripe refunds `parts` of the charge, as the policy says, or refuses: then
\* too the error is logged and the cancellation goes on.
RefundForCancel(u, parts) ==
  LET i == onIntent[u] IN
  /\ pc[u] = "cancel_charge"
  /\ \/ /\ refunded[i] + parts <= ChargeParts
        /\ refunded' = [refunded EXCEPT ![i] = @ + parts]
        /\ inbox' = Emitted(inbox, "refunded", i)
        /\ Proceed(u, "cancel_refunded", onBooking[u], NoIntent)
     \/ /\ Proceed(u, "cancel_write", onBooking[u], NoIntent)
        /\ UNCHANGED <<refunded, inbox>>
  /\ UNCHANGED <<bookingVars, txnVars, intentBooking, intentState, declines, resends,
                 failing, closing, raceVars, revived>>

\* updateTransactionRefundState, for a refund that succeeded or is pending; an
\* error before it leaves the transaction as it was.
RecordRefund(u) ==
  /\ pc[u] = "cancel_refunded"
  /\ \/ \E s \in {"refunded", "processing"} :
          txnStatus' = [txnStatus EXCEPT ![onBooking[u]] = s]
     \/ UNCHANGED txnStatus
  /\ Proceed(u, "cancel_write", onBooking[u], NoIntent)
  /\ UNCHANGED <<bookingVars, txnIntent, txnCharge, stripeVars, inbox, failing,
                 closing, raceVars, revived>>

\* bookingRepository.updateStatus(bookingId, 'cancelled'), whatever the status.
WriteCancelled(u) ==
  /\ pc[u] = "cancel_write"
  /\ WriteStatus(onBooking[u], "cancelled")
  /\ Done(u)
  /\ UNCHANGED <<due, rooms, txnVars, stripeVars, inbox, failing, closing, raceVars>>

\* An error that is not caught, or the server stops: what was written stays.
Fail(u) ==
  /\ pc[u] # "idle"
  /\ orphaned' = IF pc[u] = "pay_created" THEN orphaned \cup {onIntent[u]} ELSE orphaned
  /\ Done(u)
  /\ UNCHANGED <<bookingVars, txnVars, stripeVars, inbox, failing, closing, raced, revived>>

-----------------------------------------------------------------------------
(* Stripe.                                                                 *)

Pay(i) ==
  /\ intentState[i] = "open"
  /\ intentState' = [intentState EXCEPT ![i] = "succeeded"]
  /\ inbox' = Emitted(inbox, "succeeded", i)
  /\ UNCHANGED <<bookingVars, txnVars, intentBooking, declines, refunded, resends, failing,
                 closing, userVars, raceVars, revived>>

Decline(i) ==
  /\ intentState[i] = "open"
  /\ declines + resends < MaxMishaps
  /\ declines' = declines + 1
  /\ inbox' = Emitted(inbox, "failed", i)
  /\ UNCHANGED <<bookingVars, txnVars, intentBooking, intentState, refunded, resends, failing,
                 closing, userVars, raceVars, revived>>

\* An event is sent again, and the duplicate check lets it through.
SendAgain(type, i) ==
  /\ inbox[<<type, i>>] > 0
  /\ declines + resends < MaxMishaps
  /\ resends' = resends + 1
  /\ inbox' = Emitted(inbox, type, i)
  /\ UNCHANGED <<bookingVars, txnVars, intentBooking, intentState, declines, refunded,
                 failing, closing, userVars, raceVars, revived>>

-----------------------------------------------------------------------------
(* Webhook handlers.                                                       *)

\* Mutant: any transaction that is no longer pending counts as processed.
NotPending(i) ==
  /\ txnStatus[intentBooking[i]] # "pending"
  /\ inbox' = Taken(inbox, "succeeded", i)
  /\ UNCHANGED <<status, txnVars, refunded, revived>>

\* handlePaymentSucceeded: three ways through one transaction.
AlreadyProcessed(i) ==
  /\ txnStatus[intentBooking[i]] = "completed"
  /\ inbox' = Taken(inbox, "succeeded", i)
  /\ UNCHANGED <<status, txnVars, refunded, revived>>

\* Mutant: the refund is taken to have succeeded.
AssumeRefunded(i) ==
  LET b == intentBooking[i] IN
  /\ txnStatus[b] # "completed" /\ status[b] = "expired"
  /\ inbox' = Taken(inbox, "succeeded", i)
  /\ txnStatus' = [txnStatus EXCEPT ![b] = "refunded"]
  /\ txnCharge' = [txnCharge EXCEPT ![b] = i]
  /\ UNCHANGED <<status, txnIntent, refunded, revived>>

\* The booking expired: refund the rest of the charge, confirm nothing.
\* The transaction row is not written when the server stops in between.
RefundLatePayment(i) ==
  LET b == intentBooking[i] IN
  /\ txnStatus[b] # "completed" /\ status[b] = "expired"
  /\ \/ /\ refunded[i] < ChargeParts
        /\ refunded' = [refunded EXCEPT ![i] = ChargeParts]
        /\ inbox' = Emitted(Taken(inbox, "succeeded", i), "refunded", i)
        /\ \/ /\ \E s \in {"refunded", "processing"} :
                   txnStatus' = [txnStatus EXCEPT ![b] = s]
              /\ txnCharge' = [txnCharge EXCEPT ![b] = i]
           \/ UNCHANGED <<txnStatus, txnCharge>>
     \/ /\ inbox' = Taken(inbox, "succeeded", i)
        /\ txnStatus' = [txnStatus EXCEPT ![b] = "processing"]
        /\ txnCharge' = [txnCharge EXCEPT ![b] = i]
        /\ UNCHANGED refunded
  /\ UNCHANGED <<status, txnIntent, revived>>

\* Complete the transaction and confirm, whatever else the booking was.
ConfirmBooking(i) ==
  LET b == intentBooking[i] IN
  /\ txnStatus[b] # "completed" /\ status[b] # "expired"
  /\ txnStatus' = [txnStatus EXCEPT ![b] = "completed"]
  /\ txnCharge' = [txnCharge EXCEPT ![b] = i]
  /\ WriteStatus(b, "confirmed")
  /\ inbox' = Taken(inbox, "succeeded", i)
  /\ UNCHANGED <<txnIntent, refunded>>

HandlePaymentSucceeded(i) ==
  /\ inbox[<<"succeeded", i>>] > 0
  /\ AlreadyProcessed(i) \/ RefundLatePayment(i) \/ ConfirmBooking(i)
  /\ UNCHANGED <<due, rooms, intentBooking, intentState, declines, resends, failing, closing,
                 userVars, raceVars>>

\* handlePaymentFailed reads the transaction; a failure on record ends it.
HandlePaymentFailed(i) ==
  /\ inbox[<<"failed", i>>] > 0
  /\ failing[i] = "no"
  /\ inbox' = Taken(inbox, "failed", i)
  /\ failing' = [failing EXCEPT ![i] =
                  IF txnStatus[intentBooking[i]] = "failed" THEN "no" ELSE "read"]
  /\ UNCHANGED <<bookingVars, txnVars, stripeVars, closing, userVars, raceVars, revived>>

\* Mutant: the status a booking would get.
WriteTxnPaymentFailed(i) ==
  /\ failing[i] = "read"
  /\ txnStatus' = [txnStatus EXCEPT ![intentBooking[i]] = "payment_failed"]
  /\ failing' = [failing EXCEPT ![i] = "txn_written"]
  /\ UNCHANGED <<bookingVars, txnIntent, txnCharge, stripeVars, inbox, closing,
                 userVars, raceVars, revived>>

\* The transaction is 'failed', whatever it was; then so is the booking.
WriteTxnFailed(i) ==
  /\ failing[i] = "read"
  /\ txnStatus' = [txnStatus EXCEPT ![intentBooking[i]] = "failed"]
  /\ failing' = [failing EXCEPT ![i] = "txn_written"]
  /\ UNCHANGED <<bookingVars, txnIntent, txnCharge, stripeVars, inbox, closing,
                 userVars, raceVars, revived>>

WriteBookingFailed(i) ==
  /\ failing[i] = "txn_written"
  /\ WriteStatus(intentBooking[i], "payment_failed")
  /\ failing' = [failing EXCEPT ![i] = "no"]
  /\ UNCHANGED <<due, rooms, txnVars, stripeVars, inbox, closing, userVars, raceVars>>

StopFailing(i) ==
  /\ failing[i] # "no"
  /\ failing' = [failing EXCEPT ![i] = "no"]
  /\ UNCHANGED <<bookingVars, txnVars, stripeVars, inbox, closing, userVars,
                 raceVars, revived>>

\* handleRefundSucceeded: nothing to do but an error when no transaction has
\* the charge.  The metadata of these intents lists no rooms to release.
HandleRefundSucceeded(i) ==
  /\ inbox[<<"refunded", i>>] > 0
  /\ inbox' = Taken(inbox, "refunded", i)
  /\ IF \E b \in Bookings : txnCharge[b] = i
     THEN WriteStatus(intentBooking[i], "cancelled")
     ELSE UNCHANGED <<status, revived>>
  /\ UNCHANGED <<due, rooms, txnVars, stripeVars, failing, closing, userVars, raceVars>>

-----------------------------------------------------------------------------
(* Workers and clock.                                                      *)

\* Mutants: any booking that is due expires; the status is not written.
ExpireAnyDue(b) ==
  /\ b \in due
  /\ rooms' = [rooms EXCEPT ![b] = @ - 1]
  /\ status' = [status EXCEPT ![b] = "expired"]
  /\ UNCHANGED <<due, txnVars, stripeVars, inbox, failing, closing, userVars,
                 raceVars, revived>>

ExpireRoomsOnly(b) ==
  /\ status[b] = "pending_payment" /\ b \in due /\ rooms[b] > 0
  /\ rooms' = [rooms EXCEPT ![b] = @ - 1]
  /\ UNCHANGED <<due, status, txnVars, stripeVars, inbox, failing, closing,
                 userVars, raceVars, revived>>

\* expireBookingIfDue up to its commit.
ExpireBookingIfDue(b) ==
  /\ status[b] = "pending_payment" /\ b \in due
  /\ rooms' = [rooms EXCEPT ![b] = @ - 1]
  /\ WriteStatus(b, "expired")
  /\ txnStatus' = [txnStatus EXCEPT ![b] =
                    IF @ \in {"pending", "processing"} THEN "cancelled" ELSE @]
  /\ closing' = closing \cup ({txnIntent[b]} \ {NoIntent})
  /\ UNCHANGED <<due, txnIntent, txnCharge, stripeVars, inbox, failing, userVars, raceVars>>

\* cancelExpiredPaymentIntent, after the commit: an intent that is paid stays
\* paid; an error is logged and nobody tries again.
CancelExpiredPaymentIntent(i) ==
  /\ i \in closing
  /\ closing' = closing \ {i}
  /\ \/ intentState' = [intentState EXCEPT ![i] = IF @ = "open" THEN "canceled" ELSE @]
     \/ UNCHANGED intentState
  /\ UNCHANGED <<bookingVars, txnVars, intentBooking, declines, refunded, resends, inbox,
                 failing, userVars, raceVars, revived>>

\* Time passes.  A booking in any other status does not look at the clock.
BookingFallsDue(b) ==
  /\ b \notin due
  /\ status[b] \in {"pending_payment", "confirmed"}
  /\ due' = due \cup {b}
  /\ UNCHANGED <<status, rooms, txnVars, stripeVars, inbox, failing, closing, userVars,
                 raceVars, revived>>

\* updateStatusByDates, once the stay is over.
CompleteStay(b) ==
  /\ status[b] = "confirmed" /\ b \in due
  /\ WriteStatus(b, "completed")
  /\ UNCHANGED <<due, rooms, txnVars, stripeVars, inbox, failing, closing, userVars, raceVars>>

-----------------------------------------------------------------------------
Next ==
  \/ \E u \in Users :
       \/ \E b \in Bookings : ReadToPay(u, b) \/ ReadToCancel(u, b)
       \/ \E i \in Intents : CreateIntent(u, i)
       \/ StoreIntent(u)
       \/ ReadCharge(u)
       \/ \E parts \in 1..ChargeParts : RefundForCancel(u, parts)
       \/ RecordRefund(u)
       \/ WriteCancelled(u)
       \/ Fail(u)
  \/ \E i \in Intents :
       \/ Pay(i) \/ Decline(i)
       \/ \E type \in {"succeeded", "failed", "refunded"} : SendAgain(type, i)
       \/ HandlePaymentSucceeded(i)
       \/ HandlePaymentFailed(i) \/ WriteTxnFailed(i) \/ WriteBookingFailed(i)
       \/ StopFailing(i)
       \/ HandleRefundSucceeded(i)
       \/ CancelExpiredPaymentIntent(i)
  \/ \E b \in Bookings :
       ExpireBookingIfDue(b) \/ BookingFallsDue(b) \/ CompleteStay(b)

Spec == Init /\ [][Next]_vars
-----------------------------------------------------------------------------
(* What the life of a booking promises.                                    *)

\* Seen from the inventory a booking only settles or expires, and is settled
\* again at most after it expired.  RoomCheckout takes it to be that simple.
Stage ==
  [b \in Bookings |->
     IF b \in revived THEN "overwritten"
     ELSE IF status[b] \in {"expired", "pending_payment"} THEN status[b]
     ELSE "settled"]

Life == INSTANCE BookingLife WITH stage <- Stage

\* Refinement: no order of webhooks, requests and expiry gives the rooms of a
\* booking back twice, takes them again, or makes it pending again.
LivesAsReserved == Life!Spec

\* A booking has one payment intent, unless two requests paid for it at the
\* same time or a request stopped before it stored the intent it created.
OneIntentUnlessRaced ==
  \A b \in Bookings : b \notin raced =>
    \A i, j \in {k \in Intents : intentBooking[k] = b} \ orphaned : i = j

\* An intent is paid, and the event of it handled: the charge is on record, or
\* refunded, or another intent of the same booking was paid as well.
PaymentsAreOnRecord ==
  \A i \in Intents :
    LET b == intentBooking[i] IN
    (intentState[i] = "succeeded" /\ inbox[<<"succeeded", i>>] = 0) =>
      \/ txnCharge[b] = i
      \/ refunded[i] > 0
      \/ \E j \in Intents \ {i} : intentBooking[j] = b /\ intentState[j] = "succeeded"

\* No expired booking keeps a charge silently: the charge that came late was
\* refunded, or the transaction says that it is not settled.
LatePaymentIsRefunded ==
  \A b \in Bookings : (status[b] = "expired" /\ txnCharge[b] # NoIntent) =>
    \/ txnStatus[b] \in {"processing", "failed"}
    \/ \E i \in Intents : intentBooking[i] = b /\ refunded[i] > 0

\* A booking is confirmed by a payment that was made for it, and then has its
\* rooms, unless its status was written after it expired.
ConfirmedIsPaidFor ==
  \A b \in Bookings : status[b] \in {"confirmed", "completed"} =>
    /\ \E i \in Intents : intentBooking[i] = b /\ intentState[i] = "succeeded"
    /\ rooms[b] = 1 \/ b \in revived

(***************************************************************************)
(* Why it promises that: the invariant the proofs use.                     *)
(***************************************************************************)

\* What a request refers to exists; a refund is asked for a charge only.
RequestsRefer ==
  \A u \in Users :
    /\ pc[u] # "idle" => onBooking[u] \in Bookings
    /\ pc[u] \in {"pay_created", "cancel_charge"} => onIntent[u] \in Intents
    /\ pc[u] = "cancel_charge" => intentState[onIntent[u]] = "succeeded"

\* An intent with an event, or a handler at work, was created for a booking.
EventsRefer ==
  \A i \in Intents :
    /\ (intentState[i] = "none") <=> (intentBooking[i] = NoBooking)
    /\ \A type \in {"succeeded", "failed", "refunded"} :
         inbox[<<type, i>>] > 0 => intentState[i] # "none"
    /\ inbox[<<"succeeded", i>>] > 0 => intentState[i] = "succeeded"
    /\ failing[i] # "no" => intentState[i] # "none"

\* The charge on record is one of a paid intent.
ChargesRefer ==
  \A b \in Bookings :
    txnCharge[b] # NoIntent => intentState[txnCharge[b]] = "succeeded"

RefersToRows == RequestsRefer /\ EventsRefer /\ ChargesRefer

\* The rooms of a booking are with it until it expires, once; a status written
\* later is not one that expires.
RoomsFollowStage ==
  \A b \in Bookings :
    /\ b \in revived => status[b] \notin {"pending_payment", "expired"}
    /\ rooms[b] = IF status[b] = "expired" \/ b \in revived THEN 0 ELSE 1

\* Unless requests raced for a booking there is one that pays for it, while no
\* intent is stored; the intent it creates is the one that gets stored.
OneRequestPays ==
  \A b \in Bookings : b \notin raced =>
    /\ \A u, v \in Users : PayingFor(u, b) /\ PayingFor(v, b) => u = v
    /\ \A u \in Users : PayingFor(u, b) => txnIntent[b] = NoIntent
    /\ \A i \in Intents \ orphaned : intentBooking[i] = b =>
         \/ txnIntent[b] = i
         \/ \E u \in Users : pc[u] = "pay_created" /\ onBooking[u] = b /\ onIntent[u] = i

\* A charge on record is one of an intent of the booking, and there is one as soon
\* as the transaction is completed and none while the booking waits.
ChargesBelong ==
  \A b \in Bookings :
    /\ status[b] = "pending_payment" => txnCharge[b] = NoIntent
    /\ txnStatus[b] = "completed" => txnCharge[b] # NoIntent
    /\ txnCharge[b] # NoIntent => intentBooking[txnCharge[b]] = b

\* A cancellation refunds a charge of its booking.
RefundsBelong ==
  \A u \in Users :
    /\ pc[u] = "cancel_charge" => intentBooking[onIntent[u]] = onBooking[u]
    /\ pc[u] = "cancel_refunded" =>
         \E i \in Intents : intentBooking[i] = onBooking[u] /\ refunded[i] > 0

IInv ==
  /\ TypeOK
  /\ RefersToRows
  /\ RoomsFollowStage
  /\ OneRequestPays
  /\ ConfirmedIsPaidFor
  /\ ChargesBelong
  /\ RefundsBelong
  /\ PaymentsAreOnRecord
  /\ LatePaymentIsRefunded

(***************************************************************************)
(* plan/checkout_payment_future_plan.md: 'Payment success after booking    *)
(* expiry should trigger refund handling.'  See the run that expects a     *)
(* violation.                                                              *)
(***************************************************************************)

\* A payment never confirms a booking whose rooms were given back.
ConfirmedHasRooms ==
  \A b \in Bookings : status[b] = "confirmed" => rooms[b] = 1
=============================================================================
