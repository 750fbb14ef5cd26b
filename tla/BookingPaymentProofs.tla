------------------------ MODULE BookingPaymentProofs ------------------------
(***************************************************************************)
(* Proofs about BookingPayment, for any bookings, intents and users and    *)
(* for every bound on declines and repeated events.                        *)
(***************************************************************************)
EXTENDS BookingPayment, TLAPS

\* The event types are three; an event is a type and an intent.
LEMMA EventTypes ==
  ASSUME NEW i \in Intents, NEW type \in {"succeeded", "failed", "refunded"}
  PROVE  <<type, i>> \in Events
BY DEF Events

\* Where the requests are is of the right type after any of them goes on.
LEMMA ProceedTypes ==
  ASSUME TypeOK, NEW u \in Users, NEW next \in PC, NEW b \in Bookings \cup {NoBooking},
         NEW i \in Intents \cup {NoIntent}, Proceed(u, next, b, i)
  PROVE  /\ pc' \in [Users -> PC]
         /\ onBooking' \in [Users -> Bookings \cup {NoBooking}]
         /\ onIntent' \in [Users -> Intents \cup {NoIntent}]
BY DEF TypeOK, Proceed

\* Adding and taking events leaves the counts of the others alone.
LEMMA InboxTypes ==
  ASSUME TypeOK, NEW i \in Intents, NEW type \in {"succeeded", "failed", "refunded"}
  PROVE  /\ Emitted(inbox, type, i) \in [Events -> Nat]
         /\ inbox[<<type, i>>] > 0 => Taken(inbox, type, i) \in [Events -> Nat]
<1> DEFINE e == <<type, i>>
<1>1. e \in Events /\ inbox \in [Events -> Nat]
  BY EventTypes DEF TypeOK
<1>2. [inbox EXCEPT ![e] = @ + 1] \in [Events -> Nat]
  <2> HIDE DEF e
  <2> QED BY <1>1
<1>3. inbox[e] > 0 => [inbox EXCEPT ![e] = @ - 1] \in [Events -> Nat]
  <2> HIDE DEF e
  <2> QED BY <1>1
<1>4. QED
  BY <1>2, <1>3 DEF Emitted, Taken

\* An intent that has an event, or a handler at work, has a booking.
LEMMA IntentHasBooking ==
  ASSUME TypeOK, RefersToRows, NEW i \in Intents, intentState[i] # "none"
  PROVE  intentBooking[i] \in Bookings
<1>1. intentBooking[i] \in Bookings \cup {NoBooking}
  BY DEF TypeOK
<1>2. intentBooking[i] # NoBooking
  BY DEF RefersToRows, EventsRefer
<1>3. QED
  BY <1>1, <1>2

LEMMA EventHasIntent ==
  ASSUME RefersToRows, NEW i \in Intents, NEW type \in {"succeeded", "failed", "refunded"},
         inbox[<<type, i>>] > 0
  PROVE  intentState[i] # "none"
BY DEF RefersToRows, EventsRefer

-----------------------------------------------------------------------------
(* Type correctness, action by action.                                     *)

LEMMA InitIInv == Init => IInv
<1> SUFFICES ASSUME Init PROVE IInv
  OBVIOUS
<1> USE DEF Init
<1>1. TypeOK
  BY PaymentAssumption DEF TypeOK, BookingStatus, TxnStatus, PC, Events
<1>2. RefersToRows
  BY EventTypes DEF RefersToRows, RequestsRefer, EventsRefer, ChargesRefer
<1>3. RoomsFollowStage /\ ConfirmedIsPaidFor
  BY DEF RoomsFollowStage, ConfirmedIsPaidFor
<1>4. OneRequestPays
  BY PaymentAssumption DEF OneRequestPays, PayingFor
<1>5. ChargesBelong /\ RefundsBelong /\ PaymentsAreOnRecord /\ LatePaymentIsRefunded
  BY DEF ChargesBelong, RefundsBelong, PaymentsAreOnRecord, LatePaymentIsRefunded
<1>6. QED
  BY <1>1, <1>2, <1>3, <1>4, <1>5 DEF IInv

LEMMA TypesStep ==
  ASSUME TypeOK, RefersToRows, [Next]_vars
  PROVE  TypeOK'
<1> USE DEF TypeOK, BookingStatus, TxnStatus
<1>1. ASSUME NEW u \in Users, NEW b \in Bookings, ReadToPay(u, b) \/ ReadToCancel(u, b)
      PROVE  TypeOK'
  BY <1>1, ProceedTypes DEF ReadToPay, ReadToCancel, PC, bookingVars, txnVars, stripeVars, raceVars
<1>2. ASSUME NEW u \in Users, NEW i \in Intents, CreateIntent(u, i)
      PROVE  TypeOK'
  BY <1>2, ProceedTypes DEF CreateIntent, PC, RefersToRows, RequestsRefer, bookingVars, txnVars, raceVars
<1>3. ASSUME NEW u \in Users, StoreIntent(u)
      PROVE  TypeOK'
  BY <1>3, ProceedTypes DEF StoreIntent, Done, PC, RefersToRows, RequestsRefer, bookingVars, stripeVars, raceVars
<1>4. ASSUME NEW u \in Users, ReadCharge(u)
      PROVE  TypeOK'
  BY <1>4, ProceedTypes DEF ReadCharge, PC, RefersToRows, RequestsRefer, bookingVars, txnVars, stripeVars, raceVars
<1>5. ASSUME NEW u \in Users, NEW parts \in 1..ChargeParts, RefundForCancel(u, parts)
      PROVE  TypeOK'
  <2>1. onBooking[u] \in Bookings /\ onIntent[u] \in Intents
    BY <1>5 DEF RefundForCancel, RefersToRows, RequestsRefer
  <2>2. inbox' \in [Events -> Nat]
    BY <1>5, <2>1, InboxTypes DEF RefundForCancel
  <2>3. refunded' \in [Intents -> 0..ChargeParts]
    BY <1>5, <2>1, PaymentAssumption DEF RefundForCancel
  <2>4. /\ pc' \in [Users -> PC]
        /\ onBooking' \in [Users -> Bookings \cup {NoBooking}]
        /\ onIntent' \in [Users -> Intents \cup {NoIntent}]
    BY <1>5, <2>1 DEF RefundForCancel, Proceed, PC
  <2>5. QED
    BY <1>5, <2>2, <2>3, <2>4 DEF RefundForCancel, bookingVars, txnVars, raceVars
<1>6. ASSUME NEW u \in Users, RecordRefund(u)
      PROVE  TypeOK'
  <2>1. onBooking[u] \in Bookings
    BY <1>6 DEF RecordRefund, RefersToRows, RequestsRefer
  <2>2. txnStatus' \in [Bookings -> TxnStatus]
    BY <1>6, <2>1 DEF RecordRefund
  <2>3. QED
    BY <1>6, <2>1, <2>2 DEF RecordRefund, Proceed, PC, bookingVars, stripeVars, raceVars
<1>7. ASSUME NEW u \in Users, WriteCancelled(u)
      PROVE  TypeOK'
  <2>1. onBooking[u] \in Bookings
    BY <1>7 DEF WriteCancelled, RefersToRows, RequestsRefer
  <2>2. status' \in [Bookings -> BookingStatus] /\ revived' \subseteq Bookings
    BY <1>7, <2>1 DEF WriteCancelled, WriteStatus
  <2>3. QED
    BY <1>7, <2>2 DEF WriteCancelled, Done, Proceed, PC, txnVars, stripeVars, raceVars
<1>8. ASSUME NEW u \in Users, Fail(u)
      PROVE  TypeOK'
  <2>1. orphaned' \subseteq Intents
    BY <1>8 DEF Fail, RefersToRows, RequestsRefer
  <2>2. QED
    BY <1>8, <2>1 DEF Fail, Done, Proceed, PC, bookingVars, txnVars, stripeVars
<1>9. ASSUME NEW i \in Intents, Pay(i) \/ Decline(i)
      PROVE  TypeOK'
  <2>1. inbox' \in [Events -> Nat]
    BY <1>9, InboxTypes DEF Pay, Decline
  <2>2. declines' \in 0..MaxMishaps
    BY <1>9, PaymentAssumption DEF Pay, Decline
  <2>3. QED
    BY <1>9, <2>1, <2>2 DEF Pay, Decline, bookingVars, txnVars, userVars, raceVars
<1>10. ASSUME NEW i \in Intents, NEW type \in {"succeeded", "failed", "refunded"}, SendAgain(type, i)
       PROVE  TypeOK'
  <2>1. inbox' \in [Events -> Nat]
    BY <1>10, InboxTypes DEF SendAgain
  <2>2. resends' \in 0..MaxMishaps
    BY <1>10, PaymentAssumption DEF SendAgain
  <2>3. QED
    BY <1>10, <2>1, <2>2 DEF SendAgain, bookingVars, txnVars, userVars, raceVars
<1>11. ASSUME NEW i \in Intents, HandlePaymentSucceeded(i)
       PROVE  TypeOK'
  <2>1. intentBooking[i] \in Bookings
    BY <1>11, EventHasIntent, IntentHasBooking DEF HandlePaymentSucceeded
  <2>2. CASE AlreadyProcessed(i)
    BY <1>11, <2>2, InboxTypes
       DEF HandlePaymentSucceeded, AlreadyProcessed, txnVars, userVars, raceVars
  <2>3. CASE RefundLatePayment(i)
    <3>1. inbox' \in [Events -> Nat]
      BY <1>11, <2>3, EventTypes DEF HandlePaymentSucceeded, RefundLatePayment, Emitted, Taken
    <3>2. txnStatus' \in [Bookings -> TxnStatus] /\ txnCharge' \in [Bookings -> Intents \cup {NoIntent}]
      BY <2>1, <2>3 DEF RefundLatePayment
    <3>3. refunded' \in [Intents -> 0..ChargeParts]
      BY <2>3, PaymentAssumption DEF RefundLatePayment
    <3>4. QED
      BY <1>11, <2>3, <3>1, <3>2, <3>3 DEF HandlePaymentSucceeded, RefundLatePayment, userVars, raceVars
  <2>4. CASE ConfirmBooking(i)
    BY <1>11, <2>1, <2>4, InboxTypes
       DEF HandlePaymentSucceeded, ConfirmBooking, WriteStatus, userVars, raceVars
  <2>5. QED
    BY <1>11, <2>2, <2>3, <2>4 DEF HandlePaymentSucceeded
<1>12. ASSUME NEW i \in Intents, HandlePaymentFailed(i) \/ WriteTxnFailed(i) \/ StopFailing(i)
       PROVE  TypeOK'
  <2>1. inbox' \in [Events -> Nat]
    BY <1>12, InboxTypes DEF HandlePaymentFailed, WriteTxnFailed, StopFailing
  <2>2. txnStatus' \in [Bookings -> TxnStatus]
    BY <1>12 DEF HandlePaymentFailed, WriteTxnFailed, StopFailing, txnVars
  <2>3. failing' \in [Intents -> {"no", "read", "txn_written"}]
    BY <1>12 DEF HandlePaymentFailed, WriteTxnFailed, StopFailing
  <2>4. QED
    BY <1>12, <2>1, <2>2, <2>3
       DEF HandlePaymentFailed, WriteTxnFailed, StopFailing, bookingVars, txnVars,
           stripeVars, userVars, raceVars
<1>13. ASSUME NEW i \in Intents, WriteBookingFailed(i)
       PROVE  TypeOK'
  <2>1. intentBooking[i] \in Bookings
    BY <1>13, IntentHasBooking DEF WriteBookingFailed, RefersToRows, EventsRefer
  <2>2. QED
    BY <1>13, <2>1 DEF WriteBookingFailed, WriteStatus, txnVars, stripeVars, userVars, raceVars
<1>14. ASSUME NEW i \in Intents, HandleRefundSucceeded(i)
       PROVE  TypeOK'
  <2>1. intentBooking[i] \in Bookings
    BY <1>14, EventHasIntent, IntentHasBooking DEF HandleRefundSucceeded
  <2>2. inbox' \in [Events -> Nat]
    BY <1>14, InboxTypes DEF HandleRefundSucceeded
  <2>3. status' \in [Bookings -> BookingStatus] /\ revived' \subseteq Bookings
    BY <1>14, <2>1 DEF HandleRefundSucceeded, WriteStatus
  <2>4. QED
    BY <1>14, <2>2, <2>3
       DEF HandleRefundSucceeded, txnVars, stripeVars, userVars, raceVars
<1>15. ASSUME NEW i \in Intents, CancelExpiredPaymentIntent(i)
       PROVE  TypeOK'
  BY <1>15 DEF CancelExpiredPaymentIntent, bookingVars, txnVars, userVars, raceVars
<1>16. ASSUME NEW b \in Bookings, ExpireBookingIfDue(b)
       PROVE  TypeOK'
  BY <1>16 DEF ExpireBookingIfDue, WriteStatus, stripeVars, userVars, raceVars
<1>17. ASSUME NEW b \in Bookings, BookingFallsDue(b) \/ CompleteStay(b)
       PROVE  TypeOK'
  BY <1>17 DEF BookingFallsDue, CompleteStay, WriteStatus, txnVars, stripeVars, userVars, raceVars
<1>18. CASE UNCHANGED vars
  BY <1>18 DEF vars, bookingVars, txnVars, stripeVars, userVars, raceVars
<1>19. QED
  BY <1>1, <1>2, <1>3, <1>4, <1>5, <1>6, <1>7, <1>8, <1>9, <1>10, <1>11, <1>12, <1>13, <1>14,
     <1>15, <1>16, <1>17, <1>18 DEF Next

-----------------------------------------------------------------------------
(* Requests, events and charges refer to what exists.                      *)

\* The state of an intent only moves forward, and a paid intent stays paid.
LEMMA IntentsMoveForward ==
  ASSUME TypeOK, RefersToRows, [Next]_vars, NEW i \in Intents
  PROVE  /\ intentState[i] # "none" => intentState'[i] # "none"
         /\ intentState[i] = "succeeded" => intentState'[i] = "succeeded"
         /\ intentBooking'[i] = IF intentState[i] = "none" /\ intentState'[i] # "none"
                                THEN intentBooking'[i] ELSE intentBooking[i]
<1> USE DEF TypeOK
<1>1. ASSUME NEW u \in Users, NEW j \in Intents, CreateIntent(u, j)
      PROVE  /\ intentState' = [intentState EXCEPT ![j] = "open"] /\ intentState[j] = "none"
             /\ \A k \in Intents \ {j} : intentBooking'[k] = intentBooking[k]
  BY <1>1 DEF CreateIntent
<1>2. ASSUME NEW j \in Intents, Pay(j) \/ CancelExpiredPaymentIntent(j)
      PROVE  /\ intentBooking' = intentBooking
             /\ \/ intentState' = intentState
                \/ intentState' = [intentState EXCEPT ![j] = "succeeded"] /\ intentState[j] = "open"
                \/ intentState' = [intentState EXCEPT ![j] = "canceled"] /\ intentState[j] = "open"
  BY <1>2 DEF Pay, CancelExpiredPaymentIntent
<1>3. CASE UNCHANGED <<intentState, intentBooking>>
  BY <1>3
<1>4. UNCHANGED <<intentState, intentBooking>> \/
      (\E u \in Users, j \in Intents : CreateIntent(u, j)) \/
      (\E j \in Intents : Pay(j) \/ CancelExpiredPaymentIntent(j))
  BY DEF Next, vars, stripeVars, ReadToPay, ReadToCancel, StoreIntent, ReadCharge, RefundForCancel,
         RecordRefund, WriteCancelled, Fail, Decline, SendAgain, HandlePaymentSucceeded,
         HandlePaymentFailed, WriteTxnFailed, WriteBookingFailed, StopFailing,
         HandleRefundSucceeded, ExpireBookingIfDue, BookingFallsDue, CompleteStay
<1>5. QED
  BY <1>1, <1>2, <1>3, <1>4

\* Of the requests.
LEMMA RequestsReferStep ==
  ASSUME TypeOK, RefersToRows, [Next]_vars
  PROVE  RequestsRefer'
<1> SUFFICES ASSUME NEW u \in Users
             PROVE  /\ pc'[u] # "idle" => onBooking'[u] \in Bookings
                    /\ pc'[u] \in {"pay_created", "cancel_charge"} => onIntent'[u] \in Intents
                    /\ pc'[u] = "cancel_charge" => intentState'[onIntent'[u]] = "succeeded"
  BY DEF RequestsRefer
<1>1. /\ pc[u] # "idle" => onBooking[u] \in Bookings
      /\ pc[u] \in {"pay_created", "cancel_charge"} => onIntent[u] \in Intents
      /\ pc[u] = "cancel_charge" => intentState[onIntent[u]] = "succeeded"
  BY DEF RefersToRows, RequestsRefer
<1>2. CASE pc'[u] = pc[u] /\ onBooking'[u] = onBooking[u] /\ onIntent'[u] = onIntent[u]
  BY <1>1, <1>2, IntentsMoveForward
<1>3. ASSUME NEW b \in Bookings, ReadToPay(u, b) \/ ReadToCancel(u, b)
      PROVE  onBooking'[u] \in Bookings /\ pc'[u] \in {"pay_read", "cancel_read", "cancel_write"}
  BY <1>3 DEF ReadToPay, ReadToCancel, Proceed, TypeOK
<1>4. ASSUME NEW i \in Intents, CreateIntent(u, i)
      PROVE  onBooking'[u] \in Bookings /\ pc'[u] = "pay_created" /\ onIntent'[u] \in Intents
  BY <1>1, <1>4 DEF CreateIntent, Proceed, TypeOK
<1>5. CASE ReadCharge(u)
  <2>1. onBooking[u] \in Bookings
    BY <1>1, <1>5 DEF ReadCharge
  <2>2. CASE txnCharge[onBooking[u]] = NoIntent
    BY <1>5, <2>1, <2>2 DEF ReadCharge, Proceed, TypeOK
  <2>3. CASE txnCharge[onBooking[u]] # NoIntent
    <3>1. /\ pc'[u] = "cancel_charge" /\ onBooking'[u] = onBooking[u]
          /\ onIntent'[u] = txnCharge[onBooking[u]] /\ intentState' = intentState
      BY <1>5, <2>3 DEF ReadCharge, Proceed, TypeOK, stripeVars
    <3>2. txnCharge[onBooking[u]] \in Intents /\ intentState[txnCharge[onBooking[u]]] = "succeeded"
      BY <2>1, <2>3 DEF TypeOK, RefersToRows, ChargesRefer
    <3>3. QED
      BY <2>1, <3>1, <3>2
  <2>4. QED
    BY <2>2, <2>3
<1>6. CASE RecordRefund(u) \/ (\E parts \in 1..ChargeParts : RefundForCancel(u, parts))
  <2>1. onBooking'[u] = onBooking[u] /\ pc[u] # "idle" /\ pc'[u] \in {"cancel_refunded", "cancel_write"}
    BY <1>6 DEF RecordRefund, RefundForCancel, Proceed, TypeOK
  <2>2. QED
    BY <1>1, <2>1
<1>7. CASE StoreIntent(u) \/ WriteCancelled(u) \/ Fail(u)
  <2>1. pc'[u] = "idle"
    BY <1>7 DEF StoreIntent, WriteCancelled, Fail, Done, Proceed, TypeOK
  <2>2. QED
    BY <2>1
<1>8. ASSUME NEW v \in Users \ {u}, NEW next, NEW b, NEW i, Proceed(v, next, b, i)
      PROVE  pc'[u] = pc[u] /\ onBooking'[u] = onBooking[u] /\ onIntent'[u] = onIntent[u]
  BY <1>8 DEF Proceed, TypeOK
<1>9. ASSUME NEW v \in Users \ {u},
             \/ \E b \in Bookings : ReadToPay(v, b) \/ ReadToCancel(v, b)
             \/ \E i \in Intents : CreateIntent(v, i)
             \/ StoreIntent(v) \/ ReadCharge(v)
             \/ \E parts \in 1..ChargeParts : RefundForCancel(v, parts)
             \/ RecordRefund(v) \/ WriteCancelled(v) \/ Fail(v)
      PROVE  pc'[u] = pc[u] /\ onBooking'[u] = onBooking[u] /\ onIntent'[u] = onIntent[u]
  BY <1>8, <1>9
     DEF ReadToPay, ReadToCancel, CreateIntent, StoreIntent, ReadCharge, RefundForCancel,
         RecordRefund, WriteCancelled, Fail, Done
<1>10. CASE UNCHANGED userVars
  BY <1>2, <1>10 DEF userVars
<1>11. ASSUME \/ UNCHANGED vars
              \/ \E i \in Intents :
                   \/ Pay(i) \/ Decline(i)
                   \/ \E type \in {"succeeded", "failed", "refunded"} : SendAgain(type, i)
                   \/ HandlePaymentSucceeded(i) \/ HandlePaymentFailed(i) \/ WriteTxnFailed(i)
                   \/ WriteBookingFailed(i) \/ StopFailing(i) \/ HandleRefundSucceeded(i)
                   \/ CancelExpiredPaymentIntent(i)
              \/ \E b \in Bookings : ExpireBookingIfDue(b) \/ BookingFallsDue(b) \/ CompleteStay(b)
       PROVE  UNCHANGED userVars
  BY <1>11
     DEF vars, Pay, Decline, SendAgain, HandlePaymentSucceeded, HandlePaymentFailed, WriteTxnFailed,
         WriteBookingFailed, StopFailing, HandleRefundSucceeded, CancelExpiredPaymentIntent,
         ExpireBookingIfDue, BookingFallsDue, CompleteStay
<1>12. QED
  BY <1>2, <1>3, <1>4, <1>5, <1>6, <1>7, <1>9, <1>10, <1>11 DEF Next

\* An event that is there after one was emitted, or taken, was there before or
\* is the one emitted.
LEMMA InboxCounts ==
  ASSUME NEW box \in [Events -> Nat], NEW i \in Intents, NEW j \in Intents,
         NEW s \in {"succeeded", "failed", "refunded"}, NEW t \in {"succeeded", "failed", "refunded"}
  PROVE  /\ Emitted(box, s, i)[<<t, j>>] > 0 => box[<<t, j>>] > 0 \/ (s = t /\ i = j)
         /\ Taken(box, s, i)[<<t, j>>] > 0 => box[<<t, j>>] > 0
<1>1. <<s, i>> \in Events /\ <<t, j>> \in Events
  BY EventTypes
<1>2. Emitted(box, s, i)[<<t, j>>] > 0 => box[<<t, j>>] > 0 \/ (s = t /\ i = j)
  BY <1>1 DEF Emitted
<1>3. Taken(box, s, i)[<<t, j>>] > 0 => box[<<t, j>>] > 0
  BY <1>1 DEF Taken
<1>4. QED
  BY <1>2, <1>3

\* An event that was not there before is of an intent in the state it reports.
LEMMA NewEvents ==
  ASSUME TypeOK, RefersToRows, [Next]_vars, NEW j \in Intents,
         NEW t \in {"succeeded", "failed", "refunded"}, inbox'[<<t, j>>] > 0
  PROVE  \/ inbox[<<t, j>>] > 0
         \/ intentState'[j] # "none" /\ (t = "succeeded" => intentState'[j] = "succeeded")
<1>0. inbox \in [Events -> Nat] /\ inbox[<<t, j>>] \in Nat
  BY EventTypes DEF TypeOK
<1>1. CASE inbox' = inbox
  BY <1>1
<1>2. ASSUME NEW i \in Intents, NEW s \in {"succeeded", "failed", "refunded"},
             inbox' = Emitted(inbox, s, i)
      PROVE  inbox[<<t, j>>] > 0 \/ (s = t /\ i = j)
  <2>1. Emitted(inbox, s, i)[<<t, j>>] > 0 => inbox[<<t, j>>] > 0 \/ (s = t /\ i = j)
    <3>1. <<s, i>> \in Events /\ <<t, j>> \in Events
      BY EventTypes
    <3>2. QED
      BY <1>0, <3>1 DEF Emitted
  <2>2. QED
    BY <1>2, <2>1
<1>3. ASSUME NEW i \in Intents, NEW s \in {"succeeded", "failed", "refunded"},
             inbox' = Taken(inbox, s, i)
      PROVE  inbox[<<t, j>>] > 0
  BY <1>0, <1>3, InboxCounts
<1>4. ASSUME NEW u \in Users, NEW parts \in 1..ChargeParts, RefundForCancel(u, parts)
      PROVE  inbox[<<t, j>>] > 0 \/ (intentState'[j] # "none" /\ t # "succeeded")
  <2>1. onIntent[u] \in Intents /\ intentState[onIntent[u]] = "succeeded" /\ intentState' = intentState
    BY <1>4 DEF RefundForCancel, RefersToRows, RequestsRefer
  <2>2. inbox' = inbox \/ inbox' = Emitted(inbox, "refunded", onIntent[u])
    BY <1>4 DEF RefundForCancel
  <2>3. QED
    BY <1>1, <1>2, <2>1, <2>2
<1>5. ASSUME NEW i \in Intents, Pay(i)
      PROVE  inbox[<<t, j>>] > 0 \/ intentState'[j] = "succeeded"
  <2>1. inbox' = Emitted(inbox, "succeeded", i) /\ intentState'[i] = "succeeded"
    BY <1>5 DEF Pay, TypeOK
  <2>2. QED
    BY <1>2, <2>1
<1>6. ASSUME NEW i \in Intents, Decline(i)
      PROVE  inbox[<<t, j>>] > 0 \/ (intentState'[j] = "open" /\ t = "failed")
  <2>1. inbox' = Emitted(inbox, "failed", i) /\ intentState'[i] = "open"
    BY <1>6 DEF Decline
  <2>2. QED
    BY <1>2, <2>1
<1>7. ASSUME NEW i \in Intents, NEW type \in {"succeeded", "failed", "refunded"}, SendAgain(type, i)
      PROVE  inbox[<<t, j>>] > 0
  BY <1>2, <1>7 DEF SendAgain
<1>8. ASSUME NEW i \in Intents, HandlePaymentSucceeded(i)
      PROVE  inbox[<<t, j>>] > 0 \/ (intentState'[j] # "none" /\ t # "succeeded")
  <2>1. intentState[i] # "none" /\ intentState' = intentState
    BY <1>8, EventHasIntent DEF HandlePaymentSucceeded
  <2> DEFINE box == Taken(inbox, "succeeded", i)
  <2>2. inbox' = box \/ inbox' = Emitted(box, "refunded", i)
    BY <1>8 DEF HandlePaymentSucceeded, AlreadyProcessed, RefundLatePayment, ConfirmBooking
  <2>3. box \in [Events -> Nat]
    BY <1>8, InboxTypes DEF HandlePaymentSucceeded
  <2>4. box[<<t, j>>] > 0 => inbox[<<t, j>>] > 0
    BY <1>0, InboxCounts
  <2>5. Emitted(box, "refunded", i)[<<t, j>>] > 0 => box[<<t, j>>] > 0 \/ ("refunded" = t /\ i = j)
    <3> HIDE DEF box
    <3> QED BY <2>3, InboxCounts
  <2>6. QED
    BY <2>1, <2>2, <2>4, <2>5
<1>9. ASSUME NEW i \in Intents, HandlePaymentFailed(i) \/ HandleRefundSucceeded(i)
      PROVE  inbox[<<t, j>>] > 0
  BY <1>3, <1>9 DEF HandlePaymentFailed, HandleRefundSucceeded
<1>10. \/ inbox' = inbox
       \/ \E u \in Users : \E parts \in 1..ChargeParts : RefundForCancel(u, parts)
       \/ \E i \in Intents :
            \/ Pay(i) \/ Decline(i)
            \/ \E type \in {"succeeded", "failed", "refunded"} : SendAgain(type, i)
            \/ HandlePaymentSucceeded(i)
            \/ HandlePaymentFailed(i) \/ HandleRefundSucceeded(i)
  BY DEF Next, vars, ReadToPay, ReadToCancel, CreateIntent, StoreIntent, ReadCharge, RecordRefund,
         WriteCancelled, Fail, WriteTxnFailed, WriteBookingFailed, StopFailing,
         CancelExpiredPaymentIntent, ExpireBookingIfDue, BookingFallsDue, CompleteStay
<1>11. ASSUME NEW i \in Intents,
              \E type \in {"succeeded", "failed", "refunded"} : SendAgain(type, i)
       PROVE  inbox[<<t, j>>] > 0
  BY <1>7, <1>11
<1>12. QED
  BY <1>1, <1>4, <1>5, <1>6, <1>8, <1>9, <1>10, <1>11

LEMMA EventsReferStep ==
  ASSUME TypeOK, RefersToRows, [Next]_vars
  PROVE  EventsRefer'
<1> SUFFICES ASSUME NEW i \in Intents
             PROVE  /\ (intentState'[i] = "none") <=> (intentBooking'[i] = NoBooking)
                    /\ \A type \in {"succeeded", "failed", "refunded"} :
                         inbox'[<<type, i>>] > 0 => intentState'[i] # "none"
                    /\ inbox'[<<"succeeded", i>>] > 0 => intentState'[i] = "succeeded"
                    /\ failing'[i] # "no" => intentState'[i] # "none"
  BY DEF EventsRefer
<1>1. /\ (intentState[i] = "none") <=> (intentBooking[i] = NoBooking)
      /\ \A type \in {"succeeded", "failed", "refunded"} :
           inbox[<<type, i>>] > 0 => intentState[i] # "none"
      /\ inbox[<<"succeeded", i>>] > 0 => intentState[i] = "succeeded"
      /\ failing[i] # "no" => intentState[i] # "none"
  BY DEF RefersToRows, EventsRefer
<1>2. /\ \A type \in {"succeeded", "failed", "refunded"} :
           inbox'[<<type, i>>] > 0 => intentState'[i] # "none"
      /\ inbox'[<<"succeeded", i>>] > 0 => intentState'[i] = "succeeded"
  BY <1>1, NewEvents, IntentsMoveForward
<1>3. failing'[i] # "no" => intentState'[i] # "none"
  <2>1. ASSUME NEW j \in Intents, HandlePaymentFailed(j)
        PROVE  failing'[i] # "no" => failing[i] # "no" \/ inbox[<<"failed", i>>] > 0
    BY <2>1 DEF HandlePaymentFailed, TypeOK
  <2>2. ASSUME NEW j \in Intents, WriteTxnFailed(j) \/ WriteBookingFailed(j) \/ StopFailing(j)
        PROVE  failing'[i] # "no" => failing[i] # "no"
    BY <2>2 DEF WriteTxnFailed, WriteBookingFailed, StopFailing, TypeOK
  <2>3. \/ failing' = failing
        \/ \E j \in Intents : HandlePaymentFailed(j)
        \/ \E j \in Intents : WriteTxnFailed(j) \/ WriteBookingFailed(j) \/ StopFailing(j)
    BY DEF Next, vars, ReadToPay, ReadToCancel, CreateIntent, StoreIntent, ReadCharge,
           RefundForCancel, RecordRefund, WriteCancelled, Fail, Pay, Decline, SendAgain,
           HandlePaymentSucceeded, HandleRefundSucceeded, CancelExpiredPaymentIntent,
           ExpireBookingIfDue, BookingFallsDue, CompleteStay
  <2>4. QED
    BY <1>1, <2>1, <2>2, <2>3, IntentsMoveForward
<1>4. (intentState'[i] = "none") <=> (intentBooking'[i] = NoBooking)
  <2>1. ASSUME NEW u \in Users, NEW j \in Intents, CreateIntent(u, j)
        PROVE  (intentState'[i] = "none") <=> (intentBooking'[i] = NoBooking)
    <3>1. onBooking[u] \in Bookings /\ NoBooking \notin Bookings
      BY <2>1, PaymentAssumption DEF CreateIntent, RefersToRows, RequestsRefer
    <3>2. QED
      BY <1>1, <2>1, <3>1 DEF CreateIntent, TypeOK
  <2>2. ASSUME NEW j \in Intents, Pay(j) \/ CancelExpiredPaymentIntent(j)
        PROVE  (intentState'[i] = "none") <=> (intentBooking'[i] = NoBooking)
    BY <1>1, <2>2 DEF Pay, CancelExpiredPaymentIntent, TypeOK
  <2>3. CASE UNCHANGED <<intentState, intentBooking>>
    BY <1>1, <2>3
  <2>4. UNCHANGED <<intentState, intentBooking>> \/
        (\E u \in Users, j \in Intents : CreateIntent(u, j)) \/
        (\E j \in Intents : Pay(j) \/ CancelExpiredPaymentIntent(j))
    BY DEF Next, vars, stripeVars, ReadToPay, ReadToCancel, StoreIntent, ReadCharge, RefundForCancel,
           RecordRefund, WriteCancelled, Fail, Decline, SendAgain, HandlePaymentSucceeded,
           HandlePaymentFailed, WriteTxnFailed, WriteBookingFailed, StopFailing,
           HandleRefundSucceeded, ExpireBookingIfDue, BookingFallsDue, CompleteStay
  <2>5. QED
    BY <2>1, <2>2, <2>3, <2>4
<1>5. QED
  BY <1>2, <1>3, <1>4

LEMMA ChargesReferStep ==
  ASSUME TypeOK, RefersToRows, [Next]_vars
  PROVE  ChargesRefer'
<1> SUFFICES ASSUME NEW b \in Bookings, txnCharge'[b] # NoIntent
             PROVE  intentState'[txnCharge'[b]] = "succeeded"
  BY DEF ChargesRefer
<1>1. CASE txnCharge'[b] = txnCharge[b]
  <2>1. txnCharge[b] \in Intents /\ intentState[txnCharge[b]] = "succeeded"
    BY <1>1 DEF RefersToRows, ChargesRefer, TypeOK
  <2>2. QED
    BY <1>1, <2>1, IntentsMoveForward
<1>2. ASSUME NEW i \in Intents, HandlePaymentSucceeded(i)
      PROVE  intentState[i] = "succeeded" /\ txnCharge'[b] \in {txnCharge[b], i}
  BY <1>2
     DEF HandlePaymentSucceeded, AlreadyProcessed, RefundLatePayment, ConfirmBooking, txnVars,
         RefersToRows, EventsRefer, TypeOK
<1>3. txnCharge' = txnCharge \/ (\E i \in Intents : HandlePaymentSucceeded(i))
  BY DEF Next, vars, txnVars, ReadToPay, ReadToCancel, CreateIntent, StoreIntent, ReadCharge,
         RefundForCancel, RecordRefund, WriteCancelled, Fail, Pay, Decline, SendAgain,
         HandlePaymentFailed, WriteTxnFailed, WriteBookingFailed, StopFailing,
         HandleRefundSucceeded, CancelExpiredPaymentIntent, ExpireBookingIfDue, BookingFallsDue,
         CompleteStay
<1>4. QED
  BY <1>1, <1>2, <1>3, IntentsMoveForward

LEMMA RefersStep ==
  ASSUME TypeOK, RefersToRows, [Next]_vars
  PROVE  RefersToRows'
BY RequestsReferStep, EventsReferStep, ChargesReferStep DEF RefersToRows

-----------------------------------------------------------------------------
(* The life of a booking.                                                  *)

Paid(b) == \E i \in Intents : intentBooking[i] = b /\ intentState[i] = "succeeded"

\* The three things a step does to a booking.
Rewritten(b, s) ==
  /\ WriteStatus(b, s)
  /\ rooms' = rooms
  /\ s = "confirmed" => Paid(b)
  /\ s = "completed" => status[b] = "confirmed"

Expired(b) ==
  /\ status[b] = "pending_payment"
  /\ WriteStatus(b, "expired")
  /\ rooms' = [rooms EXCEPT ![b] = @ - 1]

Finals == {"cancelled", "payment_failed", "confirmed", "completed"}

LEMMA BookingStep ==
  ASSUME TypeOK, RefersToRows, [Next]_vars
  PROVE  \/ UNCHANGED <<status, rooms, revived>>
         \/ \E b \in Bookings : \E s \in Finals : Rewritten(b, s)
         \/ \E b \in Bookings : Expired(b)
<1> USE DEF Finals
<1>1. ASSUME NEW u \in Users, WriteCancelled(u)
      PROVE  \E b \in Bookings : Rewritten(b, "cancelled")
  <2>1. onBooking[u] \in Bookings
    BY <1>1 DEF WriteCancelled, RefersToRows, RequestsRefer
  <2>2. QED
    BY <1>1, <2>1 DEF WriteCancelled, Rewritten
<1>2. ASSUME NEW i \in Intents, HandlePaymentSucceeded(i)
      PROVE  \/ UNCHANGED <<status, rooms, revived>>
             \/ \E b \in Bookings : Rewritten(b, "confirmed")
  <2>1. intentBooking[i] \in Bookings
    BY <1>2, EventHasIntent, IntentHasBooking DEF HandlePaymentSucceeded
  <2>2. intentState[i] = "succeeded"
    BY <1>2 DEF HandlePaymentSucceeded, RefersToRows, EventsRefer
  <2>3. CASE ConfirmBooking(i)
    BY <1>2, <2>1, <2>2, <2>3 DEF HandlePaymentSucceeded, ConfirmBooking, Rewritten, Paid
  <2>4. CASE AlreadyProcessed(i) \/ RefundLatePayment(i)
    BY <1>2, <2>4 DEF HandlePaymentSucceeded, AlreadyProcessed, RefundLatePayment
  <2>5. QED
    BY <1>2, <2>3, <2>4 DEF HandlePaymentSucceeded
<1>3. ASSUME NEW i \in Intents, WriteBookingFailed(i)
      PROVE  \E b \in Bookings : Rewritten(b, "payment_failed")
  <2>1. intentBooking[i] \in Bookings
    BY <1>3, IntentHasBooking DEF WriteBookingFailed, RefersToRows, EventsRefer
  <2>2. QED
    BY <1>3, <2>1 DEF WriteBookingFailed, Rewritten
<1>4. ASSUME NEW i \in Intents, HandleRefundSucceeded(i)
      PROVE  \/ UNCHANGED <<status, rooms, revived>>
             \/ \E b \in Bookings : Rewritten(b, "cancelled")
  <2>1. intentBooking[i] \in Bookings
    BY <1>4, EventHasIntent, IntentHasBooking DEF HandleRefundSucceeded
  <2>2. QED
    BY <1>4, <2>1 DEF HandleRefundSucceeded, Rewritten
<1>5. ASSUME NEW b \in Bookings, CompleteStay(b)
      PROVE  Rewritten(b, "completed")
  BY <1>5 DEF CompleteStay, Rewritten
<1>6. ASSUME NEW b \in Bookings, ExpireBookingIfDue(b)
      PROVE  Expired(b)
  BY <1>6 DEF ExpireBookingIfDue, Expired
<1>7. \/ UNCHANGED <<status, rooms, revived>>
      \/ \E u \in Users : WriteCancelled(u)
      \/ \E i \in Intents : HandlePaymentSucceeded(i) \/ WriteBookingFailed(i) \/ HandleRefundSucceeded(i)
      \/ \E b \in Bookings : CompleteStay(b) \/ ExpireBookingIfDue(b)
  BY DEF Next, vars, bookingVars, ReadToPay, ReadToCancel, CreateIntent, StoreIntent, ReadCharge,
         RefundForCancel, RecordRefund, Fail, Pay, Decline, SendAgain, HandlePaymentFailed,
         WriteTxnFailed, StopFailing, CancelExpiredPaymentIntent, BookingFallsDue
<1>8. QED
  BY <1>1, <1>2, <1>3, <1>4, <1>5, <1>6, <1>7

LEMMA RoomsFollowStageStep ==
  ASSUME TypeOK, RefersToRows, RoomsFollowStage, [Next]_vars
  PROVE  RoomsFollowStage'
<1> USE DEF RoomsFollowStage, TypeOK
<1>1. CASE UNCHANGED <<status, rooms, revived>>
  BY <1>1
<1>2. ASSUME NEW b \in Bookings, NEW s \in Finals, Rewritten(b, s)
      PROVE  RoomsFollowStage'
  BY <1>2 DEF Rewritten, WriteStatus, Finals
<1>3. ASSUME NEW b \in Bookings, Expired(b)
      PROVE  RoomsFollowStage'
  BY <1>3 DEF Expired, WriteStatus
<1>4. QED
  BY <1>1, <1>2, <1>3, BookingStep

\* A booking that has a paid intent keeps it.
LEMMA PaidStays ==
  ASSUME TypeOK, RefersToRows, [Next]_vars, NEW b \in Bookings, Paid(b)
  PROVE  Paid(b)'
<1>1. PICK i \in Intents : intentBooking[i] = b /\ intentState[i] = "succeeded"
  BY DEF Paid
<1>2. intentState'[i] = "succeeded" /\ intentBooking'[i] = intentBooking[i]
  BY <1>1, IntentsMoveForward
<1>3. QED
  BY <1>1, <1>2 DEF Paid

LEMMA ConfirmedIsPaidForStep ==
  ASSUME TypeOK, RefersToRows, RoomsFollowStage, ConfirmedIsPaidFor, [Next]_vars
  PROVE  ConfirmedIsPaidFor'
<1> SUFFICES ASSUME NEW b \in Bookings, status'[b] \in {"confirmed", "completed"}
             PROVE  Paid(b)' /\ (rooms'[b] = 1 \/ b \in revived')
  BY DEF ConfirmedIsPaidFor, Paid
<1>1. rooms'[b] = 1 \/ b \in revived'
  BY RoomsFollowStageStep DEF RoomsFollowStage
<1>2. status[b] \in {"confirmed", "completed"} => Paid(b)
  BY DEF ConfirmedIsPaidFor, Paid
<1>3. Paid(b)
  <2>1. CASE UNCHANGED <<status, rooms, revived>>
    BY <1>2, <2>1
  <2>2. ASSUME NEW c \in Bookings, NEW s \in Finals, Rewritten(c, s)
        PROVE  Paid(b)
    <3>1. CASE b = c
      BY <1>2, <2>2, <3>1 DEF Rewritten, WriteStatus, Finals, TypeOK
    <3>2. CASE b # c
      BY <1>2, <2>2, <3>2 DEF Rewritten, WriteStatus, TypeOK
    <3>3. QED
      BY <3>1, <3>2
  <2>3. ASSUME NEW c \in Bookings, Expired(c)
        PROVE  Paid(b)
    BY <1>2, <2>3 DEF Expired, WriteStatus, TypeOK
  <2>4. QED
    BY <2>1, <2>2, <2>3, BookingStep
<1>4. QED
  BY <1>1, <1>3, PaidStays

-----------------------------------------------------------------------------
(* One request pays, unless two raced.                                     *)

\* User u has created intent i for booking b and not stored it yet.
HasCreated(u, b, i) == pc[u] = "pay_created" /\ onBooking[u] = b /\ onIntent[u] = i

\* A step that starts no request to pay for b, nor takes one further.
Quiet(b) ==
  /\ \A u \in Users : PayingFor(u, b)' => PayingFor(u, b)
  /\ \A u \in Users, i \in Intents : HasCreated(u, b, i) => HasCreated(u, b, i)'
  /\ txnIntent'[b] = txnIntent[b]
  /\ orphaned \subseteq orphaned'
  /\ intentBooking' = intentBooking

OneRequestPaysFor(b) ==
  /\ \A u, v \in Users : PayingFor(u, b) /\ PayingFor(v, b) => u = v
  /\ \A u \in Users : PayingFor(u, b) => txnIntent[b] = NoIntent
  /\ \A i \in Intents \ orphaned : intentBooking[i] = b =>
       txnIntent[b] = i \/ \E u \in Users : HasCreated(u, b, i)

LEMMA QuietKeeps ==
  ASSUME NEW b \in Bookings, OneRequestPaysFor(b), Quiet(b)
  PROVE  OneRequestPaysFor(b)'
<1>1. \A u, v \in Users : PayingFor(u, b)' /\ PayingFor(v, b)' => u = v
  BY DEF OneRequestPaysFor, Quiet
<1>2. \A u \in Users : PayingFor(u, b)' => txnIntent'[b] = NoIntent
  BY DEF OneRequestPaysFor, Quiet
<1>3. ASSUME NEW i \in Intents, i \notin orphaned', intentBooking'[i] = b
      PROVE  txnIntent'[b] = i \/ \E u \in Users : HasCreated(u, b, i)'
  <2>1. i \notin orphaned /\ intentBooking[i] = b
    BY <1>3 DEF Quiet
  <2>2. txnIntent[b] = i \/ \E u \in Users : HasCreated(u, b, i)
    BY <2>1 DEF OneRequestPaysFor
  <2>3. QED
    BY <2>2 DEF Quiet
<1>4. QED
  BY <1>1, <1>2, <1>3 DEF OneRequestPaysFor

\* The request that starts is the only one, and finds no intent of b.
LEMMA ReadToPayKeeps ==
  ASSUME TypeOK, NEW b \in Bookings, OneRequestPaysFor(b), NEW u \in Users, ReadToPay(u, b),
         b \notin raced'
  PROVE  OneRequestPaysFor(b)'
<1>1. \A v \in Users : ~PayingFor(v, b)
  BY DEF ReadToPay, TypeOK
<1>2. /\ pc' = [pc EXCEPT ![u] = "pay_read"] /\ onBooking' = [onBooking EXCEPT ![u] = b]
      /\ onIntent' = [onIntent EXCEPT ![u] = NoIntent]
      /\ txnIntent' = txnIntent /\ txnIntent[b] = NoIntent
      /\ orphaned' = orphaned /\ intentBooking' = intentBooking
  BY DEF ReadToPay, Proceed, txnVars, stripeVars
<1>3. \A v \in Users : PayingFor(v, b)' => v = u
  BY <1>1, <1>2 DEF PayingFor, TypeOK
<1>4. ASSUME NEW i \in Intents, i \notin orphaned', intentBooking'[i] = b
      PROVE  FALSE
  BY <1>1, <1>2, <1>4, PaymentAssumption DEF OneRequestPaysFor, HasCreated, PayingFor
<1>5. QED
  BY <1>2, <1>3, <1>4 DEF OneRequestPaysFor

\* The request goes on with the intent it created; the intent was nobody's.
LEMMA CreateIntentKeeps ==
  ASSUME TypeOK, NEW b \in Bookings, OneRequestPaysFor(b),
         NEW u \in Users, NEW j \in Intents, CreateIntent(u, j)
  PROVE  OneRequestPaysFor(b)'
<1>1. /\ pc[u] = "pay_read" /\ pc' = [pc EXCEPT ![u] = "pay_created"]
      /\ onBooking' = [onBooking EXCEPT ![u] = onBooking[u]]
      /\ onIntent' = [onIntent EXCEPT ![u] = j]
      /\ txnIntent' = txnIntent /\ orphaned' = orphaned
      /\ intentBooking' = [intentBooking EXCEPT ![j] = onBooking[u]]
  BY DEF CreateIntent, Proceed, txnVars, raceVars
<1>2. \A v \in Users : PayingFor(v, b)' <=> PayingFor(v, b)
  BY <1>1 DEF PayingFor, TypeOK
<1>3. ASSUME NEW i \in Intents, i \notin orphaned', intentBooking'[i] = b
      PROVE  txnIntent'[b] = i \/ \E v \in Users : HasCreated(v, b, i)'
  <2>1. CASE i = j
    <3>1. onBooking[u] = b
      BY <1>1, <1>3, <2>1 DEF TypeOK
    <3>2. HasCreated(u, b, i)'
      BY <1>1, <2>1, <3>1 DEF HasCreated, TypeOK
    <3>3. QED
      BY <3>2
  <2>2. CASE i # j
    <3>1. intentBooking[i] = b /\ i \notin orphaned
      BY <1>1, <1>3, <2>2 DEF TypeOK
    <3>2. CASE txnIntent[b] = i
      BY <1>1, <3>2
    <3>3. ASSUME NEW v \in Users, HasCreated(v, b, i)
          PROVE  HasCreated(v, b, i)'
      BY <1>1, <3>3 DEF HasCreated, TypeOK
    <3>4. QED
      BY <3>1, <3>2, <3>3 DEF OneRequestPaysFor
  <2>3. QED
    BY <2>1, <2>2
<1>4. QED
  BY <1>1, <1>2, <1>3 DEF OneRequestPaysFor

\* The intent is stored where none was, and the request is over.
LEMMA StoreIntentKeeps ==
  ASSUME TypeOK, RefersToRows, NEW b \in Bookings, OneRequestPaysFor(b),
         NEW u \in Users, onBooking[u] = b, StoreIntent(u)
  PROVE  OneRequestPaysFor(b)'
<1>1. /\ pc[u] = "pay_created" /\ pc' = [pc EXCEPT ![u] = "idle"]
      /\ onBooking' = [onBooking EXCEPT ![u] = NoBooking]
      /\ txnIntent' = [txnIntent EXCEPT ![b] = onIntent[u]]
      /\ orphaned' = orphaned /\ intentBooking' = intentBooking
  BY DEF StoreIntent, Done, Proceed, raceVars, stripeVars
<1>2. PayingFor(u, b)
  BY <1>1 DEF PayingFor
<1>3. \A v \in Users : ~PayingFor(v, b)'
  BY <1>1, <1>2 DEF OneRequestPaysFor, PayingFor, TypeOK
<1>4. ASSUME NEW i \in Intents, i \notin orphaned', intentBooking'[i] = b
      PROVE  txnIntent'[b] = i
  <2>1. txnIntent[b] = NoIntent
    BY <1>2 DEF OneRequestPaysFor
  <2>2. PICK v \in Users : HasCreated(v, b, i)
    BY <1>1, <1>4, <2>1, PaymentAssumption DEF OneRequestPaysFor
  <2>3. v = u
    BY <1>2, <2>2 DEF OneRequestPaysFor, PayingFor, HasCreated
  <2>4. QED
    BY <1>1, <2>2, <2>3 DEF HasCreated, TypeOK
<1>5. QED
  BY <1>3, <1>4 DEF OneRequestPaysFor

\* The request stops; an intent it had created becomes an orphan.
LEMMA FailKeeps ==
  ASSUME TypeOK, NEW b \in Bookings, OneRequestPaysFor(b), NEW u \in Users, Fail(u)
  PROVE  OneRequestPaysFor(b)'
<1>1. /\ pc' = [pc EXCEPT ![u] = "idle"] /\ onBooking' = [onBooking EXCEPT ![u] = NoBooking]
      /\ onIntent' = [onIntent EXCEPT ![u] = NoIntent]
      /\ orphaned' = IF pc[u] = "pay_created" THEN orphaned \cup {onIntent[u]} ELSE orphaned
      /\ txnIntent' = txnIntent /\ intentBooking' = intentBooking
  BY DEF Fail, Done, Proceed, txnVars, stripeVars
<1>2. \A v \in Users : PayingFor(v, b)' => PayingFor(v, b)
  BY <1>1 DEF PayingFor, TypeOK
<1>3. ASSUME NEW i \in Intents, i \notin orphaned', intentBooking'[i] = b
      PROVE  txnIntent'[b] = i \/ \E v \in Users : HasCreated(v, b, i)'
  <2>1. i \notin orphaned /\ intentBooking[i] = b
    BY <1>1, <1>3
  <2>2. CASE txnIntent[b] = i
    BY <1>1, <2>2
  <2>3. ASSUME NEW v \in Users, HasCreated(v, b, i)
        PROVE  HasCreated(v, b, i)'
    <3>1. v # u
      BY <1>1, <1>3, <2>3 DEF HasCreated
    <3>2. QED
      BY <1>1, <2>3, <3>1 DEF HasCreated, TypeOK
  <2>4. QED
    BY <2>1, <2>2, <2>3 DEF OneRequestPaysFor
<1>4. QED
  BY <1>1, <1>2, <1>3 DEF OneRequestPaysFor

LEMMA OtherStepsAreQuiet ==
  ASSUME TypeOK, [Next]_vars, NEW b \in Bookings
  PROVE  \/ Quiet(b)
         \/ \E u \in Users :
              \/ ReadToPay(u, b)
              \/ \E j \in Intents : CreateIntent(u, j)
              \/ onBooking[u] = b /\ StoreIntent(u)
              \/ Fail(u)
<1> USE DEF Quiet, PayingFor, HasCreated, TypeOK
<1>1. ASSUME NEW u \in Users, NEW c \in Bookings, c # b, ReadToPay(u, c)
      PROVE  Quiet(b)
  BY <1>1 DEF ReadToPay, Proceed, txnVars, stripeVars
<1>2. ASSUME NEW u \in Users, NEW c \in Bookings, ReadToCancel(u, c)
      PROVE  Quiet(b)
  BY <1>2 DEF ReadToCancel, Proceed, txnVars, stripeVars, raceVars
<1>3. ASSUME NEW u \in Users, onBooking[u] # b, StoreIntent(u)
      PROVE  Quiet(b)
  BY <1>3 DEF StoreIntent, Done, Proceed, stripeVars, raceVars
<1>4. ASSUME NEW u \in Users, ReadCharge(u) \/ RecordRefund(u) \/ WriteCancelled(u)
      PROVE  Quiet(b)
  BY <1>4 DEF ReadCharge, RecordRefund, WriteCancelled, Done, Proceed, txnVars, stripeVars, raceVars
<1>5. ASSUME NEW u \in Users, NEW parts \in 1..ChargeParts, RefundForCancel(u, parts)
      PROVE  Quiet(b)
  BY <1>5 DEF RefundForCancel, Proceed, txnVars, raceVars
<1>6. CASE UNCHANGED <<userVars, txnIntent, orphaned, intentBooking>>
  BY <1>6 DEF userVars
<1>7. \/ UNCHANGED <<userVars, txnIntent, orphaned, intentBooking>>
      \/ \E u \in Users :
           \/ \E c \in Bookings : ReadToPay(u, c) \/ ReadToCancel(u, c)
           \/ \E i \in Intents : CreateIntent(u, i)
           \/ StoreIntent(u) \/ Fail(u)
           \/ ReadCharge(u) \/ RecordRefund(u) \/ WriteCancelled(u)
           \/ \E parts \in 1..ChargeParts : RefundForCancel(u, parts)
  BY DEF Next, vars, txnVars, stripeVars, raceVars, Pay, Decline, SendAgain,
         HandlePaymentSucceeded, AlreadyProcessed, RefundLatePayment, ConfirmBooking,
         HandlePaymentFailed, WriteTxnFailed, WriteBookingFailed, StopFailing, HandleRefundSucceeded,
         CancelExpiredPaymentIntent, ExpireBookingIfDue, BookingFallsDue, CompleteStay
<1> HIDE DEF Quiet, PayingFor, HasCreated, TypeOK
<1>8. QED
  BY <1>1, <1>2, <1>3, <1>4, <1>5, <1>6, <1>7

\* A race stays on record.
LEMMA RacesStay ==
  ASSUME [Next]_vars
  PROVE  raced \subseteq raced'
BY DEF Next, vars, raceVars, ReadToPay, ReadToCancel, CreateIntent, StoreIntent, ReadCharge,
       RefundForCancel, RecordRefund, WriteCancelled, Fail, Pay, Decline, SendAgain,
       HandlePaymentSucceeded, HandlePaymentFailed, WriteTxnFailed, WriteBookingFailed, StopFailing,
       HandleRefundSucceeded, CancelExpiredPaymentIntent, ExpireBookingIfDue, BookingFallsDue,
       CompleteStay

LEMMA OneRequestPaysStep ==
  ASSUME TypeOK, RefersToRows, OneRequestPays, [Next]_vars
  PROVE  OneRequestPays'
<1> SUFFICES ASSUME NEW b \in Bookings, b \notin raced'
             PROVE  OneRequestPaysFor(b)'
  BY DEF OneRequestPays, OneRequestPaysFor, HasCreated
<1>1. OneRequestPaysFor(b)
  BY RacesStay DEF OneRequestPays, OneRequestPaysFor, HasCreated
<1>2. QED
  BY <1>1, OtherStepsAreQuiet, QuietKeeps, ReadToPayKeeps, CreateIntentKeeps, StoreIntentKeeps,
     FailKeeps

-----------------------------------------------------------------------------
(* Charges and refunds.                                                    *)

\* Which steps touch the money, and which of them write a transaction only.
LEMMA MoneySteps ==
  ASSUME [Next]_vars
  PROVE  \/ UNCHANGED <<txnStatus, txnCharge, refunded>>
         \/ \E i \in Intents : HandlePaymentSucceeded(i)
         \/ \E u \in Users, parts \in 1..ChargeParts : RefundForCancel(u, parts)
         \/ \E u \in Users : RecordRefund(u)
         \/ \E i \in Intents : WriteTxnFailed(i)
         \/ \E b \in Bookings : ExpireBookingIfDue(b)
BY DEF Next, vars, txnVars, stripeVars, ReadToPay, ReadToCancel, CreateIntent, StoreIntent,
       ReadCharge, WriteCancelled, Fail, Pay, Decline, SendAgain, HandlePaymentFailed,
       WriteBookingFailed, StopFailing, HandleRefundSucceeded, CancelExpiredPaymentIntent,
       BookingFallsDue, CompleteStay

\* What was refunded stays refunded.
LEMMA RefundsGrow ==
  ASSUME TypeOK, RefersToRows, [Next]_vars, NEW i \in Intents, refunded[i] > 0
  PROVE  refunded'[i] > 0
<1>0. refunded \in [Intents -> 0..ChargeParts] /\ ChargeParts \in Nat \ {0}
  BY PaymentAssumption DEF TypeOK
<1>1. ASSUME NEW j \in Intents, HandlePaymentSucceeded(j) PROVE refunded'[i] > 0
  BY <1>0, <1>1
  DEF HandlePaymentSucceeded, AlreadyProcessed, RefundLatePayment, ConfirmBooking
<1>2. ASSUME NEW u \in Users, NEW parts \in 1..ChargeParts, RefundForCancel(u, parts)
      PROVE  refunded'[i] > 0
  BY <1>0, <1>2 DEF RefundForCancel
<1> QED
  BY <1>1, <1>2, MoneySteps
  DEF RecordRefund, WriteTxnFailed, ExpireBookingIfDue, stripeVars

\* The charge of a booking is written when its success is handled.
LEMMA ChargeStep ==
  ASSUME TypeOK, RefersToRows, [Next]_vars, NEW b \in Bookings, txnCharge'[b] # txnCharge[b]
  PROVE  \E i \in Intents : /\ HandlePaymentSucceeded(i)
                            /\ RefundLatePayment(i) \/ ConfirmBooking(i)
                            /\ intentBooking[i] = b /\ intentState[i] = "succeeded"
                            /\ txnCharge'[b] = i
<1>1. PICK i \in Intents : HandlePaymentSucceeded(i)
  BY MoneySteps DEF RefundForCancel, RecordRefund, WriteTxnFailed, ExpireBookingIfDue, txnVars
<1>2. RefundLatePayment(i) \/ ConfirmBooking(i)
  BY <1>1 DEF HandlePaymentSucceeded, AlreadyProcessed, txnVars
<1>3. intentBooking[i] = b /\ txnCharge'[b] = i
  BY <1>2 DEF RefundLatePayment, ConfirmBooking, TypeOK
<1>4. intentState[i] = "succeeded"
  BY <1>1 DEF HandlePaymentSucceeded, RefersToRows, EventsRefer
<1> QED
  BY <1>1, <1>2, <1>3, <1>4

\* A booking never becomes pending, and expires only when it was.
LEMMA StatusStep ==
  ASSUME TypeOK, RefersToRows, [Next]_vars, NEW b \in Bookings, status'[b] # status[b]
  PROVE  /\ status'[b] # "pending_payment"
         /\ status'[b] = "expired" => status[b] = "pending_payment"
<1>1. CASE UNCHANGED <<status, rooms, revived>>
  BY <1>1
<1>2. ASSUME NEW c \in Bookings, NEW s \in Finals, Rewritten(c, s)
      PROVE  status'[b] \in Finals
  BY <1>2 DEF Rewritten, WriteStatus, TypeOK
<1>3. ASSUME NEW c \in Bookings, Expired(c)
      PROVE  status'[b] = "expired" /\ status[b] = "pending_payment"
  BY <1>3 DEF Expired, WriteStatus, TypeOK
<1> QED
  BY <1>1, <1>2, <1>3, BookingStep DEF Finals

\* An intent that has a booking keeps it.
LEMMA BelongingStays ==
  ASSUME TypeOK, RefersToRows, [Next]_vars, NEW i \in Intents, NEW b \in Bookings,
         intentBooking[i] = b
  PROVE  intentBooking'[i] = b
<1>1. intentState[i] # "none"
  BY PaymentAssumption DEF RefersToRows, EventsRefer
<1> QED
  BY <1>1, IntentsMoveForward

LEMMA ChargesBelongStep ==
  ASSUME TypeOK, RefersToRows, ChargesBelong, [Next]_vars
  PROVE  ChargesBelong'
<1> SUFFICES ASSUME NEW b \in Bookings
             PROVE  /\ status'[b] = "pending_payment" => txnCharge'[b] = NoIntent
                    /\ txnStatus'[b] = "completed" => txnCharge'[b] # NoIntent
                    /\ txnCharge'[b] # NoIntent => intentBooking'[txnCharge'[b]] = b
  BY DEF ChargesBelong
<1>0. /\ status[b] = "pending_payment" => txnCharge[b] = NoIntent
      /\ txnStatus[b] = "completed" => txnCharge[b] # NoIntent
      /\ txnCharge[b] # NoIntent => intentBooking[txnCharge[b]] = b
      /\ txnCharge[b] # NoIntent => txnCharge[b] \in Intents
  BY DEF ChargesBelong, TypeOK
<1>1. status'[b] = "pending_payment" => status[b] = "pending_payment"
  BY StatusStep
<1>2. CASE txnCharge'[b] # txnCharge[b]
  <2>1. PICK i \in Intents : /\ HandlePaymentSucceeded(i)
                             /\ RefundLatePayment(i) \/ ConfirmBooking(i)
                             /\ intentBooking[i] = b /\ txnCharge'[b] = i
    BY <1>2, ChargeStep
  <2>2. intentBooking'[i] = b /\ i # NoIntent
    BY <2>1, BelongingStays, PaymentAssumption
  <2>3. status'[b] # "pending_payment"
    BY <2>1 DEF RefundLatePayment, ConfirmBooking, WriteStatus, TypeOK
  <2> QED
    BY <2>1, <2>2, <2>3
<1>3. CASE txnCharge'[b] = txnCharge[b]
  <2>1. txnStatus'[b] = "completed" => txnCharge[b] # NoIntent
    <3>1. CASE txnStatus'[b] = txnStatus[b]
      BY <1>0, <3>1
    <3>2. ASSUME NEW i \in Intents, HandlePaymentSucceeded(i),
                 txnStatus'[b] # txnStatus[b], txnStatus'[b] = "completed"
          PROVE  txnCharge[b] # NoIntent
      <4>1. ConfirmBooking(i) /\ intentBooking[i] = b
        BY <3>2
        DEF HandlePaymentSucceeded, AlreadyProcessed, RefundLatePayment, ConfirmBooking,
            txnVars, TypeOK
      <4>2. txnCharge'[b] = i
        BY <4>1 DEF ConfirmBooking, TypeOK
      <4> QED
        BY <1>3, <4>2, PaymentAssumption
    <3>3. ASSUME NEW u \in Users, RecordRefund(u), txnStatus'[b] # txnStatus[b]
          PROVE  txnStatus'[b] # "completed"
      BY <3>3 DEF RecordRefund, TypeOK
    <3>4. ASSUME NEW i \in Intents, WriteTxnFailed(i), txnStatus'[b] # txnStatus[b]
          PROVE  txnStatus'[b] # "completed"
      BY <3>4 DEF WriteTxnFailed, TypeOK
    <3>5. ASSUME NEW c \in Bookings, ExpireBookingIfDue(c), txnStatus'[b] # txnStatus[b]
          PROVE  txnStatus'[b] # "completed"
      BY <3>5 DEF ExpireBookingIfDue, TypeOK
    <3> QED
      BY <3>1, <3>2, <3>3, <3>4, <3>5, MoneySteps DEF RefundForCancel, txnVars
  <2>2. txnCharge[b] # NoIntent => intentBooking'[txnCharge[b]] = b
    BY <1>0, BelongingStays
  <2> QED
    BY <1>0, <1>1, <1>3, <2>1, <2>2
<1> QED
  BY <1>2, <1>3

\* Only the requests themselves ask for and record refunds.
LEMMA RefundsBelongStep ==
  ASSUME TypeOK, RefersToRows, ChargesBelong, RefundsBelong, [Next]_vars
  PROVE  RefundsBelong'
<1> SUFFICES ASSUME NEW u \in Users
             PROVE  /\ pc'[u] = "cancel_charge" => intentBooking'[onIntent'[u]] = onBooking'[u]
                    /\ pc'[u] = "cancel_refunded" =>
                         \E i \in Intents : intentBooking'[i] = onBooking'[u] /\ refunded'[i] > 0
  BY DEF RefundsBelong
<1>0. /\ pc[u] = "cancel_charge" => intentBooking[onIntent[u]] = onBooking[u]
      /\ pc[u] = "cancel_refunded" =>
           \E i \in Intents : intentBooking[i] = onBooking[u] /\ refunded[i] > 0
      /\ pc[u] # "idle" => onBooking[u] \in Bookings
      /\ pc[u] = "cancel_charge" => onIntent[u] \in Intents
  BY DEF RefundsBelong, RefersToRows, RequestsRefer
<1>1. CASE pc'[u] = pc[u] /\ onBooking'[u] = onBooking[u] /\ onIntent'[u] = onIntent[u]
  BY <1>0, <1>1, BelongingStays, RefundsGrow
<1>2. CASE ReadCharge(u)
  <2>1. onBooking[u] \in Bookings
    BY <1>0, <1>2 DEF ReadCharge
  <2>2. /\ pc'[u] # "cancel_refunded"
        /\ pc'[u] = "cancel_charge" =>
             /\ onBooking'[u] = onBooking[u] /\ onIntent'[u] = txnCharge[onBooking[u]]
             /\ txnCharge[onBooking[u]] # NoIntent
        /\ intentBooking' = intentBooking
    BY <1>2 DEF ReadCharge, Proceed, TypeOK, stripeVars
  <2> QED
    BY <2>1, <2>2 DEF ChargesBelong
<1>3. ASSUME NEW parts \in 1..ChargeParts, RefundForCancel(u, parts)
      PROVE  /\ pc'[u] # "cancel_charge"
             /\ pc'[u] = "cancel_refunded" =>
                  \E i \in Intents : intentBooking'[i] = onBooking'[u] /\ refunded'[i] > 0
  <2> DEFINE i == onIntent[u]
  <2>1. i \in Intents /\ intentBooking[i] = onBooking[u] /\ intentBooking' = intentBooking
    BY <1>0, <1>3 DEF RefundForCancel
  <2>2. refunded[i] \in 0..ChargeParts /\ ChargeParts \in Nat
    BY <2>1, PaymentAssumption DEF TypeOK
  <2>3. CASE refunded' = [refunded EXCEPT ![i] = @ + parts]
             /\ Proceed(u, "cancel_refunded", onBooking[u], NoIntent)
    <3>1. refunded'[i] > 0
      BY <2>1, <2>2, <2>3 DEF TypeOK
    <3>2. onBooking'[u] = onBooking[u] /\ pc'[u] = "cancel_refunded"
      BY <2>3 DEF Proceed, TypeOK
    <3> QED
      BY <2>1, <3>1, <3>2
  <2>4. CASE Proceed(u, "cancel_write", onBooking[u], NoIntent)
    BY <2>4 DEF Proceed, TypeOK
  <2> QED
    BY <1>3, <2>3, <2>4 DEF RefundForCancel
<1>4. CASE \/ \E b \in Bookings : ReadToPay(u, b) \/ ReadToCancel(u, b)
           \/ \E i \in Intents : CreateIntent(u, i)
           \/ StoreIntent(u) \/ RecordRefund(u) \/ WriteCancelled(u) \/ Fail(u)
  <2>1. pc'[u] \notin {"cancel_charge", "cancel_refunded"}
    BY <1>4
    DEF ReadToPay, ReadToCancel, CreateIntent, StoreIntent, RecordRefund, WriteCancelled, Fail,
        Done, Proceed, TypeOK
  <2> QED
    BY <2>1
<1>5. ASSUME NEW v \in Users \ {u}, NEW next, NEW b, NEW i, Proceed(v, next, b, i)
      PROVE  pc'[u] = pc[u] /\ onBooking'[u] = onBooking[u] /\ onIntent'[u] = onIntent[u]
  BY <1>5 DEF Proceed, TypeOK
<1>6. ASSUME NEW v \in Users \ {u},
             \/ \E b \in Bookings : ReadToPay(v, b) \/ ReadToCancel(v, b)
             \/ \E i \in Intents : CreateIntent(v, i)
             \/ StoreIntent(v) \/ ReadCharge(v)
             \/ \E parts \in 1..ChargeParts : RefundForCancel(v, parts)
             \/ RecordRefund(v) \/ WriteCancelled(v) \/ Fail(v)
      PROVE  pc'[u] = pc[u] /\ onBooking'[u] = onBooking[u] /\ onIntent'[u] = onIntent[u]
  BY <1>5, <1>6
     DEF ReadToPay, ReadToCancel, CreateIntent, StoreIntent, ReadCharge, RefundForCancel,
         RecordRefund, WriteCancelled, Fail, Done
<1>7. CASE \/ UNCHANGED vars
           \/ \E i \in Intents :
                \/ Pay(i) \/ Decline(i)
                \/ \E type \in {"succeeded", "failed", "refunded"} : SendAgain(type, i)
                \/ HandlePaymentSucceeded(i) \/ HandlePaymentFailed(i) \/ WriteTxnFailed(i)
                \/ WriteBookingFailed(i) \/ StopFailing(i) \/ HandleRefundSucceeded(i)
                \/ CancelExpiredPaymentIntent(i)
           \/ \E b \in Bookings : ExpireBookingIfDue(b) \/ BookingFallsDue(b) \/ CompleteStay(b)
  <2>1. UNCHANGED userVars
    BY <1>7
       DEF vars, Pay, Decline, SendAgain, HandlePaymentSucceeded, HandlePaymentFailed,
           WriteTxnFailed, WriteBookingFailed, StopFailing, HandleRefundSucceeded,
           CancelExpiredPaymentIntent, ExpireBookingIfDue, BookingFallsDue, CompleteStay
  <2> QED
    BY <1>1, <2>1 DEF userVars
<1> QED
  BY <1>1, <1>2, <1>3, <1>4, <1>6, <1>7 DEF Next

\* Of a paid intent whose event has been handled.
Recorded(i) ==
  LET b == intentBooking[i] IN
  \/ txnCharge[b] = i
  \/ refunded[i] > 0
  \/ \E j \in Intents \ {i} : intentBooking[j] = b /\ intentState[j] = "succeeded"

\* The handler that takes the event records the payment, or finds another's.
LEMMA HandledIsRecorded ==
  ASSUME TypeOK, RefersToRows, ChargesBelong, [Next]_vars,
         NEW i \in Intents, HandlePaymentSucceeded(i)
  PROVE  Recorded(i)'
<1> DEFINE b == intentBooking[i]
<1>0. b \in Bookings /\ intentBooking' = intentBooking /\ intentState' = intentState
  BY EventHasIntent, IntentHasBooking DEF HandlePaymentSucceeded
<1>1. CASE AlreadyProcessed(i)
  <2>1. txnCharge[b] # NoIntent /\ intentBooking[txnCharge[b]] = b /\ txnCharge' = txnCharge
    BY <1>0, <1>1 DEF AlreadyProcessed, ChargesBelong, txnVars
  <2>2. txnCharge[b] \in Intents /\ intentState[txnCharge[b]] = "succeeded"
    BY <1>0, <2>1 DEF RefersToRows, ChargesRefer, TypeOK
  <2> QED
    BY <1>0, <2>1, <2>2 DEF Recorded
<1>2. CASE RefundLatePayment(i)
  <2>1. txnCharge'[b] = i \/ refunded'[i] = ChargeParts
    BY <1>0, <1>2 DEF RefundLatePayment, TypeOK
  <2> QED
    BY <1>0, <2>1, PaymentAssumption DEF Recorded
<1>3. CASE ConfirmBooking(i)
  BY <1>0, <1>3 DEF ConfirmBooking, Recorded, TypeOK
<1> QED
  BY <1>1, <1>2, <1>3 DEF HandlePaymentSucceeded

\* What is on record stays so: another charge is another payment of the booking.
LEMMA RecordsStay ==
  ASSUME TypeOK, RefersToRows, ChargesBelong, [Next]_vars,
         NEW i \in Intents, intentState[i] = "succeeded", Recorded(i)
  PROVE  Recorded(i)'
<1>0. PICK b \in Bookings : b = intentBooking[i]
  BY IntentHasBooking
<1>1. intentBooking'[i] = b
  BY <1>0, BelongingStays
<1>2. CASE txnCharge[b] = i
  <2>1. CASE txnCharge'[b] = txnCharge[b]
    BY <1>1, <1>2, <2>1 DEF Recorded
  <2>2. CASE txnCharge'[b] # txnCharge[b]
    <3>1. PICK j \in Intents : /\ intentBooking[j] = b /\ intentState[j] = "succeeded"
                               /\ txnCharge'[b] = j
      BY <2>2, ChargeStep
    <3>2. intentBooking'[j] = b /\ intentState'[j] = "succeeded" /\ j # i
      BY <1>2, <2>2, <3>1, BelongingStays, IntentsMoveForward
    <3> QED
      BY <1>1, <3>2 DEF Recorded
  <2> QED
    BY <2>1, <2>2
<1>3. CASE refunded[i] > 0
  BY <1>3, RefundsGrow DEF Recorded
<1>4. ASSUME NEW j \in Intents \ {i}, intentBooking[j] = b, intentState[j] = "succeeded"
      PROVE  Recorded(i)'
  <2>1. intentBooking'[j] = b /\ intentState'[j] = "succeeded"
    BY <1>4, BelongingStays, IntentsMoveForward
  <2> QED
    BY <1>1, <2>1 DEF Recorded
<1> QED
  BY <1>0, <1>2, <1>3, <1>4 DEF Recorded

\* The event of a payment is there until its handler takes it.
LEMMA PaidEventTaken ==
  ASSUME TypeOK, RefersToRows, [Next]_vars, NEW i \in Intents,
         intentState'[i] = "succeeded", inbox'[<<"succeeded", i>>] = 0,
         ~HandlePaymentSucceeded(i)
  PROVE  intentState[i] = "succeeded" /\ inbox[<<"succeeded", i>>] = 0
<1> DEFINE e == <<"succeeded", i>>
<1>0. e \in Events /\ inbox \in [Events -> Nat] /\ inbox[e] \in Nat
  BY EventTypes DEF TypeOK
<1>1. ASSUME NEW j \in Intents, NEW s \in {"succeeded", "failed", "refunded"},
             NEW box \in [Events -> Nat], inbox' = Emitted(box, s, j)
      PROVE  box[e] = 0 /\ ~(s = "succeeded" /\ j = i)
  <2>1. <<s, j>> \in Events
    BY EventTypes
  <2>2. inbox'[e] = IF <<s, j>> = e THEN box[e] + 1 ELSE box[e]
    BY <1>0, <1>1, <2>1 DEF Emitted
  <2>3. box[e] \in Nat
    BY <1>0
  <2> QED
    BY <2>2, <2>3
<1>2. ASSUME NEW j \in Intents, NEW s \in {"succeeded", "failed", "refunded"},
             <<s, j>> # e
      PROVE  Taken(inbox, s, j)[e] = inbox[e]
  <2>1. <<s, j>> \in Events
    BY EventTypes
  <2> QED
    BY <1>0, <1>2, <2>1 DEF Taken
<1>3. CASE UNCHANGED <<intentState, inbox>>
  BY <1>3
<1>4. ASSUME NEW u \in Users, NEW j \in Intents, CreateIntent(u, j)
      PROVE  intentState[i] = "succeeded" /\ inbox[e] = 0
  BY <1>4 DEF CreateIntent, TypeOK
<1>5. ASSUME NEW u \in Users, NEW parts \in 1..ChargeParts, RefundForCancel(u, parts)
      PROVE  intentState[i] = "succeeded" /\ inbox[e] = 0
  <2>1. onIntent[u] \in Intents /\ intentState' = intentState
    BY <1>5 DEF RefundForCancel, RefersToRows, RequestsRefer
  <2>2. inbox' = inbox \/ inbox' = Emitted(inbox, "refunded", onIntent[u])
    BY <1>5 DEF RefundForCancel
  <2> QED
    BY <1>0, <1>1, <2>1, <2>2
<1>6. ASSUME NEW j \in Intents, Pay(j)
      PROVE  intentState[i] = "succeeded" /\ inbox[e] = 0
  <2>1. inbox[e] = 0 /\ j # i
    BY <1>0, <1>1, <1>6 DEF Pay
  <2> QED
    BY <1>6, <2>1 DEF Pay, TypeOK
<1>7. ASSUME NEW j \in Intents, Decline(j)
      PROVE  intentState[i] = "succeeded" /\ inbox[e] = 0
  BY <1>0, <1>1, <1>7 DEF Decline
<1>8. ASSUME NEW j \in Intents, NEW type \in {"succeeded", "failed", "refunded"},
             SendAgain(type, j)
      PROVE  intentState[i] = "succeeded" /\ inbox[e] = 0
  BY <1>0, <1>1, <1>8 DEF SendAgain
<1>9. ASSUME NEW j \in Intents, HandlePaymentSucceeded(j)
      PROVE  intentState[i] = "succeeded" /\ inbox[e] = 0
  <2>1. j # i /\ intentState' = intentState
    BY <1>9 DEF HandlePaymentSucceeded
  <2> DEFINE box == Taken(inbox, "succeeded", j)
  <2>2. inbox' = box \/ inbox' = Emitted(box, "refunded", j)
    BY <1>9 DEF HandlePaymentSucceeded, AlreadyProcessed, RefundLatePayment, ConfirmBooking
  <2>3. box \in [Events -> Nat]
    BY <1>9, InboxTypes DEF HandlePaymentSucceeded
  <2>4. box[e] = inbox[e]
    BY <1>2, <2>1
  <2> HIDE DEF box
  <2> QED
    BY <1>1, <2>1, <2>2, <2>3, <2>4
<1>10. ASSUME NEW j \in Intents, HandlePaymentFailed(j) \/ HandleRefundSucceeded(j)
       PROVE  intentState[i] = "succeeded" /\ inbox[e] = 0
  BY <1>2, <1>10 DEF HandlePaymentFailed, HandleRefundSucceeded, stripeVars
<1>11. ASSUME NEW j \in Intents, CancelExpiredPaymentIntent(j)
       PROVE  intentState[i] = "succeeded" /\ inbox[e] = 0
  BY <1>11 DEF CancelExpiredPaymentIntent, TypeOK
<1>12. \/ UNCHANGED <<intentState, inbox>>
       \/ \E u \in Users : \/ \E j \in Intents : CreateIntent(u, j)
                           \/ \E parts \in 1..ChargeParts : RefundForCancel(u, parts)
       \/ \E j \in Intents :
            \/ Pay(j) \/ Decline(j)
            \/ \E type \in {"succeeded", "failed", "refunded"} : SendAgain(type, j)
            \/ HandlePaymentSucceeded(j)
            \/ HandlePaymentFailed(j) \/ HandleRefundSucceeded(j)
            \/ CancelExpiredPaymentIntent(j)
  BY DEF Next, vars, stripeVars, ReadToPay, ReadToCancel, StoreIntent, ReadCharge, RecordRefund,
         WriteCancelled, Fail, WriteTxnFailed, WriteBookingFailed, StopFailing,
         ExpireBookingIfDue, BookingFallsDue, CompleteStay
<1> QED
  BY <1>3, <1>4, <1>5, <1>6, <1>7, <1>8, <1>9, <1>10, <1>11, <1>12

LEMMA PaymentsAreOnRecordStep ==
  ASSUME TypeOK, RefersToRows, ChargesBelong, PaymentsAreOnRecord, [Next]_vars
  PROVE  PaymentsAreOnRecord'
<1> SUFFICES ASSUME NEW i \in Intents, intentState'[i] = "succeeded",
                    inbox'[<<"succeeded", i>>] = 0
             PROVE  Recorded(i)'
  BY DEF PaymentsAreOnRecord, Recorded
<1>1. CASE HandlePaymentSucceeded(i)
  BY <1>1, HandledIsRecorded
<1>2. CASE ~HandlePaymentSucceeded(i)
  <2>1. intentState[i] = "succeeded" /\ inbox[<<"succeeded", i>>] = 0
    BY <1>2, PaidEventTaken
  <2>2. Recorded(i)
    BY <2>1 DEF PaymentsAreOnRecord, Recorded
  <2> QED
    BY <2>1, <2>2, RecordsStay
<1> QED
  BY <1>1, <1>2

\* Of an expired booking with a charge.
Unsettled(b) ==
  \/ txnStatus[b] \in {"processing", "failed"}
  \/ \E i \in Intents : intentBooking[i] = b /\ refunded[i] > 0

LEMMA LatePaymentIsRefundedStep ==
  ASSUME TypeOK, RefersToRows, ChargesBelong, RefundsBelong, LatePaymentIsRefunded,
         [Next]_vars
  PROVE  LatePaymentIsRefunded'
<1> SUFFICES ASSUME NEW b \in Bookings, status'[b] = "expired", txnCharge'[b] # NoIntent
             PROVE  Unsettled(b)'
  BY DEF LatePaymentIsRefunded, Unsettled
<1>1. CASE txnCharge'[b] # txnCharge[b]
  <2>1. PICK i \in Intents : /\ RefundLatePayment(i) \/ ConfirmBooking(i)
                             /\ intentBooking[i] = b
    BY <1>1, ChargeStep
  <2>2. RefundLatePayment(i)
    BY <2>1 DEF ConfirmBooking, WriteStatus, TypeOK
  <2>3. txnStatus'[b] = "processing" \/ refunded'[i] > 0
    BY <2>1, <2>2, PaymentAssumption DEF RefundLatePayment, TypeOK
  <2> QED
    BY <2>1, <2>3, BelongingStays DEF Unsettled
<1>2. CASE txnCharge'[b] = txnCharge[b]
  <2>1. status[b] = "expired"
    BY <1>2, StatusStep DEF ChargesBelong
  <2>2. Unsettled(b)
    BY <1>2, <2>1 DEF LatePaymentIsRefunded, Unsettled
  <2>3. ASSUME NEW i \in Intents, intentBooking[i] = b, refunded[i] > 0 PROVE Unsettled(b)'
    BY <2>3, BelongingStays, RefundsGrow DEF Unsettled
  <2>4. CASE txnStatus'[b] = txnStatus[b] \/ txnStatus'[b] \in {"processing", "failed"}
    BY <2>2, <2>3, <2>4 DEF Unsettled
  <2>5. ASSUME NEW i \in Intents, HandlePaymentSucceeded(i), txnStatus'[b] # txnStatus[b]
        PROVE  Unsettled(b)'
    <3>1. (RefundLatePayment(i) \/ ConfirmBooking(i)) /\ intentBooking[i] = b
      BY <2>5
      DEF HandlePaymentSucceeded, AlreadyProcessed, RefundLatePayment, ConfirmBooking,
          txnVars, TypeOK
    <3>2. RefundLatePayment(i)
      BY <2>1, <3>1 DEF ConfirmBooking
    <3>3. txnStatus'[b] = "processing" \/ refunded'[i] > 0
      BY <3>1, <3>2, PaymentAssumption DEF RefundLatePayment, TypeOK
    <3> QED
      BY <3>1, <3>3, BelongingStays DEF Unsettled
  <2>6. ASSUME NEW u \in Users, RecordRefund(u), txnStatus'[b] # txnStatus[b]
        PROVE  Unsettled(b)'
    <3>1. onBooking[u] = b /\ pc[u] = "cancel_refunded"
      BY <2>6 DEF RecordRefund, TypeOK
    <3> QED
      BY <2>3, <3>1 DEF RefundsBelong
  <2>7. ASSUME NEW i \in Intents, WriteTxnFailed(i), txnStatus'[b] # txnStatus[b]
        PROVE  txnStatus'[b] = "failed"
    BY <2>7 DEF WriteTxnFailed, TypeOK
  <2>8. ASSUME NEW c \in Bookings, ExpireBookingIfDue(c), txnStatus'[b] # txnStatus[b]
        PROVE  FALSE
    BY <2>1, <2>8 DEF ExpireBookingIfDue, TypeOK
  <2> QED
    BY <2>4, <2>5, <2>6, <2>7, <2>8, MoneySteps DEF RefundForCancel, txnVars
<1> QED
  BY <1>1, <1>2

-----------------------------------------------------------------------------
(* The theorems.                                                           *)

\* The invariant is inductive: no request, event, expiry or crash leaves it.
THEOREM SpecIInv == Spec => []IInv
<1>1. IInv /\ [Next]_vars => IInv'
  BY TypesStep, RefersStep, RoomsFollowStageStep, OneRequestPaysStep, ConfirmedIsPaidForStep,
     ChargesBelongStep, RefundsBelongStep, PaymentsAreOnRecordStep, LatePaymentIsRefundedStep
  DEF IInv
<1>2. QED
  BY InitIInv, <1>1, PTL DEF Spec

\* createPaymentIntentForBooking, handlePayment*, cancelBooking and expiry only
\* write the statuses and references of the data model, in every interleaving.
THEOREM TypeCorrect == Spec => []TypeOK
<1>1. IInv => TypeOK
  BY DEF IInv
<1>2. QED
  BY SpecIInv, <1>1, PTL

\* createPaymentIntentForBooking does not check again before it stores what it
\* created; even so no booking has two intents of requests that neither raced
\* nor stopped half-way.
THEOREM OneIntent == Spec => []OneIntentUnlessRaced
<1>1. IInv => OneIntentUnlessRaced
  <2> SUFFICES ASSUME IInv, NEW b \in Bookings, b \notin raced,
                      NEW i \in Intents \ orphaned, intentBooking[i] = b,
                      NEW j \in Intents \ orphaned, intentBooking[j] = b
               PROVE  i = j
    BY DEF OneIntentUnlessRaced
  <2>1. OneRequestPaysFor(b)
    BY DEF IInv, OneRequestPays, OneRequestPaysFor, HasCreated
  <2>2. ASSUME NEW u \in Users, NEW k \in Intents, HasCreated(u, b, k)
        PROVE  txnIntent[b] = NoIntent
    BY <2>1, <2>2 DEF OneRequestPaysFor, PayingFor, HasCreated
  <2>3. ASSUME NEW u \in Users, NEW v \in Users, HasCreated(u, b, i), HasCreated(v, b, j)
        PROVE  i = j
    BY <2>1, <2>3 DEF OneRequestPaysFor, PayingFor, HasCreated
  <2>4. QED
    BY <2>1, <2>2, <2>3, PaymentAssumption DEF OneRequestPaysFor
<1>2. QED
  BY SpecIInv, <1>1, PTL

\* handlePaymentSucceeded: what is confirmed was paid, and has its rooms
\* unless a status was written over 'expired'.
THEOREM ConfirmedPaid == Spec => []ConfirmedIsPaidFor
<1>1. IInv => ConfirmedIsPaidFor
  BY DEF IInv
<1>2. QED
  BY SpecIInv, <1>1, PTL

\* handlePaymentSucceeded: a payment whose event was handled is the charge of the
\* transaction, or refunded, or the second payment of its booking.
THEOREM OnRecord == Spec => []PaymentsAreOnRecord
<1>1. IInv => PaymentsAreOnRecord
  BY DEF IInv
<1>2. QED
  BY SpecIInv, <1>1, PTL

\* The late branch of handlePaymentSucceeded: whatever cancellations and failures write
\* later, an expired booking with a charge is refunded or says that it is not settled.
THEOREM LateRefund == Spec => []LatePaymentIsRefunded
<1>1. IInv => LatePaymentIsRefunded
  BY DEF IInv
<1>2. QED
  BY SpecIInv, <1>1, PTL

\* The bookings of the detailed specification live as RoomCheckout takes them
\* to: each step is a step of BookingLife, or leaves stage and rooms alone.
THEOREM Implements == Spec => LivesAsReserved
<1>1. Init => Life!Init
  BY DEF Init, Life!Init, Stage
<1>2. IInv /\ [Next]_vars => [Life!Next]_<<Stage, rooms>>
  <2> SUFFICES ASSUME TypeOK, RefersToRows, RoomsFollowStage, [Next]_vars
               PROVE  [Life!Next]_<<Stage, rooms>>
    BY DEF IInv
  <2>1. CASE UNCHANGED <<status, rooms, revived>>
    BY <2>1 DEF Stage
  <2>2. ASSUME NEW b \in Bookings, NEW s \in Finals, Rewritten(b, s)
        PROVE  Life!Settle(b) \/ UNCHANGED <<Stage, rooms>>
    BY <2>2 DEF Rewritten, WriteStatus, Finals, Life!Settle, Stage, TypeOK, RoomsFollowStage,
                BookingStatus
  <2>3. ASSUME NEW b \in Bookings, Expired(b)
        PROVE  Life!Expire(b)
    BY <2>3 DEF Expired, WriteStatus, Life!Expire, Stage, TypeOK, RoomsFollowStage, BookingStatus
  <2>4. QED
    BY <2>1, <2>2, <2>3, BookingStep DEF Life!Next
<1>3. QED
  BY <1>1, <1>2, SpecIInv, PTL DEF Spec, LivesAsReserved, Life!Spec
=============================================================================
