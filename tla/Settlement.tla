----------------------------- MODULE Settlement -----------------------------
(***************************************************************************)
(* The money of a booking after it is charged: the refund of a             *)
(* cancellation (services/booking.service.js processRefund), the payout to *)
(* the hotel owner (services/payout.service.js) and the ledger they and    *)
(* the payment are posted to (services/ledger.service.js).                 *)
(*                                                                         *)
(* handlePaymentSucceeded locks the booking and posts in its transaction:  *)
(* one step.  Refunds and payouts are series of autocommit statements      *)
(* around a call of Stripe, with a catch block that marks their row        *)
(* failed; a posting is a transaction of its own whose read of the group   *)
(* is not a lock: the unique idempotency_key of the entries is.            *)
(*                                                                         *)
(* An entry group is named by its key, event type and row.  Refunds and    *)
(* transfers are for the whole amount.  No route or job calls the payout   *)
(* service: its operations are run at any time.  A failed statement, an    *)
(* answer lost on its way from Stripe and a server that stops are faults.  *)
(***************************************************************************)
EXTENDS Integers, FiniteSets

CONSTANTS
  Bookings,
  Cancels,      \* DELETE /api/bookings/:id requests that ask for a refund
  Payouts,      \* rows of payouts
  Operators,    \* calls of the payout service at the same time
  MaxFaults,    \* bound: faults, and success events handled once more
  None          \* null

ASSUME SettlementAssumption ==
  /\ MaxFaults \in Nat
  /\ None \notin Bookings /\ None \notin Payouts

VARIABLES
  status,       \* bookings.status
  txn,          \* transactions.status of the booking's payment
  charged,      \* Stripe: bookings whose intent succeeded
  cpc, cBooking,        \* the cancel requests
  refundRow,    \* refunds.status of the row a request makes
  stripeRefund, \* Stripe: the refund a request asked for
  opc, oPayout, oBooking,   \* the operators
  oList,        \* bookings a scan has yet to pay out
  payout,       \* rows of payouts: booking, whether it has a payout item, status
  item,         \* payout_items: the payout a booking is settled by
  transfers,    \* Stripe: transfers made for a payout
  ledger,       \* how often the entries of a group are posted
  faults,
  cut,          \* history: requests and payouts a fault cut short
  raced,        \* history: payouts two transfers of which had read pending
  reopened      \* history: bookings paid for again, or cut short in their refund

cancelVars == <<cpc, cBooking, refundRow, stripeRefund>>
operatorVars == <<opc, oPayout, oBooking, oList>>
payoutVars == <<payout, item, transfers>>
historyVars == <<cut, raced, reopened>>
vars == <<status, txn, charged, cancelVars, operatorVars, payoutVars, ledger, faults,
          historyVars>>

NoPayout == [booking |-> None, itemized |-> FALSE, status |-> "none"]

PayoutRows ==
  [booking: Bookings \cup {None}, itemized: BOOLEAN,
   status: {"none", "pending", "processing", "paid", "failed"}]

Groups == ({"payment_succeeded"} \X Bookings) \cup ({"refund_succeeded"} \X Cancels)
            \cup ({"payout_paid"} \X Payouts)

\* Stripe answers succeeded, pending or requires_action, failed, canceled.
Answered == {"refunded", "promised", "declined", "withdrawn"}

CPC == {"idle", "read", "row", "row_written", "txn_written", "failed", "cancel", "done"}
         \cup Answered
OPC == {"idle", "scan", "manual", "pending", "marked", "sent", "paid", "post", "notify",
        "failed"}

TypeOK ==
  /\ status \in [Bookings -> {"pending_payment", "confirmed", "checked_in", "completed",
                            "cancelled"}]
  /\ txn \in [Bookings -> {"pending", "completed", "processing", "refunded"}]
  /\ charged \subseteq Bookings
  /\ cpc \in [Cancels -> CPC]
  /\ cBooking \in [Cancels -> Bookings \cup {None}]
  /\ refundRow \in [Cancels -> {"none", "pending", "processing", "succeeded", "failed",
                              "cancelled"}]
  /\ stripeRefund \in [Cancels -> {"none", "pending", "succeeded"}]
  /\ opc \in [Operators -> OPC]
  /\ oPayout \in [Operators -> Payouts \cup {None}]
  /\ oBooking \in [Operators -> Bookings \cup {None}]
  /\ oList \in [Operators -> SUBSET Bookings]
  /\ payout \in [Payouts -> PayoutRows]
  /\ item \in [Bookings -> Payouts \cup {None}]
  /\ transfers \in [Payouts -> Nat]
  /\ ledger \in [Groups -> Nat]
  /\ faults \in 0..MaxFaults
  /\ cut \subseteq Cancels \cup Payouts
  /\ raced \subseteq Payouts
  /\ reopened \subseteq Bookings

Init ==
  /\ status = [b \in Bookings |-> "pending_payment"]
  /\ txn = [b \in Bookings |-> "pending"]
  /\ charged = {}
  /\ cpc = [c \in Cancels |-> "idle"]
  /\ cBooking = [c \in Cancels |-> None]
  /\ refundRow = [c \in Cancels |-> "none"]
  /\ stripeRefund = [c \in Cancels |-> "none"]
  /\ opc = [o \in Operators |-> "idle"]
  /\ oPayout = [o \in Operators |-> None]
  /\ oBooking = [o \in Operators |-> None]
  /\ oList = [o \in Operators |-> {}]
  /\ payout = [p \in Payouts |-> NoPayout]
  /\ item = [b \in Bookings |-> None]
  /\ transfers = [p \in Payouts |-> 0]
  /\ ledger = [g \in Groups |-> 0]
  /\ faults = 0
  /\ cut = {}
  /\ raced = {}
  /\ reopened = {}

Fault == faults < MaxFaults /\ faults' = faults + 1

-----------------------------------------------------------------------------
(* Ledger: postBalancedEntries *)

Posted(g) == ledger[g] > 0

\* Mutant: a table without the unique index on idempotency_key.
InsertEntriesAgain(g) == ledger' = [ledger EXCEPT ![g] = @ + 1]

\* bulkCreate of the entries of a group: not enabled, the unique index raises an
\* error, when another transaction has posted the group since it was looked up.
InsertEntries(g) == ~Posted(g) /\ ledger' = [ledger EXCEPT ![g] = @ + 1]

\* Mutant: a posting that is left to a job which never runs.
PostLater(g) == UNCHANGED ledger

\* The whole posting, where no other poster of the group can be in progress.
Post(g) == IF Posted(g) THEN UNCHANGED ledger ELSE InsertEntries(g)

-----------------------------------------------------------------------------
(* Payment: handlePaymentSucceeded *)

\* The event of the charge is handled; a delivery that passes the duplicate check
\* again finds the transaction completed, or completes it again after a refund.
PaymentSucceeded(b) ==
  /\ txn[b] # "completed"
  /\ \/ b \notin charged /\ UNCHANGED <<faults, reopened>>
     \/ b \in charged /\ Fault /\ reopened' = reopened \cup {b}
  /\ charged' = charged \cup {b}
  /\ txn' = [txn EXCEPT ![b] = "completed"]
  /\ status' = [status EXCEPT ![b] = "confirmed"]
  /\ Post(<<"payment_succeeded", b>>)
  /\ UNCHANGED <<cancelVars, operatorVars, payoutVars, cut, raced>>

\* updateStatusByDates, when the guest lists his bookings: as far as their dates go.
UpdateStatusByDates(b) ==
  /\ \/ status[b] = "confirmed" /\ status' = [status EXCEPT ![b] = "checked_in"]
     \/ /\ status[b] \in {"confirmed", "checked_in"}
        /\ status' = [status EXCEPT ![b] = "completed"]
  /\ UNCHANGED <<txn, charged, cancelVars, operatorVars, payoutVars, ledger, faults,
                 historyVars>>

-----------------------------------------------------------------------------
(* Cancellation: cancelBooking and processRefund *)

GotoC(c, step) == cpc' = [cpc EXCEPT ![c] = step]

\* A statement of the try block fails: the catch block comes next.
RefundFault(c) ==
  /\ Fault
  /\ GotoC(c, "failed")
  /\ cut' = cut \cup {c}
  /\ reopened' = reopened \cup {cBooking[c]}

NoRefundFault == UNCHANGED <<faults, cut, reopened>>

RefundedBookings == {cBooking[c] : c \in {d \in Cancels : stripeRefund[d] # "none"}}

\* The booking is read and its policy grants a refund; only charged transactions
\* have the charge id a refund needs.
CancelRead(c) ==
  /\ cpc[c] = "idle"
  /\ \E b \in charged :
       /\ status[b] \notin {"cancelled", "completed"}
       /\ cBooking' = [cBooking EXCEPT ![c] = b]
  /\ GotoC(c, "read")
  /\ UNCHANGED <<status, txn, charged, refundRow, stripeRefund, operatorVars, payoutVars,
                 ledger, faults, historyVars>>

CreateRefund(c) ==
  /\ cpc[c] = "read"
  /\ GotoC(c, "row")
  /\ refundRow' = [refundRow EXCEPT ![c] = "pending"]
  /\ UNCHANGED <<status, txn, charged, cBooking, stripeRefund, operatorVars, payoutVars,
                 ledger, faults, historyVars>>

\* stripe.refunds.create refunds a charge once: at once, in a while, or not after
\* all.  It can refuse, and refuses a second refund; its answer can be lost.
AskStripe(c) ==
  /\ cpc[c] = "row"
  /\ \/ GotoC(c, "failed") /\ NoRefundFault /\ UNCHANGED stripeRefund
     \/ /\ cBooking[c] \notin RefundedBookings
        /\ \/ /\ stripeRefund' = [stripeRefund EXCEPT ![c] = "succeeded"]
              /\ (GotoC(c, "refunded") /\ NoRefundFault) \/ RefundFault(c)
           \/ /\ stripeRefund' = [stripeRefund EXCEPT ![c] = "pending"]
              /\ (GotoC(c, "promised") /\ NoRefundFault) \/ RefundFault(c)
           \/ /\ GotoC(c, "declined") \/ GotoC(c, "withdrawn")
              /\ NoRefundFault
              /\ UNCHANGED stripeRefund
  /\ UNCHANGED <<status, txn, charged, cBooking, refundRow, operatorVars, payoutVars,
                 ledger, raced>>

\* Mutant: every status but succeeded counts as failed.
SucceededOrFailed(answered) == IF answered = "refunded" THEN "succeeded" ELSE "failed"

\* normalizeRefundStatus.
NormalizedStatus(answered) ==
  CASE answered = "refunded"  -> "succeeded"
    [] answered = "promised"  -> "processing"
    [] answered = "declined"  -> "failed"
    [] answered = "withdrawn" -> "cancelled"

\* updateRefund.
WriteRefund(c) ==
  /\ cpc[c] \in Answered
  /\ \/ /\ refundRow' = [refundRow EXCEPT ![c] = NormalizedStatus(cpc[c])]
        /\ GotoC(c, "row_written")
        /\ NoRefundFault
     \/ RefundFault(c) /\ UNCHANGED refundRow
  /\ UNCHANGED <<status, txn, charged, cBooking, stripeRefund, operatorVars, payoutVars,
                 ledger, raced>>

\* Mutant: updateTransactionRefundState leaves the status of the transaction.
KeepTransaction(c) == txn' = txn

\* updateTransactionRefundState.
RefundTransaction(c) ==
  txn' = [txn EXCEPT ![cBooking[c]] =
            IF refundRow[c] = "succeeded" THEN "refunded" ELSE "processing"]

WriteTransaction(c) ==
  /\ cpc[c] = "row_written"
  /\ \/ /\ RefundTransaction(c)
        /\ GotoC(c, IF refundRow[c] = "succeeded" THEN "txn_written" ELSE "cancel")
        /\ NoRefundFault
     \/ RefundFault(c) /\ UNCHANGED txn
  /\ UNCHANGED <<status, charged, cBooking, refundRow, stripeRefund, operatorVars,
                 payoutVars, ledger, raced>>

\* recordRefundSucceeded: the key names the row, which nobody else refunds.
PostRefund(c) ==
  /\ cpc[c] = "txn_written"
  /\ \/ Post(<<"refund_succeeded", c>>) /\ GotoC(c, "cancel") /\ NoRefundFault
     \/ RefundFault(c) /\ UNCHANGED ledger
  /\ UNCHANGED <<status, txn, charged, cBooking, refundRow, stripeRefund, operatorVars,
                 payoutVars, raced>>

\* The catch block of processRefund; cancelBooking goes on without a refund.
FailRefund(c) ==
  /\ cpc[c] = "failed"
  /\ refundRow' = [refundRow EXCEPT ![c] = "failed"]
  /\ GotoC(c, "cancel")
  /\ UNCHANGED <<status, txn, charged, cBooking, stripeRefund, operatorVars, payoutVars,
                 ledger, faults, historyVars>>

WriteCancelled(c) ==
  /\ cpc[c] = "cancel"
  /\ status' = [status EXCEPT ![cBooking[c]] = "cancelled"]
  /\ GotoC(c, "done")
  /\ UNCHANGED <<txn, charged, cBooking, refundRow, stripeRefund, operatorVars,
                 payoutVars, ledger, faults, historyVars>>

\* handleRefundSucceeded cancels the booking; a pending refund has been made by
\* then.  Neither the refund row nor the ledger hears of it.
RefundEvent(c) ==
  /\ stripeRefund[c] # "none"
  /\ stripeRefund' = [stripeRefund EXCEPT ![c] = "succeeded"]
  /\ status' = [status EXCEPT ![cBooking[c]] = "cancelled"]
  /\ UNCHANGED <<txn, charged, cpc, cBooking, refundRow, operatorVars, payoutVars, ledger,
                 faults, historyVars>>

-----------------------------------------------------------------------------
(* Payouts *)

GotoO(o, step) == opc' = [opc EXCEPT ![o] = step]

\* A call returns, or throws to its caller.
Return(o) ==
  /\ GotoO(o, "idle")
  /\ oPayout' = [oPayout EXCEPT ![o] = None]
  /\ oBooking' = [oBooking EXCEPT ![o] = None]
  /\ oList' = [oList EXCEPT ![o] = {}]

\* Mutant: the query of a scan does not look at the transaction.
ConfirmedBookings == {b \in Bookings : status[b] = "confirmed"}

\* findEligibleBookingsForPayout: not a booking whose guest is in the house.
EligibleBookings ==
  {b \in Bookings : status[b] \in {"confirmed", "completed"} /\ txn[b] = "completed"}

\* createEligiblePayouts reads its bookings: those whose check-in date has come, that
\* have no payout item, and that have an owner and an amount to pay out.
ScanRead(o) ==
  /\ opc[o] = "idle"
  /\ \E due \in SUBSET {b \in EligibleBookings : item[b] = None} :
       due # {} /\ oList' = [oList EXCEPT ![o] = due]
  /\ GotoO(o, "scan")
  /\ UNCHANGED <<status, txn, charged, cancelVars, oPayout, oBooking, payoutVars, ledger,
                 faults, historyVars>>

\* Mutant: payout_items without the unique index on booking_id.
CreateItemAgain(b, p) == item' = [item EXCEPT ![b] = p]

\* createItems: the unique index on booking_id lets a booking have one item.
CreateItem(b, p) == item[b] = None /\ item' = [item EXCEPT ![b] = p]

CreatePayout(b, itemized) ==
  \E p \in Payouts :
    /\ payout[p] = NoPayout
    /\ payout' = [payout EXCEPT ![p] =
                    [booking |-> b, itemized |-> itemized, status |-> "pending"]]
    /\ IF itemized THEN CreateItem(b, p) ELSE UNCHANGED item

\* The next booking of a scan: its payout and its item in one transaction.
ScanCreate(o) ==
  /\ opc[o] = "scan"
  /\ \E b \in oList[o] :
       /\ CreatePayout(b, TRUE)
       /\ oList' = [oList EXCEPT ![o] = @ \ {b}]
       /\ GotoO(o, IF oList[o] = {b} THEN "idle" ELSE "scan")
  /\ UNCHANGED <<status, txn, charged, cancelVars, oPayout, oBooking, transfers, ledger,
                 faults, historyVars>>

\* A booking that another scan has settled meanwhile: the unique index raises an
\* error, which ends the scan with the bookings it has not come to.
ScanAborts(o) ==
  /\ opc[o] = "scan"
  /\ \E b \in oList[o] : item[b] # None
  /\ Return(o)
  /\ UNCHANGED <<status, txn, charged, cancelVars, payoutVars, ledger, faults, historyVars>>

\* createPayoutForTransaction: reads the transaction ...
ManualRead(o) ==
  /\ opc[o] = "idle"
  /\ \E b \in Bookings : txn[b] = "completed" /\ oBooking' = [oBooking EXCEPT ![o] = b]
  /\ GotoO(o, "manual")
  /\ UNCHANGED <<status, txn, charged, cancelVars, oPayout, oList, payoutVars, ledger,
                 faults, historyVars>>

\* ... and creates a payout, without an item and whatever payouts there are.
ManualCreate(o) ==
  /\ opc[o] = "manual"
  /\ CreatePayout(oBooking[o], FALSE)
  /\ Return(o)
  /\ UNCHANGED <<status, txn, charged, cancelVars, transfers, ledger, faults, historyVars>>

\* Mutant: a payout that failed is processed again.
MayProcess(p) == payout[p].status \in {"pending", "failed"}

\* processStripeTransfer takes pending payouts only.
Processable(p) == payout[p].status = "pending"

TransferRead(o) ==
  /\ opc[o] = "idle"
  /\ \E p \in Payouts :
       /\ Processable(p)
       /\ oPayout' = [oPayout EXCEPT ![o] = p]
       /\ raced' = IF \E q \in Operators : oPayout[q] = p THEN raced \cup {p} ELSE raced
  /\ GotoO(o, "pending")
  /\ UNCHANGED <<status, txn, charged, cancelVars, oBooking, oList, payoutVars, ledger,
                 faults, cut, reopened>>

SetPayout(p, s) == payout' = [payout EXCEPT ![p].status = s]

MarkProcessing(o) ==
  /\ opc[o] = "pending"
  /\ SetPayout(oPayout[o], "processing")
  /\ GotoO(o, "marked")
  /\ UNCHANGED <<status, txn, charged, cancelVars, oPayout, oBooking, oList, item,
                 transfers, ledger, faults, historyVars>>

\* A statement of the try block fails: the catch block comes next.
PayoutFault(o) ==
  /\ Fault
  /\ GotoO(o, "failed")
  /\ cut' = cut \cup {oPayout[o]}

NoPayoutFault == UNCHANGED <<faults, cut>>

\* stripe.transfers.create, without an idempotency key: made, refused, or made
\* with an answer that is lost.
Transfer(o) ==
  /\ opc[o] = "marked"
  /\ \/ /\ transfers' = [transfers EXCEPT ![oPayout[o]] = @ + 1]
        /\ (GotoO(o, "sent") /\ NoPayoutFault) \/ PayoutFault(o)
     \/ GotoO(o, "failed") /\ NoPayoutFault /\ UNCHANGED transfers
  /\ UNCHANGED <<status, txn, charged, cancelVars, oPayout, oBooking, oList, payout, item,
                 ledger, raced, reopened>>

WritePaid(o) ==
  /\ opc[o] = "sent"
  /\ \/ SetPayout(oPayout[o], "paid") /\ GotoO(o, "paid") /\ NoPayoutFault
     \/ PayoutFault(o) /\ UNCHANGED payout
  /\ UNCHANGED <<status, txn, charged, cancelVars, oPayout, oBooking, oList, item,
                 transfers, ledger, raced, reopened>>

\* recordPayoutPaid looks its group up ...
LookupPayoutGroup(o) ==
  /\ opc[o] = "paid"
  /\ \/ /\ GotoO(o, IF Posted(<<"payout_paid", oPayout[o]>>) THEN "notify" ELSE "post")
        /\ NoPayoutFault
     \/ PayoutFault(o)
  /\ UNCHANGED <<status, txn, charged, cancelVars, oPayout, oBooking, oList, payoutVars,
                 ledger, raced, reopened>>

\* ... and inserts it; another transfer of the payout may have done so since.
PostPayout(o) ==
  LET g == <<"payout_paid", oPayout[o]>> IN
  /\ opc[o] = "post"
  /\ \/ InsertEntries(g) /\ GotoO(o, "notify") /\ NoPayoutFault
     \/ Posted(g) /\ GotoO(o, "failed") /\ NoPayoutFault /\ UNCHANGED ledger
     \/ PayoutFault(o) /\ UNCHANGED ledger
  /\ UNCHANGED <<status, txn, charged, cancelVars, oPayout, oBooking, oList, payoutVars,
                 raced, reopened>>

\* sendPayoutNotification inserts a row; its error, too, marks the payout failed.
NotifyOwner(o) ==
  /\ opc[o] = "notify"
  /\ \/ Return(o) /\ NoPayoutFault
     \/ PayoutFault(o) /\ UNCHANGED <<oPayout, oBooking, oList>>
  /\ UNCHANGED <<status, txn, charged, cancelVars, payoutVars, ledger, raced, reopened>>

\* The catch block of processStripeTransfer.
FailPayout(o) ==
  /\ opc[o] = "failed"
  /\ SetPayout(oPayout[o], "failed")
  /\ Return(o)
  /\ UNCHANGED <<status, txn, charged, cancelVars, item, transfers, ledger, faults,
                 historyVars>>

\* The server stops: requests and calls in progress are gone.
Stop ==
  LET stopped == {c \in Cancels : cpc[c] \notin {"idle", "done"}} IN
  /\ Fault
  /\ cpc' = [c \in Cancels |-> IF c \in stopped THEN "done" ELSE cpc[c]]
  /\ opc' = [o \in Operators |-> "idle"]
  /\ oPayout' = [o \in Operators |-> None]
  /\ oBooking' = [o \in Operators |-> None]
  /\ oList' = [o \in Operators |-> {}]
  /\ cut' = cut \cup stopped \cup {p \in Payouts : \E o \in Operators : oPayout[o] = p}
  /\ reopened' = reopened \cup {cBooking[c] : c \in stopped}
  /\ UNCHANGED <<status, txn, charged, cBooking, refundRow, stripeRefund, payoutVars,
                 ledger, raced>>

Cancelling(c) ==
  \/ CancelRead(c) \/ CreateRefund(c) \/ AskStripe(c) \/ WriteRefund(c)
  \/ WriteTransaction(c) \/ PostRefund(c) \/ FailRefund(c) \/ WriteCancelled(c)
  \/ RefundEvent(c)

PayingOut(o) ==
  \/ ScanRead(o) \/ ScanCreate(o) \/ ScanAborts(o) \/ ManualRead(o) \/ ManualCreate(o)
  \/ TransferRead(o) \/ MarkProcessing(o) \/ Transfer(o) \/ WritePaid(o)
  \/ LookupPayoutGroup(o) \/ PostPayout(o) \/ NotifyOwner(o) \/ FailPayout(o)

Next ==
  \/ \E b \in Bookings : PaymentSucceeded(b) \/ UpdateStatusByDates(b)
  \/ \E c \in Cancels : Cancelling(c)
  \/ \E o \in Operators : PayingOut(o)
  \/ Stop

Spec == Init /\ [][Next]_vars

-----------------------------------------------------------------------------
(* Properties *)

\* The ledger says what happened at Stripe: no group is posted twice, whatever races
\* and repeats; a posted one has its refund or its transfer; and a row that ends as
\* succeeded or paid is posted, unless a fault cut its request short.
LedgerTellsStripe ==
  /\ \A g \in Groups : ledger[g] <= 1
  /\ \A c \in Cancels :
       /\ Posted(<<"refund_succeeded", c>>) => stripeRefund[c] = "succeeded"
       /\ refundRow[c] = "succeeded" /\ cpc[c] = "done" /\ c \notin cut =>
            Posted(<<"refund_succeeded", c>>)
  /\ \A p \in Payouts :
       /\ Posted(<<"payout_paid", p>>) => transfers[p] > 0
       /\ payout[p].status = "paid" /\ p \notin cut /\ (\A o \in Operators : oPayout[o] # p)
            => Posted(<<"payout_paid", p>>)

\* A refund or a transfer that left the account is marked failed only when a fault,
\* or another transfer of the same payout, came between.
FailedKeptTheMoney ==
  /\ \A c \in Cancels : refundRow[c] = "failed" /\ c \notin cut => stripeRefund[c] = "none"
  /\ \A p \in Payouts :
       payout[p].status = "failed" /\ p \notin cut \cup raced => transfers[p] = 0

\* The owner of a hotel is paid at most once for a booking by scans and transfers
\* together, but for transfers that raced for one payout; payouts made for a
\* transaction by hand are not compared with anything.
OwnerPaidOnce ==
  LET settling(b) == {p \in Payouts : /\ payout[p].booking = b
                                      /\ payout[p].itemized
                                      /\ transfers[p] > 0} IN
  /\ \A b \in Bookings : Cardinality(settling(b)) <= 1
  /\ \A p \in Payouts : p \notin raced => transfers[p] <= 1

\* A scan takes no booking whose money has gone back, once its cancellation has
\* come to the transaction: unless a fault or a repeated success event undid that.
NoScanOfRefunded ==
  [][\A o \in Operators, c \in Cancels :
       /\ opc[o] = "idle" /\ cBooking[c] \in oList'[o] \ reopened
       /\ stripeRefund[c] # "none"
       => cpc[c] \in {"refunded", "promised", "row_written"}]_vars

-----------------------------------------------------------------------------
(* Why it holds: the invariant the proofs use. *)

\* A refund goes through its row, the transaction and the ledger in this order, and
\* is to be seen in the transaction from then on.
RefundGoesOn(c) ==
  /\ cpc[c] # "idle" => cBooking[c] \in charged
  /\ cpc[c] \in {"idle", "read", "row", "declined", "withdrawn"} => stripeRefund[c] = "none"
  /\ cpc[c] \in {"idle", "read", "row"} \cup Answered =>
       refundRow[c] \notin {"succeeded", "failed"}
  /\ cpc[c] = "refunded" \/ refundRow[c] = "succeeded" => stripeRefund[c] = "succeeded"
  /\ cpc[c] = "txn_written" => refundRow[c] = "succeeded"
  /\ cpc[c] = "failed" \/ refundRow[c] = "failed" =>
       c \in cut \/ (stripeRefund[c] = "none" /\ refundRow[c] # "succeeded")
  /\ cpc[c] \in {"cancel", "done"} /\ refundRow[c] = "succeeded" =>
       c \in cut \/ Posted(<<"refund_succeeded", c>>)
  /\ Posted(<<"refund_succeeded", c>>) => stripeRefund[c] = "succeeded"
  /\ stripeRefund[c] # "none" /\ txn[cBooking[c]] = "completed" =>
       \/ cpc[c] \in {"refunded", "promised", "row_written"}
       \/ cBooking[c] \in reopened

\* Who is past the transfer has made one, and an operator who does not race is
\* alone with a payout that nobody has paid.
OperatorGoesOn(o) ==
  LET p == oPayout[o] IN
  /\ opc[o] \in {"idle", "scan", "manual"} <=> p = None
  /\ opc[o] = "manual" => oBooking[o] \in Bookings
  /\ opc[o] = "idle" => oList[o] = {}
  /\ p # None => payout[p].status # "none"
  /\ opc[o] \in {"sent", "paid", "post", "notify"} => transfers[p] > 0
  /\ p # None /\ p \notin raced =>
       /\ \A q \in Operators : oPayout[q] = p => q = o
       /\ opc[o] = "pending" => payout[p].status = "pending"
       /\ opc[o] = "marked" => payout[p].status = "processing"
       /\ opc[o] \in {"pending", "marked"} => transfers[p] = 0
       /\ opc[o] \in {"pending", "marked", "sent", "paid", "post"} =>
            ~Posted(<<"payout_paid", p>>)
       /\ opc[o] = "failed" => p \in cut \/ transfers[p] = 0

\* A payout is paid once, but for races, and posted by whoever has written paid.
PayoutStands(p) ==
  /\ payout[p].status = "none" => ~payout[p].itemized /\ transfers[p] = 0
  /\ payout[p].itemized =>
       payout[p].booking \in Bookings /\ item[payout[p].booking] = p
  /\ Posted(<<"payout_paid", p>>) => transfers[p] > 0
  /\ payout[p].status = "paid" =>
       \/ p \in cut \/ Posted(<<"payout_paid", p>>)
       \/ \E o \in Operators : oPayout[o] = p /\ opc[o] \in {"paid", "post"}
  /\ p \notin raced =>
       /\ transfers[p] <= 1
       /\ payout[p].status = "pending" =>
            transfers[p] = 0 /\ ~Posted(<<"payout_paid", p>>)
       /\ payout[p].status = "failed" => p \in cut \/ transfers[p] = 0

IInv ==
  /\ TypeOK
  /\ \A g \in Groups : ledger[g] <= 1
  /\ \A c \in Cancels : RefundGoesOn(c)
  /\ \A o \in Operators : OperatorGoesOn(o)
  /\ \A p \in Payouts : PayoutStands(p)
=============================================================================
