-------------------------- MODULE SettlementProofs ---------------------------
(***************************************************************************)
(* Proofs about Settlement: the refund, payout and ledger rows agree with  *)
(* what Stripe did, for any number of bookings, requests, operators,       *)
(* payouts and faults.                                                     *)
(***************************************************************************)
EXTENDS Settlement, FiniteSetTheorems, TLAPS

\* The invariant holds before the first payment.
LEMMA InitIInv == Init => IInv
<1> SUFFICES ASSUME Init PROVE IInv
  OBVIOUS
<1>1. TypeOK
  <2>1. NoPayout \in PayoutRows
    BY DEF NoPayout, PayoutRows
  <2> QED
    BY <2>1, SettlementAssumption DEF Init, TypeOK, CPC, Answered, OPC
<1>2. \A g \in Groups : ledger[g] = 0
  BY DEF Init
<1>3. \A c \in Cancels : <<"refund_succeeded", c>> \in Groups
  BY DEF Groups
<1>4. \A p \in Payouts : <<"payout_paid", p>> \in Groups
  BY DEF Groups
<1>5. \A c \in Cancels : RefundGoesOn(c)
  <2> SUFFICES ASSUME NEW c \in Cancels PROVE RefundGoesOn(c)
    OBVIOUS
  <2>1. ~Posted(<<"refund_succeeded", c>>)
    BY <1>2, <1>3 DEF Posted
  <2>2. cpc[c] = "idle" /\ stripeRefund[c] = "none" /\ refundRow[c] = "none"
    BY DEF Init
  <2> QED
    BY <2>1, <2>2 DEF RefundGoesOn
<1>6. \A o \in Operators : OperatorGoesOn(o)
  BY DEF Init, OperatorGoesOn
<1>7. \A p \in Payouts : PayoutStands(p)
  <2> SUFFICES ASSUME NEW p \in Payouts PROVE PayoutStands(p)
    OBVIOUS
  <2>1. ~Posted(<<"payout_paid", p>>)
    BY <1>2, <1>4 DEF Posted
  <2>2. payout[p].status = "none" /\ ~payout[p].itemized /\ transfers[p] = 0
    BY DEF Init, NoPayout
  <2> QED
    BY <2>1, <2>2 DEF PayoutStands
<1> QED
  BY <1>1, <1>2, <1>5, <1>6, <1>7 DEF IInv

-----------------------------------------------------------------------------
(* The ledger and the payout rows.                                         *)

Once == \A g \in Groups : ledger[g] <= 1

\* What a posting leaves in the ledger.
LEMMA Postings ==
  ASSUME TypeOK, Once, NEW g \in Groups,
         Post(g) \/ InsertEntries(g) \/ UNCHANGED ledger
  PROVE  /\ ledger' \in [Groups -> Nat] /\ Once'
         /\ \A h \in Groups : Posted(h) => Posted(h)'
         /\ \A h \in Groups \ {g} : ledger'[h] = ledger[h]
         /\ Post(g) \/ InsertEntries(g) => Posted(g)'
<1>1. ledger \in [Groups -> Nat]
  BY DEF TypeOK
<1>2. CASE UNCHANGED ledger
  BY <1>1, <1>2 DEF Once, Post, InsertEntries, Posted
<1>3. CASE ledger[g] = 0 /\ ledger' = [ledger EXCEPT ![g] = ledger[g] + 1]
  <2>1. ledger' \in [Groups -> Nat] /\ ledger'[g] = 1
    BY <1>1, <1>3
  <2>2. \A h \in Groups \ {g} : ledger'[h] = ledger[h]
    BY <1>1, <1>3
  <2> QED
    BY <1>1, <2>1, <2>2 DEF Once, Posted
<1> QED
  BY <1>1, <1>2, <1>3 DEF Post, InsertEntries, Posted

\* The entry groups of a request and of a payout are different ones.
LEMMA GroupsDiffer ==
  /\ \A b \in Bookings : <<"payment_succeeded", b>> \in Groups
  /\ \A c \in Cancels : <<"refund_succeeded", c>> \in Groups
  /\ \A p \in Payouts : <<"payout_paid", p>> \in Groups
  /\ \A b, c, p : /\ <<"payment_succeeded", b>> # <<"refund_succeeded", c>>
                  /\ <<"payment_succeeded", b>> # <<"payout_paid", p>>
                  /\ <<"refund_succeeded", c>> # <<"payout_paid", p>>
  /\ \A c, d : <<"refund_succeeded", c>> = <<"refund_succeeded", d>> => c = d
  /\ \A c, d : <<"payout_paid", c>> = <<"payout_paid", d>> => c = d
BY DEF Groups

\* A posting of another kind leaves the entries of payouts alone.
LEMMA PostingElsewhere ==
  ASSUME TypeOK, Once, NEW g \in Groups, Post(g),
         \A p \in Payouts : <<"payout_paid", p>> # g
  PROVE  \A p \in Payouts : ledger'[<<"payout_paid", p>>] = ledger[<<"payout_paid", p>>]
<1>1. \A h \in Groups \ {g} : ledger'[h] = ledger[h]
  BY Postings
<1>2. \A p \in Payouts : <<"payout_paid", p>> \in Groups
  BY GroupsDiffer
<1> QED
  BY <1>1, <1>2

\* What a change of its status leaves of a payout.
LEMMA PayoutWritten ==
  ASSUME TypeOK, NEW p \in Payouts,
         NEW s \in {"none", "pending", "processing", "paid", "failed"}, SetPayout(p, s)
  PROVE  /\ payout' \in [Payouts -> PayoutRows]
         /\ payout'[p].status = s
         /\ payout'[p].booking = payout[p].booking
         /\ payout'[p].itemized = payout[p].itemized
         /\ \A q \in Payouts \ {p} : payout'[q] = payout[q]
<1>1. payout \in [Payouts -> PayoutRows] /\ payout[p] \in PayoutRows
  BY DEF TypeOK
<1> QED
  BY <1>1 DEF SetPayout, PayoutRows

\* The payout a scan or an administrator makes.
LEMMA PayoutMade ==
  ASSUME TypeOK, NEW b \in Bookings, NEW i \in BOOLEAN, CreatePayout(b, i)
  PROVE  /\ payout' \in [Payouts -> PayoutRows]
         /\ item' \in [Bookings -> Payouts \cup {None}]
         /\ \E p \in Payouts :
              /\ payout[p].status = "none"
              /\ payout'[p] = [booking |-> b, itemized |-> i, status |-> "pending"]
              /\ \A q \in Payouts \ {p} : payout'[q] = payout[q]
              /\ IF i THEN item[b] = None /\ item' = [item EXCEPT ![b] = p]
                 ELSE item' = item
<1>1. PICK p \in Payouts :
        /\ payout[p] = NoPayout
        /\ payout' = [payout EXCEPT ![p] =
                        [booking |-> b, itemized |-> i, status |-> "pending"]]
        /\ IF i THEN item[b] = None /\ item' = [item EXCEPT ![b] = p] ELSE item' = item
  BY DEF CreatePayout, CreateItem
<1>2. payout \in [Payouts -> PayoutRows] /\ item \in [Bookings -> Payouts \cup {None}]
  BY DEF TypeOK
<1>3. [booking |-> b, itemized |-> i, status |-> "pending"] \in PayoutRows
  BY DEF PayoutRows
<1>4. payout' \in [Payouts -> PayoutRows]
  BY <1>1, <1>2, <1>3
<1>5. item' \in [Bookings -> Payouts \cup {None}]
  BY <1>1, <1>2
<1> QED
  BY <1>1, <1>2, <1>4, <1>5 DEF NoPayout
-----------------------------------------------------------------------------
(* Types.                                                                  *)

\* Who a step is about, and what that refers to.
LEMMA CancelRefers ==
  ASSUME IInv, NEW c \in Cancels, cpc[c] # "idle" \/ stripeRefund[c] # "none"
  PROVE  cBooking[c] \in charged /\ cBooking[c] \in Bookings
BY DEF IInv, RefundGoesOn, TypeOK

LEMMA OperatorRefers ==
  ASSUME IInv, NEW o \in Operators, opc[o] \notin {"idle", "scan", "manual"}
  PROVE  /\ oPayout[o] \in Payouts /\ oPayout[o] # None
         /\ payout[oPayout[o]].status # "none"
         /\ <<"payout_paid", oPayout[o]>> \in Groups
BY GroupsDiffer DEF IInv, OperatorGoesOn, TypeOK

\* The statements of a refund keep the types.
LEMMA CancelTypes ==
  ASSUME IInv, NEW c \in Cancels, Cancelling(c)
  PROVE  TypeOK'
<1>0. TypeOK /\ Once
  BY DEF IInv, Once
<1>f. Fault => faults' \in 0..MaxFaults
  BY <1>0, SettlementAssumption DEF Fault, TypeOK
<1>r. ASSUME RefundFault(c), cBooking[c] \in Bookings
      PROVE  /\ faults' \in 0..MaxFaults /\ cpc' \in [Cancels -> CPC]
             /\ cut' \subseteq Cancels \cup Payouts /\ reopened' \subseteq Bookings
  BY <1>0, <1>f, <1>r DEF RefundFault, GotoC, TypeOK, CPC, Answered
<1> USE DEF GotoC, CPC, Answered, operatorVars, payoutVars, historyVars, NoRefundFault
<1>1. CASE CancelRead(c)
  BY <1>0, <1>1 DEF CancelRead, TypeOK
<1>2. CASE CreateRefund(c)
  BY <1>0, <1>2 DEF CreateRefund, TypeOK
<1>3. CASE AskStripe(c)
  <2>1. cBooking[c] \in Bookings
    BY <1>3, CancelRefers DEF AskStripe
  <2>2. stripeRefund' \in [Cancels -> {"none", "pending", "succeeded"}]
    BY <1>0, <1>3 DEF AskStripe, TypeOK
  <2>3. /\ faults' \in 0..MaxFaults /\ cpc' \in [Cancels -> CPC]
        /\ cut' \subseteq Cancels \cup Payouts /\ reopened' \subseteq Bookings
    BY <1>0, <1>3, <1>r, <2>1 DEF AskStripe, TypeOK
  <2> QED
    BY <1>0, <1>3, <2>2, <2>3 DEF AskStripe, TypeOK
<1>4. CASE WriteRefund(c)
  <2>1. cBooking[c] \in Bookings
    BY <1>4, CancelRefers DEF WriteRefund
  <2>2. refundRow' \in [Cancels -> {"none", "pending", "processing", "succeeded", "failed",
                                     "cancelled"}]
    BY <1>0, <1>4 DEF WriteRefund, NormalizedStatus, TypeOK
  <2>3. /\ faults' \in 0..MaxFaults /\ cpc' \in [Cancels -> CPC]
        /\ cut' \subseteq Cancels \cup Payouts /\ reopened' \subseteq Bookings
    BY <1>0, <1>4, <1>r, <2>1 DEF WriteRefund, TypeOK
  <2> QED
    BY <1>0, <1>4, <2>2, <2>3 DEF WriteRefund, TypeOK
<1>5. CASE WriteTransaction(c)
  <2>1. cBooking[c] \in Bookings
    BY <1>5, CancelRefers DEF WriteTransaction
  <2>2. txn' \in [Bookings -> {"pending", "completed", "processing", "refunded"}]
    BY <1>0, <1>5 DEF WriteTransaction, RefundTransaction, TypeOK
  <2>3. /\ faults' \in 0..MaxFaults /\ cpc' \in [Cancels -> CPC]
        /\ cut' \subseteq Cancels \cup Payouts /\ reopened' \subseteq Bookings
    BY <1>0, <1>5, <1>r, <2>1 DEF WriteTransaction, TypeOK
  <2> QED
    BY <1>0, <1>5, <2>2, <2>3 DEF WriteTransaction, TypeOK
<1>6. CASE PostRefund(c)
  <2>1. cBooking[c] \in Bookings
    BY <1>6, CancelRefers DEF PostRefund
  <2>2. ledger' \in [Groups -> Nat]
    BY <1>0, <1>6, Postings, GroupsDiffer DEF PostRefund
  <2>3. /\ faults' \in 0..MaxFaults /\ cpc' \in [Cancels -> CPC]
        /\ cut' \subseteq Cancels \cup Payouts /\ reopened' \subseteq Bookings
    BY <1>0, <1>6, <1>r, <2>1 DEF PostRefund, TypeOK
  <2> QED
    BY <1>0, <1>6, <2>2, <2>3 DEF PostRefund, TypeOK
<1>7. CASE FailRefund(c)
  BY <1>0, <1>7 DEF FailRefund, TypeOK
<1>8. CASE WriteCancelled(c)
  BY <1>0, <1>8 DEF WriteCancelled, TypeOK
<1>9. CASE RefundEvent(c)
  BY <1>0, <1>9 DEF RefundEvent, TypeOK
<1> QED
  BY <1>1, <1>2, <1>3, <1>4, <1>5, <1>6, <1>7, <1>8, <1>9 DEF Cancelling

\* The statements of a payout keep the types.
LEMMA PayoutTypes ==
  ASSUME IInv, NEW o \in Operators, PayingOut(o)
  PROVE  TypeOK'
<1>0. TypeOK /\ Once
  BY DEF IInv, Once
<1>r. ASSUME PayoutFault(o), oPayout[o] \in Payouts
      PROVE  /\ faults' \in 0..MaxFaults /\ opc' \in [Operators -> OPC]
             /\ cut' \subseteq Cancels \cup Payouts
  BY <1>0, <1>r, SettlementAssumption DEF PayoutFault, Fault, GotoO, TypeOK, OPC
<1>a. ASSUME Return(o)
      PROVE  /\ opc' \in [Operators -> OPC]
             /\ oPayout' \in [Operators -> Payouts \cup {None}]
             /\ oBooking' \in [Operators -> Bookings \cup {None}]
             /\ oList' \in [Operators -> SUBSET Bookings]
  BY <1>0, <1>a DEF Return, GotoO, TypeOK, OPC
<1> USE DEF GotoO, OPC, cancelVars, payoutVars, historyVars, NoPayoutFault
<1>1. CASE ScanRead(o)
  BY <1>0, <1>1 DEF ScanRead, EligibleBookings, TypeOK
<1>2. CASE ScanCreate(o)
  <2>1. PICK b \in oList[o] :
          /\ CreatePayout(b, TRUE)
          /\ oList' = [oList EXCEPT ![o] = @ \ {b}]
          /\ opc' = [opc EXCEPT ![o] = IF oList[o] = {b} THEN "idle" ELSE "scan"]
    BY <1>2 DEF ScanCreate
  <2>2. b \in Bookings
    BY <1>0, <2>1 DEF TypeOK
  <2>3. /\ payout' \in [Payouts -> PayoutRows]
        /\ item' \in [Bookings -> Payouts \cup {None}]
    BY <1>0, <2>1, <2>2, PayoutMade
  <2>4. oList' \in [Operators -> SUBSET Bookings] /\ opc' \in [Operators -> OPC]
    BY <1>0, <2>1 DEF TypeOK
  <2> QED
    BY <1>0, <1>2, <2>3, <2>4 DEF ScanCreate, TypeOK
<1>3. CASE ScanAborts(o)
  BY <1>0, <1>3, <1>a DEF ScanAborts, TypeOK
<1>4. CASE ManualRead(o)
  BY <1>0, <1>4 DEF ManualRead, TypeOK
<1>5. CASE ManualCreate(o)
  <2>1. oBooking[o] \in Bookings
    BY <1>5 DEF ManualCreate, IInv, OperatorGoesOn
  <2>2. /\ payout' \in [Payouts -> PayoutRows]
        /\ item' \in [Bookings -> Payouts \cup {None}]
    BY <1>0, <1>5, <2>1, PayoutMade DEF ManualCreate
  <2> QED
    BY <1>0, <1>5, <1>a, <2>2 DEF ManualCreate, TypeOK
<1>6. CASE TransferRead(o)
  BY <1>0, <1>6 DEF TransferRead, TypeOK
<1>7. CASE MarkProcessing(o)
  <2>1. payout' \in [Payouts -> PayoutRows]
    BY <1>0, <1>7, OperatorRefers, PayoutWritten DEF MarkProcessing
  <2> QED
    BY <1>0, <1>7, <2>1 DEF MarkProcessing, TypeOK
<1>8. CASE Transfer(o)
  <2>1. oPayout[o] \in Payouts
    BY <1>8, OperatorRefers DEF Transfer
  <2>2. transfers' \in [Payouts -> Nat]
    BY <1>0, <1>8, <2>1 DEF Transfer, TypeOK
  <2>3. /\ faults' \in 0..MaxFaults /\ opc' \in [Operators -> OPC]
        /\ cut' \subseteq Cancels \cup Payouts
    BY <1>0, <1>8, <1>r, <2>1 DEF Transfer, TypeOK
  <2> QED
    BY <1>0, <1>8, <2>2, <2>3 DEF Transfer, TypeOK
<1>9. CASE WritePaid(o)
  <2>1. oPayout[o] \in Payouts
    BY <1>9, OperatorRefers DEF WritePaid
  <2>2. payout' \in [Payouts -> PayoutRows]
    BY <1>0, <1>9, <2>1, PayoutWritten DEF WritePaid, TypeOK
  <2>3. /\ faults' \in 0..MaxFaults /\ opc' \in [Operators -> OPC]
        /\ cut' \subseteq Cancels \cup Payouts
    BY <1>0, <1>9, <1>r, <2>1 DEF WritePaid, TypeOK
  <2> QED
    BY <1>0, <1>9, <2>2, <2>3 DEF WritePaid, TypeOK
<1>10. CASE LookupPayoutGroup(o)
  <2>1. oPayout[o] \in Payouts
    BY <1>10, OperatorRefers DEF LookupPayoutGroup
  <2>2. /\ faults' \in 0..MaxFaults /\ opc' \in [Operators -> OPC]
        /\ cut' \subseteq Cancels \cup Payouts
    BY <1>0, <1>10, <1>r, <2>1 DEF LookupPayoutGroup, TypeOK
  <2> QED
    BY <1>0, <1>10, <2>2 DEF LookupPayoutGroup, TypeOK
<1>11. CASE PostPayout(o)
  <2>1. oPayout[o] \in Payouts /\ <<"payout_paid", oPayout[o]>> \in Groups
    BY <1>11, OperatorRefers DEF PostPayout
  <2>2. ledger' \in [Groups -> Nat]
    BY <1>0, <1>11, <2>1, Postings DEF PostPayout
  <2>3. /\ faults' \in 0..MaxFaults /\ opc' \in [Operators -> OPC]
        /\ cut' \subseteq Cancels \cup Payouts
    BY <1>0, <1>11, <1>r, <2>1 DEF PostPayout, TypeOK
  <2> QED
    BY <1>0, <1>11, <2>2, <2>3 DEF PostPayout, TypeOK
<1>12. CASE NotifyOwner(o)
  <2>1. oPayout[o] \in Payouts
    BY <1>12, OperatorRefers DEF NotifyOwner
  <2>2. faults' \in 0..MaxFaults /\ cut' \subseteq Cancels \cup Payouts
    BY <1>0, <1>12, <1>r, <2>1 DEF NotifyOwner, TypeOK
  <2>3. /\ opc' \in [Operators -> OPC]
        /\ oPayout' \in [Operators -> Payouts \cup {None}]
        /\ oBooking' \in [Operators -> Bookings \cup {None}]
        /\ oList' \in [Operators -> SUBSET Bookings]
    BY <1>0, <1>12, <1>r, <1>a, <2>1 DEF NotifyOwner, TypeOK
  <2> QED
    BY <1>0, <1>12, <2>2, <2>3 DEF NotifyOwner, TypeOK
<1>13. CASE FailPayout(o)
  <2>1. payout' \in [Payouts -> PayoutRows]
    BY <1>0, <1>13, OperatorRefers, PayoutWritten DEF FailPayout
  <2> QED
    BY <1>0, <1>13, <1>a, <2>1 DEF FailPayout, TypeOK
<1> QED
  BY <1>1, <1>2, <1>3, <1>4, <1>5, <1>6, <1>7, <1>8, <1>9, <1>10, <1>11, <1>12, <1>13
  DEF PayingOut

\* Every step keeps the types.
LEMMA NextTypeOK == IInv /\ [Next]_vars => TypeOK'
<1> SUFFICES ASSUME IInv, [Next]_vars PROVE TypeOK'
  OBVIOUS
<1>0. TypeOK /\ Once
  BY DEF IInv, Once
<1>1. ASSUME NEW b \in Bookings, PaymentSucceeded(b) PROVE TypeOK'
  <2>1. ledger' \in [Groups -> Nat]
    BY <1>0, <1>1, Postings, GroupsDiffer DEF PaymentSucceeded
  <2>2. faults' \in 0..MaxFaults
    BY <1>0, <1>1, SettlementAssumption DEF PaymentSucceeded, Fault, TypeOK
  <2> QED
    BY <1>0, <1>1, <2>1, <2>2
    DEF PaymentSucceeded, TypeOK, cancelVars, operatorVars, payoutVars
<1>2. CASE Stop
  <2> DEFINE stopped == {c \in Cancels : cpc[c] \notin {"idle", "done"}}
  <2>1. \A c \in stopped : cBooking[c] \in Bookings
    BY CancelRefers
  <2>2. reopened' \subseteq Bookings
    BY <1>0, <1>2, <2>1 DEF Stop, TypeOK
  <2>3. cut' \subseteq Cancels \cup Payouts
    BY <1>0, <1>2 DEF Stop, TypeOK
  <2>4. cpc' \in [Cancels -> CPC] /\ opc' \in [Operators -> OPC]
    BY <1>0, <1>2 DEF Stop, TypeOK, CPC, Answered, OPC
  <2>5. faults' \in 0..MaxFaults
    BY <1>0, <1>2, SettlementAssumption DEF Stop, Fault, TypeOK
  <2> QED
    BY <1>0, <1>2, <2>2, <2>3, <2>4, <2>5 DEF Stop, TypeOK, payoutVars
<1>3. CASE UNCHANGED vars
  BY <1>0, <1>3
  DEF vars, TypeOK, cancelVars, operatorVars, payoutVars, historyVars
<1>4. ASSUME NEW b \in Bookings, UpdateStatusByDates(b) PROVE TypeOK'
  BY <1>0, <1>4
  DEF UpdateStatusByDates, TypeOK, cancelVars, operatorVars, payoutVars, historyVars
<1> QED
  BY <1>1, <1>2, <1>3, <1>4, CancelTypes, PayoutTypes DEF Next
-----------------------------------------------------------------------------
(* Refunds.                                                                *)

\* A refund nobody works on keeps its state, however the rest moves on.
LEMMA RefundFrame ==
  ASSUME NEW d \in Cancels, RefundGoesOn(d),
         cpc'[d] = cpc[d], cBooking'[d] = cBooking[d],
         refundRow'[d] = refundRow[d], stripeRefund'[d] = stripeRefund[d],
         charged \subseteq charged', cut \subseteq cut', reopened \subseteq reopened',
         Posted(<<"refund_succeeded", d>>)' <=> Posted(<<"refund_succeeded", d>>),
         stripeRefund[d] # "none" /\ txn'[cBooking[d]] = "completed" =>
           txn[cBooking[d]] = "completed" \/ cBooking[d] \in reopened'
  PROVE  RefundGoesOn(d)'
BY DEF RefundGoesOn

\* A statement of one refund leaves all other refunds alone.
LEMMA OtherRefunds ==
  ASSUME IInv, NEW c \in Cancels, Cancelling(c), NEW d \in Cancels, d # c
  PROVE  RefundGoesOn(d)'
<1>0. /\ TypeOK /\ Once /\ RefundGoesOn(d)
      /\ stripeRefund[d] # "none" => cBooking[d] \in Bookings
  BY CancelRefers DEF IInv, Once
<1> USE DEF operatorVars, payoutVars, historyVars, NoRefundFault, RefundFault, GotoC
<1>1. /\ cpc'[d] = cpc[d] /\ cBooking'[d] = cBooking[d]
      /\ refundRow'[d] = refundRow[d] /\ stripeRefund'[d] = stripeRefund[d]
      /\ charged' = charged /\ cut \subseteq cut' /\ reopened \subseteq reopened'
  BY <1>0 DEF Cancelling, CancelRead, CreateRefund, AskStripe, WriteRefund,
              WriteTransaction, PostRefund, FailRefund, WriteCancelled, RefundEvent, TypeOK
<1>2. ledger'[<<"refund_succeeded", d>>] = ledger[<<"refund_succeeded", d>>]
  <2>1. CASE UNCHANGED ledger
    BY <2>1
  <2>2. CASE Post(<<"refund_succeeded", c>>)
    BY <1>0, <2>2, Postings, GroupsDiffer
  <2> QED
    BY <2>1, <2>2
    DEF Cancelling, CancelRead, CreateRefund, AskStripe, WriteRefund, WriteTransaction,
        PostRefund, FailRefund, WriteCancelled, RefundEvent
<1>3. stripeRefund[d] # "none" /\ txn'[cBooking[d]] = "completed" =>
        txn[cBooking[d]] = "completed"
  <2>1. CASE UNCHANGED txn
    BY <2>1
  <2>2. CASE RefundTransaction(c)
    BY <1>0, <2>2 DEF RefundTransaction, TypeOK
  <2> QED
    BY <2>1, <2>2
    DEF Cancelling, CancelRead, CreateRefund, AskStripe, WriteRefund, WriteTransaction,
        PostRefund, FailRefund, WriteCancelled, RefundEvent
<1> QED
  BY <1>0, <1>1, <1>2, <1>3, RefundFrame DEF Posted

\* A refund goes on as it should with each of its own statements.
LEMMA OwnRefund ==
  ASSUME IInv, NEW c \in Cancels, Cancelling(c)
  PROVE  RefundGoesOn(c)'
<1> DEFINE g == <<"refund_succeeded", c>>
<1>0. TypeOK /\ Once /\ RefundGoesOn(c) /\ g \in Groups
  BY GroupsDiffer DEF IInv, Once
<1>t. /\ cpc \in [Cancels -> CPC] /\ cBooking \in [Cancels -> Bookings \cup {None}]
      /\ refundRow \in
           [Cancels -> {"none", "pending", "processing", "succeeded", "failed", "cancelled"}]
      /\ stripeRefund \in [Cancels -> {"none", "pending", "succeeded"}]
      /\ txn \in [Bookings -> {"pending", "completed", "processing", "refunded"}]
  BY <1>0 DEF TypeOK
<1> USE DEF GotoC, Answered, RefundGoesOn, Posted, NoRefundFault, RefundFault, historyVars
<1>1. CASE CancelRead(c)
  BY <1>0, <1>t, <1>1 DEF CancelRead
<1>2. CASE CreateRefund(c)
  BY <1>0, <1>t, <1>2 DEF CreateRefund
<1>3. CASE AskStripe(c)
  <2>1. /\ cpc[c] = "row" /\ stripeRefund[c] = "none"
        /\ UNCHANGED <<txn, charged, cBooking, refundRow, ledger>>
    BY <1>0, <1>3 DEF AskStripe
  <2>2. CASE /\ \E s \in {"failed", "declined", "withdrawn"} : cpc' = [cpc EXCEPT ![c] = s]
             /\ UNCHANGED <<stripeRefund, cut, reopened>>
    BY <1>0, <1>t, <2>1, <2>2
  <2>3. CASE /\ \/ stripeRefund' = [stripeRefund EXCEPT ![c] = "succeeded"]
                \/ stripeRefund' = [stripeRefund EXCEPT ![c] = "pending"]
             /\ cpc' = [cpc EXCEPT ![c] = "failed"]
             /\ cut' = cut \cup {c} /\ reopened' = reopened \cup {cBooking[c]}
    BY <1>0, <1>t, <2>1, <2>3
  <2>4. CASE /\ stripeRefund' = [stripeRefund EXCEPT ![c] = "succeeded"]
             /\ cpc' = [cpc EXCEPT ![c] = "refunded"] /\ UNCHANGED <<cut, reopened>>
    BY <1>0, <1>t, <2>1, <2>4
  <2>5. CASE /\ stripeRefund' = [stripeRefund EXCEPT ![c] = "pending"]
             /\ cpc' = [cpc EXCEPT ![c] = "promised"] /\ UNCHANGED <<cut, reopened>>
    BY <1>0, <1>t, <2>1, <2>5
  <2> QED
    BY <1>3, <2>2, <2>3, <2>4, <2>5 DEF AskStripe
<1>4. CASE WriteRefund(c)
  BY <1>0, <1>t, <1>4 DEF WriteRefund, NormalizedStatus
<1>5. CASE WriteTransaction(c)
  <2>1. /\ cpc[c] = "row_written" /\ cBooking[c] \in Bookings
        /\ UNCHANGED <<charged, cBooking, refundRow, stripeRefund, ledger>>
    BY <1>5, CancelRefers DEF WriteTransaction
  <2>2. CASE /\ RefundTransaction(c)
             /\ cpc' = [cpc EXCEPT ![c] =
                          IF refundRow[c] = "succeeded" THEN "txn_written" ELSE "cancel"]
             /\ UNCHANGED <<cut, reopened>>
    <3>1. txn'[cBooking[c]] # "completed"
      BY <1>t, <2>1, <2>2 DEF RefundTransaction
    <3> QED
      BY <1>0, <1>t, <2>1, <2>2, <3>1
  <2>3. CASE RefundFault(c) /\ UNCHANGED txn
    BY <1>0, <1>t, <2>1, <2>3
  <2> QED
    BY <1>5, <2>2, <2>3 DEF WriteTransaction
<1>6. CASE PostRefund(c)
  <2>1. /\ cpc[c] = "txn_written"
        /\ UNCHANGED <<txn, charged, cBooking, refundRow, stripeRefund>>
    BY <1>6 DEF PostRefund
  <2>2. CASE Post(g) /\ cpc' = [cpc EXCEPT ![c] = "cancel"] /\ UNCHANGED <<cut, reopened>>
    <3>1. Posted(g)'
      BY <1>0, <2>2, Postings
    <3> QED
      BY <1>0, <1>t, <2>1, <2>2, <3>1
  <2>3. CASE RefundFault(c) /\ UNCHANGED ledger
    BY <1>0, <1>t, <2>1, <2>3
  <2> QED
    BY <1>6, <2>2, <2>3 DEF PostRefund
<1>7. CASE FailRefund(c)
  BY <1>0, <1>t, <1>7 DEF FailRefund
<1>8. CASE WriteCancelled(c)
  BY <1>0, <1>t, <1>8 DEF WriteCancelled
<1>9. CASE RefundEvent(c)
  BY <1>0, <1>t, <1>9 DEF RefundEvent
<1> QED
  BY <1>1, <1>2, <1>3, <1>4, <1>5, <1>6, <1>7, <1>8, <1>9 DEF Cancelling

\* Every step keeps the refunds going on.
LEMMA NextRefunds == IInv /\ [Next]_vars => \A c \in Cancels : RefundGoesOn(c)'
<1> SUFFICES ASSUME IInv, [Next]_vars, NEW d \in Cancels PROVE RefundGoesOn(d)'
  OBVIOUS
<1>0. /\ TypeOK /\ Once /\ RefundGoesOn(d) /\ <<"refund_succeeded", d>> \in Groups
      /\ stripeRefund[d] # "none" => cBooking[d] \in Bookings /\ cBooking[d] \in charged
  BY CancelRefers, GroupsDiffer DEF IInv, Once
<1>1. ASSUME NEW b \in Bookings, PaymentSucceeded(b) PROVE RefundGoesOn(d)'
  <2>1. ledger'[<<"refund_succeeded", d>>] = ledger[<<"refund_succeeded", d>>]
    BY <1>0, <1>1, Postings, GroupsDiffer DEF PaymentSucceeded
  <2>2. /\ UNCHANGED <<cpc, cBooking, refundRow, stripeRefund, cut>>
        /\ charged \subseteq charged' /\ reopened \subseteq reopened'
        /\ txn' = [txn EXCEPT ![b] = "completed"] /\ (b \in charged => b \in reopened')
    BY <1>1 DEF PaymentSucceeded, cancelVars
  <2>3. stripeRefund[d] # "none" /\ txn'[cBooking[d]] = "completed" =>
          txn[cBooking[d]] = "completed" \/ cBooking[d] \in reopened'
    BY <1>0, <2>2 DEF TypeOK
  <2> QED
    BY <1>0, <2>1, <2>2, <2>3, RefundFrame DEF Posted
<1>2. ASSUME NEW c \in Cancels, Cancelling(c) PROVE RefundGoesOn(d)'
  BY <1>2, OtherRefunds, OwnRefund
<1>3. ASSUME NEW o \in Operators, PayingOut(o) PROVE RefundGoesOn(d)'
  <2>1. ledger'[<<"refund_succeeded", d>>] = ledger[<<"refund_succeeded", d>>]
    <3>1. CASE UNCHANGED ledger
      BY <3>1
    <3>2. CASE opc[o] = "post" /\ InsertEntries(<<"payout_paid", oPayout[o]>>)
      <4>1. <<"payout_paid", oPayout[o]>> \in Groups
        BY <3>2, OperatorRefers
      <4> QED
        BY <1>0, <3>2, <4>1, Postings, GroupsDiffer
    <3> QED
      BY <1>3, <3>1, <3>2
      DEF PayingOut, ScanRead, ScanCreate, ScanAborts, ManualRead, ManualCreate,
          TransferRead, MarkProcessing, Transfer, WritePaid, LookupPayoutGroup, PostPayout,
          NotifyOwner, FailPayout
  <2>2. /\ UNCHANGED <<cpc, cBooking, refundRow, stripeRefund, txn, charged, reopened>>
        /\ cut \subseteq cut'
    BY <1>3
    DEF PayingOut, ScanRead, ScanCreate, ScanAborts, ManualRead, ManualCreate,
        TransferRead, MarkProcessing, Transfer, WritePaid, LookupPayoutGroup, PostPayout,
        NotifyOwner, FailPayout, cancelVars, historyVars, PayoutFault, NoPayoutFault
  <2> QED
    BY <1>0, <2>1, <2>2, RefundFrame DEF Posted
<1>4. CASE Stop
  <2>1. /\ UNCHANGED <<cBooking, refundRow, stripeRefund, txn, charged, ledger>>
        /\ cut \subseteq cut' /\ reopened \subseteq reopened'
    BY <1>4 DEF Stop
  <2>2. CASE cpc[d] \in {"idle", "done"}
    <3>1. cpc'[d] = cpc[d]
      BY <1>4, <2>2 DEF Stop
    <3> QED
      BY <1>0, <2>1, <3>1, RefundFrame DEF Posted
  <2>3. CASE cpc[d] \notin {"idle", "done"}
    <3>1. cpc'[d] = "done" /\ d \in cut' /\ cBooking[d] \in reopened'
      BY <1>4, <2>3 DEF Stop
    <3> QED
      BY <1>0, <2>1, <2>3, <3>1 DEF RefundGoesOn, Posted, Answered
  <2> QED
    BY <2>2, <2>3
<1>5. CASE UNCHANGED vars
  BY <1>0, <1>5, RefundFrame DEF vars, cancelVars, historyVars, Posted
<1>6. ASSUME NEW b \in Bookings, UpdateStatusByDates(b) PROVE RefundGoesOn(d)'
  BY <1>0, <1>6, RefundFrame DEF UpdateStatusByDates, cancelVars, historyVars, Posted
<1> QED
  BY <1>1, <1>2, <1>3, <1>4, <1>5, <1>6 DEF Next
-----------------------------------------------------------------------------
(* Payouts.                                                                *)

PayoutSide ==
  /\ \A o \in Operators : OperatorGoesOn(o)
  /\ \A p \in Payouts : PayoutStands(p)

\* Steps that touch no payout keep the payouts.
LEMMA PayoutFrame ==
  ASSUME PayoutSide,
         UNCHANGED <<opc, oPayout, oBooking, oList, payout, item, transfers, raced>>,
         cut \subseteq cut',
         \A p \in Payouts :
           Posted(<<"payout_paid", p>>)' <=> Posted(<<"payout_paid", p>>),
         \A o \in Operators : oPayout[o] \in Payouts \cup {None}
  PROVE  PayoutSide'
<1>1. \A o \in Operators : OperatorGoesOn(o)'
  BY DEF PayoutSide, OperatorGoesOn
<1>2. \A p \in Payouts : PayoutStands(p)'
  BY DEF PayoutSide, PayoutStands
<1> QED
  BY <1>1, <1>2 DEF PayoutSide

\* A step of an operator on his payout concerns no other payout, and those who
\* work on it too have raced with him.
LEMMA OthersOnPayouts ==
  ASSUME TypeOK, PayoutSide, NEW o \in Operators, NEW p \in Payouts, oPayout[o] = p,
         UNCHANGED <<raced, item>>,
         \A q \in Operators \ {o} :
           /\ opc'[q] = opc[q] /\ oPayout'[q] = oPayout[q]
           /\ oBooking'[q] = oBooking[q] /\ oList'[q] = oList[q],
         oPayout'[o] \in {p, None},
         \A d \in Payouts \ {p} :
           /\ payout'[d] = payout[d] /\ transfers'[d] = transfers[d]
           /\ Posted(<<"payout_paid", d>>)' <=> Posted(<<"payout_paid", d>>),
         payout'[p].status # "none",
         transfers[p] > 0 => transfers'[p] > 0,
         cut \subseteq cut'
  PROVE  /\ \A q \in Operators \ {o} : OperatorGoesOn(q)'
         /\ \A d \in Payouts \ {p} : PayoutStands(d)'
<1>0. /\ \A q \in Operators : oPayout[q] \in Payouts \cup {None}
      /\ None \notin Payouts
  BY SettlementAssumption DEF TypeOK
<1>1. ASSUME NEW q \in Operators \ {o} PROVE OperatorGoesOn(q)'
  <2>0. OperatorGoesOn(q) /\ OperatorGoesOn(o)
    BY DEF PayoutSide
  <2>1. CASE oPayout[q] = p
    <3>1. p \in raced
      BY <1>0, <2>0, <2>1 DEF OperatorGoesOn
    <3> QED
      BY <1>0, <2>0, <2>1, <3>1 DEF OperatorGoesOn
  <2>2. CASE oPayout[q] = None
    BY <1>0, <2>0, <2>2 DEF OperatorGoesOn
  <2>3. CASE oPayout[q] \in Payouts \ {p}
    <3>1. \A u \in Operators : oPayout'[u] = oPayout[q] => oPayout[u] = oPayout[q]
      BY <1>0, <2>3
    <3> QED
      BY <1>0, <2>0, <2>3, <3>1 DEF OperatorGoesOn
  <2> QED
    BY <1>0, <2>1, <2>2, <2>3
<1>2. ASSUME NEW d \in Payouts \ {p} PROVE PayoutStands(d)'
  <2>1. PayoutStands(d)
    BY DEF PayoutSide
  <2>2. ASSUME NEW q \in Operators, oPayout[q] = d, opc[q] \in {"paid", "post"}
        PROVE  oPayout'[q] = d /\ opc'[q] \in {"paid", "post"}
    BY <2>2
  <2> QED
    BY <2>1, <2>2 DEF PayoutStands
<1> QED
  BY <1>1, <1>2

\* Steps before a transfer: of an operator without a payout.
LEMMA ScansKeepPayouts ==
  ASSUME IInv, NEW o \in Operators,
         ScanRead(o) \/ ScanAborts(o) \/ ManualRead(o)
  PROVE  PayoutSide'
<1>0. TypeOK /\ PayoutSide /\ None \notin Payouts
  BY SettlementAssumption DEF IInv, PayoutSide
<1>1. /\ opc[o] \in {"idle", "scan", "manual"} /\ oPayout[o] = None
      /\ UNCHANGED <<payout, item, transfers, ledger, raced, cut>>
  BY <1>0
  DEF ScanRead, ScanAborts, ManualRead, payoutVars, historyVars, PayoutSide,
      OperatorGoesOn
<1>2. \A q \in Operators \ {o} :
        /\ opc'[q] = opc[q] /\ oPayout'[q] = oPayout[q]
        /\ oBooking'[q] = oBooking[q] /\ oList'[q] = oList[q]
  BY <1>0 DEF ScanRead, ScanAborts, ManualRead, Return, GotoO, TypeOK
<1>3. /\ oPayout'[o] = None /\ opc'[o] \in {"idle", "scan", "manual"}
      /\ opc'[o] = "manual" => oBooking'[o] \in Bookings
      /\ opc'[o] = "idle" => oList'[o] = {}
  BY <1>0, <1>1 DEF ScanRead, ScanAborts, ManualRead, Return, GotoO, TypeOK
<1>4. OperatorGoesOn(o)'
  BY <1>3 DEF OperatorGoesOn
<1>5. ASSUME NEW q \in Operators \ {o} PROVE OperatorGoesOn(q)'
  <2>1. OperatorGoesOn(q)
    BY <1>0 DEF PayoutSide
  <2>2. \A u \in Operators : oPayout'[u] = oPayout[u]
    BY <1>1, <1>2, <1>3
  <2> QED
    BY <1>1, <1>2, <2>1, <2>2 DEF OperatorGoesOn, Posted
<1>6. ASSUME NEW p \in Payouts PROVE PayoutStands(p)'
  <2>1. PayoutStands(p)
    BY <1>0 DEF PayoutSide
  <2>2. ASSUME NEW q \in Operators, oPayout[q] = p, opc[q] \in {"paid", "post"}
        PROVE  oPayout'[q] = p /\ opc'[q] \in {"paid", "post"}
    BY <1>1, <1>2, <2>2
  <2> QED
    BY <1>1, <2>1, <2>2 DEF PayoutStands, Posted
<1> QED
  BY <1>4, <1>5, <1>6 DEF PayoutSide

\* A payout that is made is new to everybody.
LEMMA CreatesKeepPayouts ==
  ASSUME IInv, NEW o \in Operators, ScanCreate(o) \/ ManualCreate(o)
  PROVE  PayoutSide'
<1>0. TypeOK /\ PayoutSide /\ None \notin Payouts
  BY SettlementAssumption DEF IInv, PayoutSide
<1>1. PICK b \in Bookings, i \in BOOLEAN : CreatePayout(b, i)
  BY <1>0 DEF ScanCreate, ManualCreate, PayoutSide, OperatorGoesOn, TypeOK
<1>2. PICK p \in Payouts :
        /\ payout[p].status = "none"
        /\ payout'[p] = [booking |-> b, itemized |-> i, status |-> "pending"]
        /\ \A q \in Payouts \ {p} : payout'[q] = payout[q]
        /\ IF i THEN item[b] = None /\ item' = [item EXCEPT ![b] = p] ELSE item' = item
  BY <1>0, <1>1, PayoutMade
<1>3. /\ oPayout[o] = None /\ UNCHANGED <<transfers, ledger, raced, cut>>
      /\ opc[o] \in {"scan", "manual"}
  BY <1>0 DEF ScanCreate, ManualCreate, historyVars, PayoutSide, OperatorGoesOn
<1>4. \A q \in Operators \ {o} :
        /\ opc'[q] = opc[q] /\ oPayout'[q] = oPayout[q]
        /\ oBooking'[q] = oBooking[q] /\ oList'[q] = oList[q]
  BY <1>0 DEF ScanCreate, ManualCreate, Return, GotoO, TypeOK
<1>5. /\ oPayout'[o] = None /\ opc'[o] \in {"idle", "scan"}
      /\ opc'[o] = "idle" => oList'[o] = {}
  <2>1. CASE ManualCreate(o)
    BY <1>0, <2>1 DEF ManualCreate, Return, GotoO, TypeOK
  <2>2. CASE ScanCreate(o)
    <3>1. PICK a \in oList[o] :
            /\ oList' = [oList EXCEPT ![o] = oList[o] \ {a}]
            /\ opc' = [opc EXCEPT ![o] = IF oList[o] = {a} THEN "idle" ELSE "scan"]
            /\ oPayout' = oPayout
      BY <2>2 DEF ScanCreate, GotoO
    <3>2. /\ oList'[o] = oList[o] \ {a}
          /\ opc'[o] = IF oList[o] = {a} THEN "idle" ELSE "scan"
      BY <1>0, <3>1 DEF TypeOK
    <3> QED
      BY <1>3, <3>1, <3>2
  <2> QED
    BY <2>1, <2>2
<1>6. OperatorGoesOn(o)'
  BY <1>5 DEF OperatorGoesOn
<1>7. ASSUME NEW q \in Operators \ {o} PROVE OperatorGoesOn(q)'
  <2>1. OperatorGoesOn(q)
    BY <1>0 DEF PayoutSide
  <2>2. \A u \in Operators : oPayout'[u] = oPayout[u]
    BY <1>3, <1>4, <1>5
  <2>3. oPayout[q] # None => oPayout[q] \in Payouts \ {p}
    BY <1>0, <1>2, <2>1 DEF OperatorGoesOn, TypeOK
  <2> QED
    BY <1>2, <1>3, <1>4, <2>1, <2>2, <2>3 DEF OperatorGoesOn, Posted
<1>8. PayoutStands(p)'
  <2>1. transfers[p] = 0 /\ ~Posted(<<"payout_paid", p>>)
    BY <1>0, <1>2 DEF PayoutSide, PayoutStands, TypeOK
  <2>2. i => item'[b] = p
    BY <1>0, <1>2 DEF TypeOK
  <2> QED
    BY <1>2, <1>3, <2>1, <2>2 DEF PayoutStands, Posted
<1>9. ASSUME NEW d \in Payouts \ {p} PROVE PayoutStands(d)'
  <2>1. PayoutStands(d)
    BY <1>0 DEF PayoutSide
  <2>2. \A a \in Bookings : item[a] = d => item'[a] = d
    BY <1>0, <1>2 DEF TypeOK
  <2>3. ASSUME NEW q \in Operators, oPayout[q] = d, opc[q] \in {"paid", "post"}
        PROVE  oPayout'[q] = d /\ opc'[q] \in {"paid", "post"}
    BY <1>3, <1>4, <2>3
  <2> QED
    BY <1>2, <1>3, <2>1, <2>2, <2>3 DEF PayoutStands, Posted
<1> QED
  BY <1>6, <1>7, <1>8, <1>9 DEF PayoutSide
\* Reading a payout to transfer it: alone with it, or in a race.
LEMMA TransferReadKeeps ==
  ASSUME IInv, NEW o \in Operators, TransferRead(o)
  PROVE  PayoutSide'
<1>0. TypeOK /\ PayoutSide /\ None \notin Payouts
  BY SettlementAssumption DEF IInv, PayoutSide
<1>1. PICK p \in Payouts :
        /\ payout[p].status = "pending"
        /\ oPayout' = [oPayout EXCEPT ![o] = p]
        /\ raced' = IF \E q \in Operators : oPayout[q] = p THEN raced \cup {p} ELSE raced
  BY DEF TransferRead, Processable
<1>2. /\ opc[o] = "idle" /\ oPayout[o] = None /\ opc' = [opc EXCEPT ![o] = "pending"]
      /\ UNCHANGED <<oBooking, oList, payout, item, transfers, ledger, cut>>
  BY <1>0 DEF TransferRead, GotoO, payoutVars, PayoutSide, OperatorGoesOn
<1>3. /\ oPayout'[o] = p /\ opc'[o] = "pending"
      /\ \A q \in Operators \ {o} : oPayout'[q] = oPayout[q] /\ opc'[q] = opc[q]
      /\ raced \subseteq raced'
      /\ p \notin raced' => p \notin raced /\ \A q \in Operators : oPayout[q] # p
  BY <1>0, <1>1, <1>2 DEF TypeOK
<1>4. OperatorGoesOn(o)'
  <2>1. p \notin raced' => transfers[p] = 0 /\ ~Posted(<<"payout_paid", p>>)
    BY <1>0, <1>1, <1>3 DEF PayoutSide, PayoutStands
  <2> QED
    BY <1>0, <1>1, <1>2, <1>3, <2>1 DEF OperatorGoesOn, Posted
<1>5. ASSUME NEW q \in Operators \ {o} PROVE OperatorGoesOn(q)'
  <2>1. OperatorGoesOn(q)
    BY <1>0 DEF PayoutSide
  <2>2. oPayout[q] \notin raced' /\ oPayout[q] # None => oPayout[q] # p
    BY <1>3
  <2> QED
    BY <1>0, <1>2, <1>3, <2>1, <2>2 DEF OperatorGoesOn, Posted
<1>6. ASSUME NEW d \in Payouts PROVE PayoutStands(d)'
  <2>1. PayoutStands(d)
    BY <1>0 DEF PayoutSide
  <2>2. ASSUME NEW q \in Operators, oPayout[q] = d, opc[q] \in {"paid", "post"}
        PROVE  oPayout'[q] = d /\ opc'[q] \in {"paid", "post"}
    BY <1>2, <1>3, <2>2
  <2> QED
    BY <1>2, <1>3, <2>1, <2>2 DEF PayoutStands, Posted
<1> QED
  BY <1>4, <1>5, <1>6 DEF PayoutSide

\* An operator at work on his payout.
LEMMA TransferKeeps ==
  ASSUME IInv, NEW o \in Operators,
         \/ MarkProcessing(o) \/ Transfer(o) \/ WritePaid(o) \/ LookupPayoutGroup(o)
         \/ PostPayout(o) \/ NotifyOwner(o) \/ FailPayout(o)
  PROVE  PayoutSide'
<1> PICK p \in Payouts \cup {None} : p = oPayout[o]
  BY DEF IInv, TypeOK
<1> DEFINE g == <<"payout_paid", p>>
<1>0. /\ TypeOK /\ Once /\ PayoutSide /\ None \notin Payouts
      /\ OperatorGoesOn(o)
  BY SettlementAssumption DEF IInv, PayoutSide, Once
<1>1. /\ p \in Payouts /\ p # None /\ payout[p].status # "none" /\ g \in Groups
      /\ PayoutStands(p) /\ transfers[p] \in Nat
  BY <1>0, OperatorRefers
  DEF MarkProcessing, Transfer, WritePaid, LookupPayoutGroup, PostPayout, NotifyOwner,
      FailPayout, PayoutSide, TypeOK
<1> USE DEF GotoO
<1>2. /\ UNCHANGED <<raced, item>> /\ cut \subseteq cut'
      /\ \A q \in Operators \ {o} :
           /\ opc'[q] = opc[q] /\ oPayout'[q] = oPayout[q]
           /\ oBooking'[q] = oBooking[q] /\ oList'[q] = oList[q]
      /\ oPayout'[o] \in {p, None}
  BY <1>0
  DEF MarkProcessing, Transfer, WritePaid, LookupPayoutGroup, PostPayout, NotifyOwner,
      FailPayout, Return, PayoutFault, NoPayoutFault, historyVars, payoutVars, TypeOK
<1>a. ASSUME /\ \A d \in Payouts \ {p} : payout'[d] = payout[d]
             /\ payout'[p].status # "none"
             /\ \A d \in Payouts \ {p} : transfers'[d] = transfers[d]
             /\ transfers[p] > 0 => transfers'[p] > 0
             /\ \A d \in Payouts \ {p} :
                  Posted(<<"payout_paid", d>>)' <=> Posted(<<"payout_paid", d>>),
             OperatorGoesOn(o)', PayoutStands(p)'
      PROVE  PayoutSide'
  BY <1>0, <1>1, <1>2, <1>a, OthersOnPayouts DEF PayoutSide
\* Once somebody else has no part in it, p is o's alone.
<1>3. p \notin raced =>
        /\ \A q \in Operators : oPayout[q] = p => q = o
        /\ \A q \in Operators : oPayout'[q] = p => q = o
  BY <1>0, <1>1, <1>2 DEF OperatorGoesOn
<1>4. ASSUME PayoutFault(o)
      PROVE  opc'[o] = "failed" /\ p \in cut'
  BY <1>0, <1>4 DEF PayoutFault, TypeOK
<1>5. CASE MarkProcessing(o)
  <2>1. /\ SetPayout(p, "processing") /\ opc[o] = "pending" /\ opc'[o] = "marked"
        /\ UNCHANGED <<oPayout, transfers, ledger>>
    BY <1>0, <1>5 DEF MarkProcessing, TypeOK
  <2>2. /\ \A d \in Payouts \ {p} : payout'[d] = payout[d]
        /\ payout'[p].status = "processing"
        /\ payout'[p].booking = payout[p].booking
        /\ payout'[p].itemized = payout[p].itemized
    BY <1>0, <1>1, <2>1, PayoutWritten
  <2>3. OperatorGoesOn(o)'
    BY <1>0, <1>1, <1>2, <1>3, <2>1, <2>2 DEF OperatorGoesOn, Posted
  <2>4. PayoutStands(p)'
    BY <1>1, <1>2, <2>1, <2>2 DEF PayoutStands, Posted
  <2> QED
    BY <1>a, <2>1, <2>2, <2>3, <2>4 DEF Posted
<1>6. CASE Transfer(o)
  <2>1. opc[o] = "marked" /\ UNCHANGED <<oPayout, payout, ledger>>
    BY <1>6 DEF Transfer
  <2>2. CASE /\ transfers' = [transfers EXCEPT ![p] = transfers[p] + 1]
             /\ opc'[o] = "sent" \/ (opc'[o] = "failed" /\ p \in cut')
    <3>1. /\ transfers'[p] = transfers[p] + 1 /\ transfers'[p] > 0
          /\ \A d \in Payouts \ {p} : transfers'[d] = transfers[d]
      BY <1>0, <1>1, <2>2 DEF TypeOK
    <3>2. OperatorGoesOn(o)'
      BY <1>0, <1>1, <1>2, <1>3, <2>1, <2>2, <3>1 DEF OperatorGoesOn, Posted
    <3>3. PayoutStands(p)'
      <4>1. p \notin raced => payout[p].status = "processing" /\ transfers[p] = 0
        BY <1>0, <1>1, <2>1 DEF OperatorGoesOn
      <4>2. ASSUME NEW q \in Operators, oPayout[q] = p, opc[q] \in {"paid", "post"}
            PROVE  oPayout'[q] = p /\ opc'[q] \in {"paid", "post"}
        BY <1>2, <2>1, <4>2
      <4> QED
        BY <1>1, <1>2, <2>1, <3>1, <4>1, <4>2 DEF PayoutStands, Posted
    <3> QED
      BY <1>1, <1>a, <2>1, <3>1, <3>2, <3>3 DEF Posted
  <2>3. CASE opc'[o] = "failed" /\ UNCHANGED transfers
    <3>1. OperatorGoesOn(o)'
      BY <1>0, <1>1, <1>2, <1>3, <2>1, <2>3 DEF OperatorGoesOn, Posted
    <3>2. PayoutStands(p)'
      <4>1. ASSUME NEW q \in Operators, oPayout[q] = p, opc[q] \in {"paid", "post"}
            PROVE  oPayout'[q] = p /\ opc'[q] \in {"paid", "post"}
        BY <1>2, <2>1, <4>1
      <4> QED
        BY <1>1, <1>2, <2>1, <2>3, <4>1 DEF PayoutStands, Posted
    <3> QED
      BY <1>1, <1>a, <2>1, <2>3, <3>1, <3>2 DEF Posted
  <2> QED
    BY <1>0, <1>4, <1>6, <2>2, <2>3 DEF Transfer, TypeOK
<1>7. CASE WritePaid(o)
  <2>1. opc[o] = "sent" /\ UNCHANGED <<oPayout, transfers, ledger>>
    BY <1>7 DEF WritePaid
  <2>2. CASE SetPayout(p, "paid") /\ opc'[o] = "paid"
    <3>1. /\ \A d \in Payouts \ {p} : payout'[d] = payout[d]
          /\ payout'[p].status = "paid"
          /\ payout'[p].booking = payout[p].booking
          /\ payout'[p].itemized = payout[p].itemized
      BY <1>0, <1>1, <2>2, PayoutWritten
    <3>2. OperatorGoesOn(o)'
      BY <1>0, <1>1, <1>2, <1>3, <2>1, <2>2, <3>1 DEF OperatorGoesOn, Posted
    <3>3. PayoutStands(p)'
      BY <1>1, <1>2, <2>1, <2>2, <3>1 DEF PayoutStands, Posted
    <3> QED
      BY <1>a, <2>1, <3>1, <3>2, <3>3 DEF Posted
  <2>3. CASE PayoutFault(o) /\ UNCHANGED payout
    <3>1. OperatorGoesOn(o)'
      BY <1>0, <1>1, <1>2, <1>3, <1>4, <2>1, <2>3 DEF OperatorGoesOn, Posted
    <3>2. PayoutStands(p)'
      BY <1>1, <1>2, <1>4, <2>1, <2>3 DEF PayoutStands, Posted
    <3> QED
      BY <1>1, <1>a, <2>1, <2>3, <3>1, <3>2 DEF Posted
  <2> QED
    BY <1>0, <1>7, <2>2, <2>3 DEF WritePaid, TypeOK
<1>8. CASE LookupPayoutGroup(o)
  <2>1. /\ opc[o] = "paid" /\ UNCHANGED <<oPayout, payout, transfers, ledger>>
        /\ \/ opc'[o] = "notify" /\ Posted(g)
           \/ opc'[o] = "post" /\ ~Posted(g)
           \/ opc'[o] = "failed" /\ p \in cut'
    BY <1>0, <1>4, <1>8 DEF LookupPayoutGroup, payoutVars, TypeOK
  <2>2. OperatorGoesOn(o)'
    BY <1>0, <1>1, <1>2, <1>3, <2>1 DEF OperatorGoesOn, Posted
  <2>3. PayoutStands(p)'
    <3>1. ASSUME NEW q \in Operators \ {o}, oPayout[q] = p, opc[q] \in {"paid", "post"}
          PROVE  oPayout'[q] = p /\ opc'[q] \in {"paid", "post"}
      BY <1>2, <3>1
    <3> QED
      BY <1>1, <1>2, <2>1, <3>1 DEF PayoutStands, Posted
  <2> QED
    BY <1>1, <1>a, <2>1, <2>2, <2>3 DEF Posted
<1>9. CASE PostPayout(o)
  <2>1. opc[o] = "post" /\ UNCHANGED <<oPayout, payout, transfers>>
    BY <1>9 DEF PostPayout, payoutVars
  <2>2. CASE InsertEntries(g) /\ opc'[o] = "notify"
    <3>1. Posted(g)'
      BY <1>0, <1>1, <2>2, Postings
    <3>2. \A d \in Payouts \ {p} :
            Posted(<<"payout_paid", d>>)' <=> Posted(<<"payout_paid", d>>)
      <4> SUFFICES ASSUME NEW d \in Payouts \ {p}
                   PROVE  ledger'[<<"payout_paid", d>>] = ledger[<<"payout_paid", d>>]
        BY DEF Posted
      <4>1. <<"payout_paid", d>> \in Groups \ {g}
        BY GroupsDiffer
      <4> QED
        BY <1>0, <1>1, <2>2, <4>1, Postings
    <3>3. OperatorGoesOn(o)'
      BY <1>0, <1>1, <1>2, <1>3, <2>1, <2>2 DEF OperatorGoesOn
    <3>4. PayoutStands(p)'
      <4>1. transfers[p] > 0
        BY <1>0, <2>1 DEF OperatorGoesOn
      <4>2. p \notin raced => payout[p].status # "pending"
        BY <1>1, <4>1 DEF PayoutStands
      <4> QED
        BY <1>1, <1>2, <2>1, <3>1, <4>1, <4>2 DEF PayoutStands
    <3> QED
      BY <1>1, <1>a, <2>1, <3>2, <3>3, <3>4
  <2>3. CASE /\ UNCHANGED ledger /\ opc'[o] = "failed"
             /\ Posted(g) \/ p \in cut'
    <3>1. OperatorGoesOn(o)'
      BY <1>0, <1>1, <1>2, <1>3, <2>1, <2>3 DEF OperatorGoesOn, Posted
    <3>2. PayoutStands(p)'
      BY <1>1, <1>2, <2>1, <2>3 DEF PayoutStands, Posted
    <3> QED
      BY <1>1, <1>a, <2>1, <2>3, <3>1, <3>2 DEF Posted
  <2> QED
    BY <1>0, <1>4, <1>9, <2>2, <2>3 DEF PostPayout, TypeOK
<1>10. CASE NotifyOwner(o)
  <2>1. /\ opc[o] = "notify" /\ UNCHANGED <<payout, transfers, ledger>>
        /\ \/ opc'[o] = "failed" /\ p \in cut' /\ oPayout'[o] = p
           \/ opc'[o] = "idle" /\ oPayout'[o] = None /\ oList'[o] = {}
    BY <1>0, <1>4, <1>10 DEF NotifyOwner, Return, payoutVars, TypeOK
  <2>2. OperatorGoesOn(o)'
    BY <1>0, <1>1, <1>2, <1>3, <2>1 DEF OperatorGoesOn, Posted
  <2>3. PayoutStands(p)'
    <3>1. ASSUME NEW q \in Operators, oPayout[q] = p, opc[q] \in {"paid", "post"}
          PROVE  oPayout'[q] = p /\ opc'[q] \in {"paid", "post"}
      BY <1>2, <2>1, <3>1
    <3> QED
      BY <1>1, <1>2, <2>1, <3>1 DEF PayoutStands, Posted
  <2> QED
    BY <1>1, <1>a, <2>1, <2>2, <2>3 DEF Posted
<1>11. CASE FailPayout(o)
  <2>1. /\ opc[o] = "failed" /\ SetPayout(p, "failed")
        /\ UNCHANGED <<transfers, ledger, cut>>
        /\ opc'[o] = "idle" /\ oPayout'[o] = None /\ oList'[o] = {}
    BY <1>0, <1>11 DEF FailPayout, Return, historyVars, TypeOK
  <2>2. /\ \A d \in Payouts \ {p} : payout'[d] = payout[d]
        /\ payout'[p].status = "failed"
        /\ payout'[p].booking = payout[p].booking
        /\ payout'[p].itemized = payout[p].itemized
    BY <1>0, <1>1, <2>1, PayoutWritten
  <2>3. OperatorGoesOn(o)'
    BY <2>1 DEF OperatorGoesOn
  <2>4. PayoutStands(p)'
    <3>1. p \notin raced => p \in cut \/ transfers[p] = 0
      BY <1>0, <1>1, <2>1 DEF OperatorGoesOn
    <3> QED
      BY <1>1, <1>2, <2>1, <2>2, <3>1 DEF PayoutStands, Posted
  <2> QED
    BY <1>a, <2>1, <2>2, <2>3, <2>4 DEF Posted
<1> QED
  BY <1>5, <1>6, <1>7, <1>8, <1>9, <1>10, <1>11

\* Every step keeps the payouts.
LEMMA NextPayouts == IInv /\ [Next]_vars => PayoutSide'
<1> SUFFICES ASSUME IInv, [Next]_vars PROVE PayoutSide'
  OBVIOUS
<1>0. /\ TypeOK /\ Once /\ PayoutSide
      /\ \A o \in Operators : oPayout[o] \in Payouts \cup {None}
  BY DEF IInv, Once, PayoutSide, TypeOK
<1>1. ASSUME NEW b \in Bookings, PaymentSucceeded(b) PROVE PayoutSide'
  <2>1. \A p \in Payouts : ledger'[<<"payout_paid", p>>] = ledger[<<"payout_paid", p>>]
    BY <1>0, <1>1, PostingElsewhere, GroupsDiffer DEF PaymentSucceeded
  <2> QED
    BY <1>0, <1>1, <2>1, PayoutFrame
    DEF PaymentSucceeded, operatorVars, payoutVars, Posted
<1>2. ASSUME NEW c \in Cancels, Cancelling(c) PROVE PayoutSide'
  <2>1. \A p \in Payouts : ledger'[<<"payout_paid", p>>] = ledger[<<"payout_paid", p>>]
    <3>1. CASE UNCHANGED ledger
      BY <3>1
    <3>2. CASE Post(<<"refund_succeeded", c>>)
      BY <1>0, <3>2, PostingElsewhere, GroupsDiffer
    <3> QED
      BY <1>2, <3>1, <3>2
      DEF Cancelling, CancelRead, CreateRefund, AskStripe, WriteRefund, WriteTransaction,
          PostRefund, FailRefund, WriteCancelled, RefundEvent
  <2>2. /\ UNCHANGED <<opc, oPayout, oBooking, oList, payout, item, transfers, raced>>
        /\ cut \subseteq cut'
    BY <1>2
    DEF Cancelling, CancelRead, CreateRefund, AskStripe, WriteRefund, WriteTransaction,
        PostRefund, FailRefund, WriteCancelled, RefundEvent, operatorVars, payoutVars,
        historyVars, RefundFault, NoRefundFault
  <2> QED
    BY <1>0, <2>1, <2>2, PayoutFrame DEF Posted
<1>3. ASSUME NEW o \in Operators, PayingOut(o) PROVE PayoutSide'
  BY <1>3, ScansKeepPayouts, CreatesKeepPayouts, TransferReadKeeps, TransferKeeps
  DEF PayingOut
<1>4. CASE Stop
  <2>1. /\ UNCHANGED <<payout, item, transfers, ledger, raced>> /\ cut \subseteq cut'
        /\ \A o \in Operators : /\ opc'[o] = "idle" /\ oPayout'[o] = None
                                /\ oList'[o] = {}
        /\ \A p \in Payouts : (\E o \in Operators : oPayout[o] = p) => p \in cut'
    BY <1>4 DEF Stop, payoutVars
  <2>2. \A o \in Operators : OperatorGoesOn(o)'
    BY <2>1 DEF OperatorGoesOn
  <2>3. ASSUME NEW p \in Payouts PROVE PayoutStands(p)'
    <3>1. PayoutStands(p)
      BY <1>0 DEF PayoutSide
    <3>2. (\E o \in Operators : oPayout[o] = p) => p \in cut'
      BY <2>1
    <3>3. /\ payout' = payout /\ item' = item /\ transfers' = transfers /\ raced' = raced
          /\ ledger' = ledger /\ cut \subseteq cut'
      BY <2>1
    <3>4. payout[p].status = "paid" => p \in cut' \/ Posted(<<"payout_paid", p>>)
      BY <3>1, <3>2, <3>3 DEF PayoutStands
    <3> QED
      BY <3>1, <3>3, <3>4 DEF PayoutStands, Posted
  <2> QED
    BY <2>2, <2>3 DEF PayoutSide
<1>5. CASE UNCHANGED vars
  BY <1>0, <1>5, PayoutFrame DEF vars, operatorVars, payoutVars, historyVars, Posted
<1>6. ASSUME NEW b \in Bookings, UpdateStatusByDates(b) PROVE PayoutSide'
  BY <1>0, <1>6, PayoutFrame
  DEF UpdateStatusByDates, operatorVars, payoutVars, historyVars, Posted
<1> QED
  BY <1>1, <1>2, <1>3, <1>4, <1>5, <1>6 DEF Next
-----------------------------------------------------------------------------
(* The invariant and the properties.                                       *)

\* No group is posted twice.
LEMMA NextOnce == IInv /\ [Next]_vars => Once'
<1> SUFFICES ASSUME IInv, [Next]_vars PROVE Once'
  OBVIOUS
<1>0. /\ TypeOK /\ Once
      /\ \A o \in Operators : PayingOut(o) /\ ledger' # ledger => oPayout[o] \in Payouts
  <2>1. ASSUME NEW o \in Operators, PayingOut(o), ledger' # ledger
        PROVE  oPayout[o] \in Payouts
    <3>1. opc[o] = "post"
      BY <2>1
      DEF PayingOut, ScanRead, ScanCreate, ScanAborts, ManualRead, ManualCreate,
          TransferRead, MarkProcessing, Transfer, WritePaid, LookupPayoutGroup, PostPayout,
          NotifyOwner, FailPayout, payoutVars
    <3> QED
      BY <3>1, OperatorRefers
  <2> QED
    BY <2>1 DEF IInv, Once
<1>1. CASE UNCHANGED ledger
  BY <1>0, <1>1 DEF Once
<1>2. ASSUME NEW b \in Bookings, PaymentSucceeded(b) PROVE Once'
  BY <1>0, <1>2, Postings, GroupsDiffer DEF PaymentSucceeded
<1>3. ASSUME NEW c \in Cancels, Cancelling(c) PROVE Once'
  <2>1. Post(<<"refund_succeeded", c>>) \/ UNCHANGED ledger
    BY <1>3
    DEF Cancelling, CancelRead, CreateRefund, AskStripe, WriteRefund, WriteTransaction,
        PostRefund, FailRefund, WriteCancelled, RefundEvent
  <2> QED
    BY <1>0, <2>1, Postings, GroupsDiffer
<1>4. ASSUME NEW o \in Operators, PayingOut(o) PROVE Once'
  <2>1. InsertEntries(<<"payout_paid", oPayout[o]>>) \/ UNCHANGED ledger
    BY <1>4
    DEF PayingOut, ScanRead, ScanCreate, ScanAborts, ManualRead, ManualCreate,
        TransferRead, MarkProcessing, Transfer, WritePaid, LookupPayoutGroup, PostPayout,
        NotifyOwner, FailPayout, payoutVars
  <2> QED
    BY <1>0, <1>1, <1>4, <2>1, Postings, GroupsDiffer
<1>5. /\ Stop \/ UNCHANGED vars => UNCHANGED ledger
      /\ \A b \in Bookings : UpdateStatusByDates(b) => UNCHANGED ledger
  BY DEF Stop, vars, UpdateStatusByDates
<1> QED
  BY <1>1, <1>2, <1>3, <1>4, <1>5 DEF Next

\* The invariant: every step of a payment, a cancellation, a payout or a fault keeps it.
THEOREM SpecIInv == Spec => []IInv
<1>1. IInv /\ [Next]_vars => IInv'
  BY NextTypeOK, NextOnce, NextRefunds, NextPayouts DEF IInv, Once, PayoutSide
<1> QED
  BY <1>1, InitIInv, PTL DEF Spec

\* Every reachable state is well typed.
THEOREM TypeCorrect == Spec => []TypeOK
<1>1. IInv => TypeOK
  BY DEF IInv
<1> QED
  BY <1>1, SpecIInv, PTL

\* postBalancedEntries posts a group once, after the money moved, and a refund or a
\* payout that ends well is posted, unless a fault cut its request short.
THEOREM LedgerTells == Spec => []LedgerTellsStripe
<1>1. IInv => LedgerTellsStripe
  <2> SUFFICES ASSUME IInv PROVE LedgerTellsStripe
    OBVIOUS
  <2>1. ASSUME NEW c \in Cancels
        PROVE  /\ Posted(<<"refund_succeeded", c>>) => stripeRefund[c] = "succeeded"
               /\ refundRow[c] = "succeeded" /\ cpc[c] = "done" /\ c \notin cut =>
                    Posted(<<"refund_succeeded", c>>)
    BY DEF IInv, RefundGoesOn
  <2>2. ASSUME NEW p \in Payouts
        PROVE  /\ Posted(<<"payout_paid", p>>) => transfers[p] > 0
               /\ payout[p].status = "paid" /\ p \notin cut
                    /\ (\A o \in Operators : oPayout[o] # p)
                  => Posted(<<"payout_paid", p>>)
    BY DEF IInv, PayoutStands
  <2> QED
    BY <2>1, <2>2 DEF IInv, LedgerTellsStripe
<1> QED
  BY <1>1, SpecIInv, PTL

\* The catch blocks of processRefund and processStripeTransfer mark as failed what did
\* not move money, but for faults and races.
THEOREM FailedKept == Spec => []FailedKeptTheMoney
<1>1. IInv => FailedKeptTheMoney
  BY DEF IInv, RefundGoesOn, PayoutStands, FailedKeptTheMoney
<1> QED
  BY <1>1, SpecIInv, PTL

\* The unique index on payout_items pays a booking's owner once by scans, however many
\* scans and transfers there are.
THEOREM PaidOnce == Spec => []OwnerPaidOnce
<1>1. IInv => OwnerPaidOnce
  <2> SUFFICES ASSUME IInv PROVE OwnerPaidOnce
    OBVIOUS
  <2> DEFINE settling(b) == {p \in Payouts : /\ payout[p].booking = b
                                             /\ payout[p].itemized
                                             /\ transfers[p] > 0}
  <2>1. ASSUME NEW b \in Bookings PROVE Cardinality(settling(b)) <= 1
    <3>1. settling(b) \subseteq {item[b]}
      BY DEF IInv, PayoutStands
    <3> HIDE DEF settling
    <3>2. IsFiniteSet({item[b]}) /\ Cardinality({item[b]}) = 1
      BY FS_Singleton
    <3>3. Cardinality(settling(b)) <= Cardinality({item[b]})
      BY <3>1, <3>2, FS_Subset
    <3> QED
      BY <3>2, <3>3
  <2>2. \A p \in Payouts : p \notin raced => transfers[p] <= 1
    BY DEF IInv, PayoutStands
  <2> QED
    BY <2>1, <2>2 DEF OwnerPaidOnce
<1> QED
  BY <1>1, SpecIInv, PTL

\* A scan lists bookings whose transaction is completed: whose refund is not written
\* yet, or whose payment a fault or a repeated event completed again.
THEOREM NoScan == Spec => NoScanOfRefunded
<1> DEFINE A == \A o \in Operators, c \in Cancels :
                  /\ opc[o] = "idle" /\ cBooking[c] \in oList'[o] \ reopened
                  /\ stripeRefund[c] # "none"
                  => cpc[c] \in {"refunded", "promised", "row_written"}
<1>1. IInv /\ [Next]_vars => [A]_vars
  <2> SUFFICES ASSUME IInv, [Next]_vars,
                      NEW o \in Operators, NEW c \in Cancels,
                      opc[o] = "idle", cBooking[c] \in oList'[o] \ reopened,
                      stripeRefund[c] # "none"
               PROVE  cpc[c] \in {"refunded", "promised", "row_written"}
    OBVIOUS
  <2>1. oList[o] = {} /\ oList \in [Operators -> SUBSET Bookings]
    BY DEF IInv, TypeOK, OperatorGoesOn
  <2>2. cBooking[c] \in EligibleBookings
    <3>1. oList'[o] # oList[o]
      BY <2>1
    <3>2. PICK q \in Operators : PayingOut(q)
      BY <2>1, <3>1 DEF Next, PaymentSucceeded, UpdateStatusByDates, Cancelling, CancelRead, CreateRefund,
         AskStripe, WriteRefund, WriteTransaction, PostRefund, FailRefund, WriteCancelled,
         RefundEvent, Stop, operatorVars, vars
    <3>3. q = o
      BY <2>1, <3>1, <3>2
      DEF PayingOut, ScanRead, ScanCreate, ScanAborts, ManualRead, ManualCreate,
          TransferRead, MarkProcessing, Transfer, WritePaid, LookupPayoutGroup, PostPayout,
          NotifyOwner, FailPayout, Return
    <3>4. ScanRead(o)
      BY <2>1, <3>1, <3>2, <3>3
      DEF PayingOut, ScanCreate, ScanAborts, ManualRead, ManualCreate,
          TransferRead, MarkProcessing, Transfer, WritePaid, LookupPayoutGroup, PostPayout,
          NotifyOwner, FailPayout
    <3> QED
      BY <2>1, <3>4 DEF ScanRead
  <2> QED
    BY <2>2 DEF IInv, RefundGoesOn, EligibleBookings
<1> QED
  BY <1>1, SpecIInv, PTL DEF Spec, NoScanOfRefunded
=============================================================================
