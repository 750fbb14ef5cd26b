-------------------------- MODULE WebhookInboxProofs --------------------------
(***************************************************************************)
(* Proofs about WebhookInbox: what it promises holds for any number of     *)
(* events, deliveries and faults.                                          *)
(***************************************************************************)
EXTENDS WebhookInbox, FiniteSetTheorems, TLAPS

-----------------------------------------------------------------------------
(* Deliveries at work.                                                     *)

\* There are no more deliveries at work than deliveries.
LEMMA AtWorkFinite ==
  ASSUME NEW e
  PROVE  /\ IsFiniteSet(AtWork(e))
         /\ Cardinality(AtWork(e)) \in Nat
         /\ Cardinality(Deliveries) \in Nat
         /\ Cardinality(AtWork(e)) <= Cardinality(Deliveries)
<1>1. AtWork(e) \subseteq Deliveries
  BY DEF AtWork
<1>2. IsFiniteSet(Deliveries)
  BY InboxAssumption
<1> QED
  BY <1>1, <1>2, FS_Subset, FS_CardinalityType

\* The same in the next state.
LEMMA AtWorkFiniteNext ==
  ASSUME NEW e
  PROVE  /\ IsFiniteSet(AtWork(e)')
         /\ Cardinality(AtWork(e)') \in Nat
         /\ Cardinality(AtWork(e)') <= Cardinality(Deliveries)
<1>1. AtWork(e)' \subseteq Deliveries
  BY DEF AtWork
<1>2. IsFiniteSet(Deliveries)
  BY InboxAssumption
<1> QED
  BY <1>1, <1>2, FS_Subset, FS_CardinalityType

\* Fewer deliveries at work leave the bound as it is.
LEMMA AtWorkShrinks ==
  ASSUME NEW e, AtWork(e)' \subseteq AtWork(e)
  PROVE  Cardinality(AtWork(e)') <= Cardinality(AtWork(e))
BY AtWorkFinite, FS_Subset

\* A delivery that applies its event is no longer at work.
LEMMA AtWorkLosesOne ==
  ASSUME NEW e, NEW d \in AtWork(e), AtWork(e)' = AtWork(e) \ {d}
  PROVE  Cardinality(AtWork(e)') = Cardinality(AtWork(e)) - 1
BY AtWorkFinite, FS_RemoveElement

-----------------------------------------------------------------------------
(* The invariant.                                                          *)

\* It holds when the first event comes.
LEMMA InitIInv == Init => IInv
<1> SUFFICES ASSUME Init PROVE IInv
  OBVIOUS
<1>1. TypeOK
  BY InboxAssumption DEF Init, TypeOK, LogStatus, Stages
<1>2. DeliveriesRefer /\ ProcessedWasApplied /\ ReceivedIsAppliedOrVisible
  BY InboxAssumption DEF Init, DeliveriesRefer, ProcessedWasApplied, ReceivedIsAppliedOrVisible
<1>3. RowGuards
  <2> SUFFICES ASSUME NEW e \in Events
               PROVE  /\ log[e] = "none" =>
                           applied[e] = 0 /\ \A d \in Deliveries : event[d] = e => at[d] = "checked"
                      /\ applied[e] + Cardinality(AtWork(e)) <= Cardinality(Deliveries)
    BY DEF RowGuards
  <2>1. applied[e] = 0 /\ \A d \in Deliveries : event[d] # e
    BY InboxAssumption DEF Init
  <2> QED
    BY <2>1, AtWorkFinite
<1> QED
  BY <1>1, <1>2, <1>3 DEF IInv

\* Every step keeps the types.
LEMMA NextTypeOK == IInv /\ [Next]_vars => TypeOK'
<1> SUFFICES ASSUME TypeOK, DeliveriesRefer, [Next]_vars PROVE TypeOK'
  BY DEF IInv
<1> USE InboxAssumption DEF TypeOK, LogStatus, Stages
<1>1. ASSUME NEW d \in Deliveries, NEW e \in Events, PassCheck(d, e) \/ PassOnError(d, e)
      PROVE  TypeOK'
  BY <1>1 DEF PassCheck, PassOnError, Goes, Sent, Fault
<1>2. ASSUME NEW d \in Deliveries, LogEvent(d) \/ LogFails(d)
      PROVE  TypeOK'
  BY <1>2 DEF LogEvent, LogAs, LogFails, Goes, Fault, DeliveriesRefer
<1>3. ASSUME NEW d \in Deliveries, HandleEvent(d)
      PROVE  TypeOK'
  BY <1>3 DEF HandleEvent, Goes, DeliveriesRefer
<1>4. ASSUME NEW d \in Deliveries, FinishEvent(d)
      PROVE  TypeOK'
  BY <1>4 DEF FinishEvent, Goes, DeliveriesRefer
<1>5. ASSUME NEW d \in Deliveries, FailDelivery(d)
      PROVE  TypeOK'
  BY <1>5 DEF FailDelivery, Goes, Fault
<1>6. ASSUME NEW e \in Events, AnswerDuplicate(e)
      PROVE  TypeOK'
  BY <1>6 DEF AnswerDuplicate, Sent, Fault
<1>7. CASE UNCHANGED vars
  BY <1>7 DEF vars
<1> QED
  BY <1>1, <1>2, <1>3, <1>4, <1>5, <1>6, <1>7 DEF Next

\* Every step keeps what deliveries, rows and answers say about each other.
LEMMA NextRefers ==
  IInv /\ [Next]_vars =>
    (DeliveriesRefer /\ ProcessedWasApplied /\ ReceivedIsAppliedOrVisible)'
<1> DEFINE Goal == (DeliveriesRefer /\ ProcessedWasApplied /\ ReceivedIsAppliedOrVisible)'
<1> SUFFICES ASSUME TypeOK, DeliveriesRefer, ProcessedWasApplied,
                    ReceivedIsAppliedOrVisible, [Next]_vars
             PROVE  Goal
  BY DEF IInv
<1> USE InboxAssumption
    DEF TypeOK, LogStatus, Stages, DeliveriesRefer, ProcessedWasApplied,
        ReceivedIsAppliedOrVisible
<1>1. ASSUME NEW d \in Deliveries, NEW e \in Events, PassCheck(d, e) \/ PassOnError(d, e)
      PROVE  Goal
  BY <1>1 DEF PassCheck, PassOnError, Goes
<1>2. ASSUME NEW d \in Deliveries, LogEvent(d) \/ LogFails(d)
      PROVE  Goal
  BY <1>2 DEF LogEvent, LogAs, LogFails, Goes
<1>3. ASSUME NEW d \in Deliveries, HandleEvent(d)
      PROVE  Goal
  BY <1>3 DEF HandleEvent, Goes
<1>4. ASSUME NEW d \in Deliveries, FinishEvent(d)
      PROVE  Goal
  BY <1>4 DEF FinishEvent, Goes
<1>5. ASSUME NEW d \in Deliveries, FailDelivery(d)
      PROVE  Goal
  BY <1>5 DEF FailDelivery, Goes
<1>6. ASSUME NEW e \in Events, AnswerDuplicate(e)
      PROVE  Goal
  BY <1>6 DEF AnswerDuplicate
<1>7. CASE UNCHANGED vars
  BY <1>7 DEF vars
<1> QED
  BY <1>1, <1>2, <1>3, <1>4, <1>5, <1>6, <1>7 DEF Next

\* Every step keeps the bound on what may yet be applied.
LEMMA NextRowGuards == IInv /\ [Next]_vars => RowGuards'
<1> SUFFICES ASSUME TypeOK, DeliveriesRefer, RowGuards, [Next]_vars,
                    NEW e \in Events \ unguarded'
             PROVE  /\ log'[e] = "none" =>
                         /\ applied'[e] = 0
                         /\ \A d \in Deliveries : event'[d] = e => at'[d] = "checked"
                    /\ applied'[e] + Cardinality(AtWork(e)') <= Cardinality(Deliveries)
  BY DEF IInv, RowGuards
<1> DEFINE Goal == /\ log'[e] = "none" =>
                        /\ applied'[e] = 0
                        /\ \A d \in Deliveries : event'[d] = e => at'[d] = "checked"
                   /\ applied'[e] + Cardinality(AtWork(e)') <= Cardinality(Deliveries)
<1> USE InboxAssumption DEF TypeOK, LogStatus, Stages, DeliveriesRefer
<1>a. unguarded \subseteq unguarded'
  BY DEF Next, PassCheck, PassOnError, LogEvent, LogAs, LogFails, HandleEvent,
         FinishEvent, FailDelivery, AnswerDuplicate, vars
<1>b. /\ log[e] = "none" =>
           applied[e] = 0 /\ \A d \in Deliveries : event[d] = e => at[d] = "checked"
      /\ applied[e] + Cardinality(AtWork(e)) <= Cardinality(Deliveries)
      /\ applied[e] \in Nat
  BY <1>a DEF RowGuards
<1>c. /\ Cardinality(AtWork(e)) \in Nat
      /\ Cardinality(Deliveries) \in Nat
      /\ Cardinality(AtWork(e)') \in Nat
      /\ Cardinality(AtWork(e)') <= Cardinality(Deliveries)
  BY AtWorkFinite, AtWorkFiniteNext
<1>d. ASSUME AtWork(e)' \subseteq AtWork(e), applied'[e] = applied[e]
      PROVE  applied'[e] + Cardinality(AtWork(e)') <= Cardinality(Deliveries)
  <2>1. Cardinality(AtWork(e)') <= Cardinality(AtWork(e))
    BY <1>d, AtWorkShrinks
  <2> QED
    BY <2>1, <1>b, <1>c, <1>d
<1>1. ASSUME NEW d \in Deliveries, NEW f \in Events, PassCheck(d, f)
      PROVE  Goal
  <2>1. CASE f = e
    <3>1. log[e] = "none" /\ applied'[e] = 0
      BY <1>1, <1>b, <2>1 DEF PassCheck
    <3>2. \A g \in Deliveries : event'[g] = e => at'[g] = "checked"
      BY <1>1, <1>b, <2>1, <3>1 DEF PassCheck, Goes
    <3> QED
      BY <3>1, <3>2, <1>c
  <2>2. CASE f # e
    <3>1. AtWork(e)' \subseteq AtWork(e) /\ applied'[e] = applied[e] /\ log'[e] = log[e]
      BY <1>1, <2>2 DEF PassCheck, Goes, AtWork
    <3>2. log[e] = "none" => \A g \in Deliveries : event'[g] = e => at'[g] = "checked"
      BY <1>1, <1>b, <2>2 DEF PassCheck, Goes
    <3> QED
      BY <3>1, <3>2, <1>b, <1>d
  <2> QED
    BY <2>1, <2>2
<1>2. ASSUME NEW d \in Deliveries, NEW f \in Events, PassOnError(d, f)
      PROVE  Goal
  <2>1. f # e
    BY <1>2 DEF PassOnError
  <2>2. AtWork(e)' \subseteq AtWork(e) /\ applied'[e] = applied[e] /\ log'[e] = log[e]
    BY <1>2, <2>1 DEF PassOnError, Goes, AtWork
  <2>3. log[e] = "none" => \A g \in Deliveries : event'[g] = e => at'[g] = "checked"
    BY <1>2, <1>b, <2>1 DEF PassOnError, Goes
  <2> QED
    BY <2>2, <2>3, <1>b, <1>d
<1>3. ASSUME NEW d \in Deliveries, LogEvent(d)
      PROVE  Goal
  <2>1. AtWork(e)' \subseteq AtWork(e) /\ applied'[e] = applied[e]
    BY <1>3 DEF LogEvent, LogAs, Goes, AtWork
  <2>2. log'[e] = "none" => log[e] = "none" /\ event[d] # e
    BY <1>3 DEF LogEvent, LogAs
  <2>3. log'[e] = "none" => \A g \in Deliveries : event'[g] = e => at'[g] = "checked"
    BY <1>3, <1>b, <2>2 DEF LogEvent, LogAs, Goes
  <2> QED
    BY <2>1, <2>2, <2>3, <1>b, <1>d
<1>4. ASSUME NEW d \in Deliveries, LogFails(d)
      PROVE  Goal
  <2>1. event[d] # e
    BY <1>4 DEF LogFails
  <2>2. AtWork(e)' \subseteq AtWork(e) /\ applied'[e] = applied[e] /\ log'[e] = log[e]
    BY <1>4, <2>1 DEF LogFails, Goes, AtWork
  <2>3. log[e] = "none" => \A g \in Deliveries : event'[g] = e => at'[g] = "checked"
    BY <1>4, <1>b, <2>1 DEF LogFails, Goes
  <2> QED
    BY <2>2, <2>3, <1>b, <1>d
<1>5. ASSUME NEW d \in Deliveries, HandleEvent(d)
      PROVE  Goal
  <2>1. CASE event[d] = e
    <3>1. log[e] # "none" /\ log'[e] = log[e]
      BY <1>5, <1>b, <2>1 DEF HandleEvent
    <3>2. d \in AtWork(e) /\ AtWork(e)' = AtWork(e) \ {d}
      BY <1>5, <2>1 DEF HandleEvent, Goes, AtWork
    <3>3. applied'[e] = applied[e] + 1
      BY <1>5, <2>1 DEF HandleEvent
    <3>4. Cardinality(AtWork(e)') = Cardinality(AtWork(e)) - 1
      BY <3>2, AtWorkLosesOne
    <3> QED
      BY <3>1, <3>3, <3>4, <1>b, <1>c
  <2>2. CASE event[d] # e
    <3>1. AtWork(e)' \subseteq AtWork(e) /\ applied'[e] = applied[e] /\ log'[e] = log[e]
      BY <1>5, <2>2 DEF HandleEvent, Goes, AtWork
    <3>2. log[e] = "none" => \A g \in Deliveries : event'[g] = e => at'[g] = "checked"
      BY <1>5, <1>b, <2>2 DEF HandleEvent, Goes
    <3> QED
      BY <3>1, <3>2, <1>b, <1>d
  <2> QED
    BY <2>1, <2>2
<1>6. ASSUME NEW d \in Deliveries, FinishEvent(d) \/ FailDelivery(d)
      PROVE  Goal
  <2>1. AtWork(e)' \subseteq AtWork(e) /\ applied'[e] = applied[e]
    BY <1>6 DEF FinishEvent, FailDelivery, Goes, AtWork
  <2>2. log'[e] = "none" => log[e] = "none"
    BY <1>6 DEF FinishEvent, FailDelivery
  <2>3. log'[e] = "none" => \A g \in Deliveries : event'[g] = e => at'[g] = "checked"
    BY <1>6, <1>b, <2>2 DEF FinishEvent, FailDelivery, Goes
  <2> QED
    BY <2>1, <2>2, <2>3, <1>b, <1>d
<1>7. ASSUME NEW f \in Events, AnswerDuplicate(f)
      PROVE  Goal
  <2>1. UNCHANGED <<log, applied, at, event>>
    BY <1>7 DEF AnswerDuplicate
  <2>2. AtWork(e)' = AtWork(e)
    BY <2>1 DEF AtWork
  <2> QED
    BY <2>1, <2>2, <1>b
<1>8. CASE UNCHANGED vars
  <2>1. UNCHANGED <<log, applied, at, event>>
    BY <1>8 DEF vars
  <2>2. AtWork(e)' = AtWork(e)
    BY <2>1 DEF AtWork
  <2> QED
    BY <2>1, <2>2, <1>b
<1> QED
  BY <1>1, <1>2, <1>3, <1>4, <1>5, <1>6, <1>7, <1>8 DEF Next

\* The invariant of the webhook inbox, whatever fails and whatever is sent twice.
THEOREM SpecIInv == Spec => []IInv
<1>1. IInv /\ [Next]_vars => IInv'
  BY NextTypeOK, NextRefers, NextRowGuards DEF IInv
<1> QED
  BY InitIInv, <1>1, PTL DEF Spec

-----------------------------------------------------------------------------
(* What the inbox promises.                                                *)

\* Rows, counters and deliveries of the inbox keep their types.
THEOREM TypeCorrect == Spec => []TypeOK
<1>1. IInv => TypeOK
  BY DEF IInv
<1> QED
  BY SpecIInv, <1>1, PTL

\* No event is applied by more deliveries than the server works on at once,
\* however often Stripe sends it, unless its check or its row failed.
THEOREM AtMostOnePerDelivery == Spec => []AppliedBounded
<1>1. IInv => AppliedBounded
  <2> SUFFICES ASSUME IInv, NEW e \in Events \ unguarded
               PROVE  applied[e] <= Cardinality(Deliveries)
    BY DEF AppliedBounded
  <2>1. applied[e] + Cardinality(AtWork(e)) <= Cardinality(Deliveries) /\ applied[e] \in Nat
    BY DEF IInv, RowGuards, TypeOK
  <2> QED
    BY <2>1, AtWorkFinite
<1> QED
  BY SpecIInv, <1>1, PTL

\* An event Stripe stops sending was applied, or its row shows that it was not
\* finished.
THEOREM NothingLostUnseen == Spec => []ReceivedIsAppliedOrVisible
<1>1. IInv => ReceivedIsAppliedOrVisible
  BY DEF IInv
<1> QED
  BY SpecIInv, <1>1, PTL
=============================================================================
