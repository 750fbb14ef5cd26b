------------------------- MODULE EventDeliveryProofs -------------------------
(***************************************************************************)
(* Proofs about EventDelivery: no event is acknowledged undone, and nobody *)
(* is told twice of an event that no two processes overlapped on, for any  *)
(* number of events, receivers, processes, deliveries and crashes.         *)
(***************************************************************************)
EXTENDS EventDelivery, TLAPS

-----------------------------------------------------------------------------
(* The consumer.                                                           *)

\* What the operations of the consumer need of its state, and keep.
ConsumerOK == ConsumerTypeOK /\ DeliveriesLeft

LEMMA RedeliverKeeps ==
  ASSUME ConsumerOK, NEW e \in Events, Redeliver(e),
         UNCHANGED <<delivered, batch>>,
         current' \in [Workers -> Delivery \cup {None}],
         deadLetters' \subseteq Events, unburied' \subseteq Events
  PROVE  ConsumerOK'
<1> USE ConsumerAssumption DEF ConsumerOK, ConsumerTypeOK, DeliveriesLeft
<1>1. message' \in [Events -> {"none", "ready", "held", "settled", "exhausted"}]
  BY DEF Redeliver
<1>2. DeliveriesLeft'
  BY <1>1 DEF Redeliver
<1> QED
  BY <1>1, <1>2 DEF Delivery

LEMMA AckKeeps ==
  ASSUME ConsumerOK, NEW e \in Events, Ack(e),
         UNCHANGED <<delivered, batch>>,
         current' \in [Workers -> Delivery \cup {None}],
         deadLetters' \subseteq Events, unburied' \subseteq Events
  PROVE  ConsumerOK'
<1> USE ConsumerAssumption DEF ConsumerOK, ConsumerTypeOK, DeliveriesLeft
<1>1. message' \in [Events -> {"none", "ready", "held", "settled", "exhausted"}]
  BY DEF Ack
<1>2. DeliveriesLeft'
  BY <1>1 DEF Ack
<1> QED
  BY <1>1, <1>2 DEF Delivery

LEMMA StoreKeeps ==
  ASSUME ConsumerOK, NEW e \in Events, Store(e),
         UNCHANGED <<delivered, batch, current, deadLetters, unburied>>
  PROVE  ConsumerOK'
<1> USE ConsumerAssumption DEF ConsumerOK, ConsumerTypeOK, DeliveriesLeft
<1>1. message' \in [Events -> {"none", "ready", "held", "settled", "exhausted"}]
  BY DEF Store
<1>2. DeliveriesLeft'
  BY <1>1 DEF Store
<1> QED
  BY <1>1, <1>2 DEF Delivery

LEMMA ExpireKeeps ==
  ASSUME ConsumerOK, NEW e \in Events, AckWaitExpires(e)
  PROVE  ConsumerOK'
BY RedeliverKeeps DEF AckWaitExpires, ConsumerOK, ConsumerTypeOK

LEMMA FetchKeeps ==
  ASSUME ConsumerOK, NEW w \in Workers, Fetch(w)
  PROVE  ConsumerOK'
<1> USE ConsumerAssumption DEF ConsumerOK, ConsumerTypeOK, DeliveriesLeft
<1>1. PICK S \in SUBSET {e \in Events : message[e] = "ready"} :
        /\ message' = [e \in Events |-> IF e \in S THEN "held" ELSE message[e]]
        /\ delivered' = [e \in Events |->
                           IF e \in S THEN delivered[e] + 1 ELSE delivered[e]]
        /\ batch' = [batch EXCEPT ![w] =
                       {[event |-> e, number |-> delivered[e] + 1] : e \in S}]
  BY DEF Fetch
<1>2. \A e \in S : delivered[e] + 1 \in 1..MaxDeliver
  OBVIOUS
<1>3. message' \in [Events -> {"none", "ready", "held", "settled", "exhausted"}]
  BY <1>1
<1>4. delivered' \in [Events -> 0..MaxDeliver]
  BY <1>1, <1>2
<1>5. batch' \in [Workers -> SUBSET Delivery]
  BY <1>1, <1>2 DEF Delivery
<1>6. DeliveriesLeft'
  BY <1>1
<1> QED
  BY <1>3, <1>4, <1>5, <1>6 DEF Fetch, Delivery

LEMMA TakeKeeps ==
  ASSUME ConsumerOK, NEW w \in Workers, NEW m \in batch[w], Take(w, m)
  PROVE  /\ ConsumerOK'
         /\ m \in Delivery /\ m # None /\ m.event \in Events
         /\ current' = [current EXCEPT ![w] = m]
<1>1. m \in Delivery
  BY DEF ConsumerOK, ConsumerTypeOK
<1>2. m # None /\ m.event \in Events
  BY <1>1, ConsumerAssumption DEF Delivery
<1>3. current' \in [Workers -> Delivery \cup {None}] /\ batch' \in [Workers -> SUBSET Delivery]
  BY <1>1 DEF Take, ConsumerOK, ConsumerTypeOK
<1> QED
  BY <1>1, <1>2, <1>3 DEF Take, ConsumerOK, ConsumerTypeOK, DeliveriesLeft

LEMMA CurrentEvent ==
  ASSUME ConsumerOK, NEW w \in Workers, current[w] # None
  PROVE  current[w].event \in Events
BY DEF ConsumerOK, ConsumerTypeOK, Delivery

LEMMA SucceedKeeps ==
  ASSUME ConsumerOK, NEW w \in Workers, current[w] # None, Succeed(w)
  PROVE  ConsumerOK'
<1>1. current' \in [Workers -> Delivery \cup {None}]
  BY DEF Succeed, Release, ConsumerOK, ConsumerTypeOK
<1> QED
  BY <1>1, CurrentEvent, AckKeeps DEF Succeed, ConsumerOK, ConsumerTypeOK

LEMMA FailKeeps ==
  ASSUME ConsumerOK, NEW w \in Workers, current[w] # None, Fail(w)
  PROVE  ConsumerOK'
<1>1. current' \in [Workers -> Delivery \cup {None}]
  BY DEF Fail, Release, ConsumerOK, ConsumerTypeOK
<1>2. deadLetters' \subseteq Events /\ unburied' \subseteq Events
  BY CurrentEvent DEF Fail, ConsumerOK, ConsumerTypeOK
<1>3. CASE Ack(current[w].event)
  BY <1>1, <1>2, <1>3, CurrentEvent, AckKeeps DEF Fail
<1>4. CASE Redeliver(current[w].event)
  BY <1>1, <1>2, <1>4, CurrentEvent, RedeliverKeeps DEF Fail
<1> QED
  BY <1>3, <1>4 DEF Fail

LEMMA LoseKeeps ==
  ASSUME ConsumerOK, NEW w \in Workers, Lose(w)
  PROVE  ConsumerOK'
BY DEF Lose, ConsumerOK, ConsumerTypeOK, DeliveriesLeft

-----------------------------------------------------------------------------
(* The handlers.                                                           *)

\* The invariant holds before the first event.
LEMMA InitIInv == Init => IInv
<1> SUFFICES ASSUME Init PROVE IInv
  OBVIOUS
<1>1. TypeOK /\ DeliveriesLeft
  BY ConsumerAssumption, DeliveryAssumption
  DEF Init, TypeOK, ConsumerInit, ConsumerTypeOK, DeliveriesLeft, Delivery
<1>2. StepsHaveMessages /\ PassedAreNotified /\ HandledAlone
  BY DEF Init, ConsumerInit, StepsHaveMessages, PassedAreNotified, HandledAlone, Handles
<1>3. SettledIsServed /\ NotifiedOnce
  BY DEF Init, ConsumerInit, SettledIsServed, NotifiedOnce
<1> QED
  BY <1>1, <1>2, <1>3 DEF IInv

\* A handler that runs has a message, and one that inserts a receiver to tell.
LEMMA AtWork ==
  ASSUME IInv, NEW w \in Workers, step[w] # "idle"
  PROVE  /\ current[w] # None /\ current[w].event \in Events
         /\ step[w] = "insert" => (CHOOSE r \in todo[w] : TRUE) \in todo[w]
BY CurrentEvent DEF IInv, StepsHaveMessages, TypeOK, ConsumerOK

\* A count that goes up stays a count.
LEMMA CountsMore ==
  ASSUME NEW S, NEW f \in [S -> Nat], NEW x
  PROVE  /\ [f EXCEPT ![x] = f[x] + 1] \in [S -> Nat]
         /\ \A y \in S : [f EXCEPT ![x] = f[x] + 1][y] = IF y = x THEN f[y] + 1 ELSE f[y]
<1>1. CASE x \in S
  <2>1. f[x] + 1 \in Nat
    BY <1>1
  <2> QED
    BY <1>1, <2>1
<1>2. CASE x \notin S
  BY <1>2
<1> QED
  BY <1>1, <1>2

\* Every step keeps the types.
LEMMA NextTypeOK == IInv /\ [Next]_vars => TypeOK' /\ DeliveriesLeft'
<1> DEFINE Kept == TypeOK' /\ DeliveriesLeft'
<1> SUFFICES ASSUME IInv, [Next]_vars PROVE Kept
  OBVIOUS
<1>0. TypeOK /\ ConsumerOK
  BY DEF IInv, TypeOK, ConsumerOK
<1>a. ASSUME ConsumerOK', UNCHANGED <<step, todo, serviceVars, crashes>>,
             kind' = kind, overlapped' = overlapped
      PROVE  Kept
  BY <1>0, <1>a DEF TypeOK, ConsumerOK, serviceVars
<1>1. ASSUME NEW e \in Events, Publish(e) PROVE Kept
  BY <1>0, <1>1, <1>a, StoreKeeps DEF Publish
<1>2. ASSUME NEW e \in Events, Expire(e) PROVE Kept
  BY <1>0, <1>2, <1>a, ExpireKeeps DEF Expire
<1>3. ASSUME NEW w \in Workers, FetchBatch(w) PROVE Kept
  BY <1>0, <1>3, <1>a, FetchKeeps DEF FetchBatch
<1>4. ASSUME NEW w \in Workers, Begin(w) PROVE Kept
  <2>1. PICK m \in batch[w] :
          /\ Take(w, m)
          /\ overlapped' = IF \E v \in Workers : Handles(v, m.event)
                           THEN overlapped \cup {m.event} ELSE overlapped
    BY <1>4 DEF Begin
  <2>2. ConsumerOK' /\ m.event \in Events
    BY <1>0, <2>1, TakeKeeps
  <2>3. overlapped' \subseteq Events
    BY <1>0, <2>1, <2>2 DEF TypeOK
  <2> QED
    BY <1>0, <1>4, <2>2, <2>3 DEF Begin, Goto, TypeOK, ConsumerOK, serviceVars
<1>5. ASSUME NEW w \in Workers, CheckNotification(w) PROVE Kept
  <2>1. ConsumerOK'
    BY <1>0, <1>5
    DEF CheckNotification, consumerVars, ConsumerOK, ConsumerTypeOK, DeliveriesLeft
  <2>2. step' \in [Workers -> {"idle", "work", "insert"}]
    BY <1>0, <1>5 DEF CheckNotification, Goto, TypeOK
  <2>3. todo' \in [Workers -> SUBSET Receivers]
    <3> DEFINE next == CHOOSE r \in todo[w] : TRUE
    <3>1. todo' = todo \/ todo' = [todo EXCEPT ![w] = @ \ {next}]
      BY <1>5 DEF CheckNotification
    <3> HIDE DEF next
    <3> QED
      BY <1>0, <3>1 DEF TypeOK
  <2> QED
    BY <1>0, <1>5, <2>1, <2>2, <2>3 DEF CheckNotification, TypeOK, ConsumerOK, serviceVars
<1>6. ASSUME NEW w \in Workers, InsertNotification(w) PROVE Kept
  <2> DEFINE next == CHOOSE r \in todo[w] : TRUE
  <2>1. ConsumerOK'
    BY <1>0, <1>6
    DEF InsertNotification, consumerVars, ConsumerOK, ConsumerTypeOK, DeliveriesLeft
  <2>2. /\ notified' = [notified EXCEPT ![<<current[w].event, next>>] = @ + 1]
        /\ todo' = [todo EXCEPT ![w] = @ \ {next}]
        /\ step' = [step EXCEPT ![w] = "work"]
    BY <1>6 DEF InsertNotification, Goto
  <2> HIDE DEF next
  <2>3. notified' \in [Events \X Receivers -> Nat]
    <3> DEFINE told == <<current[w].event, next>>
    <3>1. /\ notified \in [Events \X Receivers -> Nat]
          /\ notified' = [notified EXCEPT ![told] = notified[told] + 1]
      BY <1>0, <2>2 DEF TypeOK
    <3> HIDE DEF told
    <3> QED
      BY <3>1, CountsMore
  <2>4. todo' \in [Workers -> SUBSET Receivers]
        /\ step' \in [Workers -> {"idle", "work", "insert"}]
    BY <1>0, <2>2 DEF TypeOK
  <2> QED
    BY <1>0, <1>6, <2>1, <2>3, <2>4 DEF InsertNotification, TypeOK, ConsumerOK
<1>7. ASSUME NEW w \in Workers, step[w] # "idle", End(w),
             Succeed(w) \/ Fail(w) \/ Lose(w)
      PROVE  /\ ConsumerOK'
             /\ step' \in [Workers -> {"idle", "work", "insert"}]
             /\ todo' \in [Workers -> SUBSET Receivers]
  <2>1. ConsumerOK'
    BY <1>0, <1>7, AtWork, SucceedKeeps, FailKeeps, LoseKeeps
  <2> QED
    BY <1>0, <1>7, <2>1 DEF End, Goto, TypeOK
<1>8. ASSUME NEW w \in Workers, HandlerFails(w) \/ NoticeDone(w) PROVE Kept
  BY <1>0, <1>7, <1>8
  DEF HandlerFails, NoticeDone, HandlerReturns, TypeOK, ConsumerOK, serviceVars
<1>9. ASSUME NEW w \in Workers, SendEmail(w) PROVE Kept
  <2>1. sent' \in [Events -> Nat]
    <3> DEFINE e == current[w].event
    <3>1. sent \in [Events -> Nat] /\ sent' = [sent EXCEPT ![e] = sent[e] + 1]
      BY <1>0, <1>9 DEF SendEmail, TypeOK
    <3> HIDE DEF e
    <3> QED
      BY <3>1, CountsMore
  <2> QED
    BY <1>0, <1>7, <1>9, <2>1 DEF SendEmail, TypeOK, ConsumerOK
<1>10. ASSUME NEW w \in Workers, InsertView(w) PROVE Kept
  <2>1. views' \subseteq Events
    BY <1>0, <1>10, AtWork DEF InsertView, TypeOK
  <2> QED
    BY <1>0, <1>7, <1>10, <2>1 DEF InsertView, HandlerReturns, TypeOK, ConsumerOK
<1>11. ASSUME NEW w \in Workers, Crash(w) PROVE Kept
  <2>1. ConsumerOK'
    BY <1>0, <1>11, LoseKeeps DEF Crash
  <2>2. crashes' \in 0..MaxCrashes
    BY <1>0, <1>11, DeliveryAssumption DEF Crash, TypeOK
  <2>3. /\ step' \in [Workers -> {"idle", "work", "insert"}]
        /\ todo' \in [Workers -> SUBSET Receivers]
    BY <1>0, <1>11 DEF Crash, End, Goto, TypeOK
  <2> QED
    BY <1>0, <1>11, <2>1, <2>2, <2>3 DEF Crash, TypeOK, ConsumerOK, serviceVars
<1>12. CASE UNCHANGED vars
  <2>1. ConsumerOK'
    BY <1>0, <1>12 DEF vars, consumerVars, ConsumerOK, ConsumerTypeOK, DeliveriesLeft
  <2> QED
    BY <1>12, <1>a, <2>1 DEF vars
<1> QED
  BY <1>1, <1>2, <1>3, <1>4, <1>5, <1>6, <1>8, <1>9, <1>10, <1>11, <1>12 DEF Next, Work
-----------------------------------------------------------------------------
(* What each step does to the handlers.                                    *)

\* The invariants about handlers.
Handling == StepsHaveMessages /\ PassedAreNotified /\ HandledAlone /\ NotifiedOnce

handlerVars == <<kind, current, step, todo, notified, overlapped>>

\* Steps of JetStream and of the loop leave the handlers alone.
LEMMA QuietSteps ==
  ASSUME [Next]_vars,
         \/ \E e \in Events : Publish(e) \/ Expire(e)
         \/ \E w \in Workers : FetchBatch(w)
         \/ UNCHANGED vars
  PROVE  UNCHANGED handlerVars
BY DEF Publish, Store, Expire, AckWaitExpires, FetchBatch, Fetch, vars, consumerVars,
       serviceVars, handlerVars

\* A handler that ends, by its own return or with its process, is idle.
LEMMA EndSteps ==
  ASSUME IInv, NEW w \in Workers,
         HandlerFails(w) \/ NoticeDone(w) \/ SendEmail(w) \/ InsertView(w) \/ Crash(w)
  PROVE  /\ current' = [current EXCEPT ![w] = None]
         /\ step' = [step EXCEPT ![w] = "idle"]
         /\ todo' = [todo EXCEPT ![w] = {}]
         /\ UNCHANGED <<kind, notified, overlapped>>
BY DEF HandlerFails, NoticeDone, SendEmail, InsertView, Crash, HandlerReturns, Succeed,
       Fail, Lose, Release, End, Goto, serviceVars

LEMMA NextHandling == IInv /\ [Next]_vars => Handling'
<1> SUFFICES ASSUME IInv, [Next]_vars PROVE Handling'
  OBVIOUS
<1>0. /\ TypeOK /\ ConsumerOK
      /\ StepsHaveMessages /\ PassedAreNotified /\ HandledAlone /\ NotifiedOnce
  BY DEF IInv, TypeOK, ConsumerOK
<1>t. /\ current \in [Workers -> Delivery \cup {None}]
      /\ step \in [Workers -> {"idle", "work", "insert"}]
      /\ todo \in [Workers -> SUBSET Receivers]
      /\ notified \in [Events \X Receivers -> Nat]
  BY <1>0 DEF TypeOK, ConsumerOK, ConsumerTypeOK
<1> USE DEF Handling, StepsHaveMessages, PassedAreNotified, HandledAlone, NotifiedOnce,
            Handles
<1>1. CASE UNCHANGED handlerVars
  <2>1. UNCHANGED kind /\ UNCHANGED current /\ UNCHANGED step /\ UNCHANGED todo
        /\ UNCHANGED notified /\ UNCHANGED overlapped
    BY <1>1 DEF handlerVars
  <2> QED
    BY <1>0, <2>1
<1>2. ASSUME NEW w \in Workers, Begin(w) PROVE Handling'
  <2>1. PICK m \in batch[w] :
          /\ Take(w, m)
          /\ overlapped' = IF \E v \in Workers : Handles(v, m.event)
                           THEN overlapped \cup {m.event} ELSE overlapped
    BY <1>2 DEF Begin
  <2>2. /\ m # None /\ m.event \in Events /\ current[w] = None
        /\ current' = [current EXCEPT ![w] = m]
    BY <1>0, <2>1, TakeKeeps DEF Take
  <2>3. /\ step' = [step EXCEPT ![w] = "work"]
        /\ todo' = [todo EXCEPT ![w] = IF kind = "notice" THEN Receivers ELSE {}]
        /\ kind' = kind /\ notified' = notified
    BY <1>2 DEF Begin, Goto, serviceVars
  <2>4. StepsHaveMessages'
    BY <1>0, <1>t, <2>2, <2>3
  <2>5. PassedAreNotified'
    BY <1>0, <1>t, <2>2, <2>3
  <2>6. overlapped \subseteq overlapped'
        /\ (m.event \notin overlapped' => \A v \in Workers : ~Handles(v, m.event))
    BY <2>1
  <2>7. HandledAlone'
    <3> SUFFICES ASSUME NEW e \in Events \ overlapped', NEW v \in Workers, Handles(v, e)'
                 PROVE  /\ \A u \in Workers : Handles(u, e)' => u = v
                        /\ step'[v] = "insert" =>
                             notified'[<<e, CHOOSE r \in todo'[v] : TRUE>>] = 0
      OBVIOUS
    <3>1. CASE e = m.event
      BY <1>t, <2>2, <2>3, <2>6, <3>1
    <3>2. CASE e # m.event
      <4>1. v # w /\ Handles(v, e) /\ e \notin overlapped
        BY <1>t, <2>2, <2>6, <3>2
      <4>2. todo'[v] = todo[v] /\ step'[v] = step[v]
        BY <1>t, <2>3, <4>1
      <4>3. \A u \in Workers : Handles(u, e)' => Handles(u, e)
        BY <1>t, <2>2, <3>2
      <4> QED
        BY <1>0, <2>3, <4>1, <4>2, <4>3
    <3> QED
      BY <3>1, <3>2
  <2>8. NotifiedOnce'
    BY <1>0, <2>3, <2>6
  <2> QED
    BY <2>4, <2>5, <2>7, <2>8
<1>3. ASSUME NEW w \in Workers, CheckNotification(w) PROVE Handling'
  <2> DEFINE next == CHOOSE r \in todo[w] : TRUE
             e == current[w].event
  <2>1. /\ step[w] = "work" /\ kind = "notice" /\ todo[w] # {}
        /\ UNCHANGED <<kind, current, notified, overlapped>>
        /\ \/ /\ notified[<<e, next>>] > 0
              /\ todo' = [todo EXCEPT ![w] = todo[w] \ {next}]
              /\ step' = step
           \/ /\ ~(notified[<<e, next>>] > 0)
              /\ step' = [step EXCEPT ![w] = "insert"]
              /\ todo' = todo
    BY <1>3 DEF CheckNotification, NotificationExists, Goto, consumerVars, serviceVars
  <2>2. next \in Receivers /\ e \in Events /\ current[w] # None
    BY <1>t, <2>1, AtWork
  <2>3. notified[<<e, next>>] \in Nat
    BY <1>t, <2>2
  <2>4. StepsHaveMessages'
    BY <1>0, <1>t, <2>1
  <2>5. NotifiedOnce'
    BY <1>0, <2>1
  <2>6. CASE /\ notified[<<e, next>>] > 0
             /\ todo' = [todo EXCEPT ![w] = todo[w] \ {next}]
             /\ step' = step
    <3>1. PassedAreNotified'
      <4> SUFFICES ASSUME NEW v \in Workers, current[v] # None,
                          NEW r \in Receivers \ todo'[v]
                   PROVE  notified[<<current[v].event, r>>] > 0
        BY <2>1
      <4>1. CASE v = w /\ r = next
        BY <2>6, <4>1
      <4>2. CASE v = w /\ r # next
        BY <1>0, <1>t, <2>1, <2>6, <4>2
      <4>3. CASE v # w
        BY <1>0, <1>t, <2>1, <2>6, <4>3
      <4> QED
        BY <4>1, <4>2, <4>3
    <3>2. HandledAlone'
      <4> HIDE DEF next
      <4> QED
        BY <1>0, <1>t, <2>1, <2>6
    <3> QED
      BY <2>4, <2>5, <3>1, <3>2
  <2>7. CASE /\ ~(notified[<<e, next>>] > 0)
             /\ step' = [step EXCEPT ![w] = "insert"]
             /\ todo' = todo
    <3>1. notified[<<e, next>>] = 0
      BY <2>3, <2>7
    <3>2. PassedAreNotified'
      BY <1>0, <2>1, <2>7
    <3>3. HandledAlone'
      <4> SUFFICES ASSUME NEW d \in Events \ overlapped, NEW v \in Workers, Handles(v, d)
                   PROVE  /\ \A u \in Workers : Handles(u, d) => u = v
                          /\ step'[v] = "insert" =>
                               notified[<<d, CHOOSE r \in todo[v] : TRUE>>] = 0
        BY <2>1, <2>7
      <4>1. CASE v = w
        BY <1>0, <3>1, <4>1
      <4>2. CASE v # w
        BY <1>0, <1>t, <2>7, <4>2
      <4> QED
        BY <4>1, <4>2
    <3> QED
      BY <2>4, <2>5, <3>2, <3>3
  <2> QED
    BY <2>1, <2>6, <2>7
<1>4. ASSUME NEW w \in Workers, InsertNotification(w) PROVE Handling'
  <2> DEFINE next == CHOOSE r \in todo[w] : TRUE
             e == current[w].event
  <2>1. /\ step[w] = "insert"
        /\ UNCHANGED <<kind, current, overlapped>>
        /\ notified' = [notified EXCEPT ![<<e, next>>] = notified[<<e, next>>] + 1]
        /\ todo' = [todo EXCEPT ![w] = todo[w] \ {next}]
        /\ step' = [step EXCEPT ![w] = "work"]
    BY <1>4 DEF InsertNotification, Goto, consumerVars
  <2>2. next \in Receivers /\ e \in Events /\ current[w] # None /\ Handles(w, e)
    BY <1>t, <2>1, AtWork
  <2>3. e \notin overlapped =>
          /\ notified[<<e, next>>] = 0
          /\ \A v \in Workers : Handles(v, e) => v = w
    BY <1>0, <2>1, <2>2
  <2> HIDE DEF next, e
  <2>4. \A d \in Events, r \in Receivers :
          notified'[<<d, r>>] = IF d = e /\ r = next THEN notified[<<d, r>>] + 1
                                ELSE notified[<<d, r>>]
    BY <1>t, <2>1, <2>2
  <2>5. StepsHaveMessages'
    BY <1>0, <1>t, <2>1
  <2>6. PassedAreNotified'
    <3> SUFFICES ASSUME NEW v \in Workers, kind = "notice", current[v] # None,
                        NEW r \in Receivers \ todo'[v]
                 PROVE  notified'[<<current[v].event, r>>] > 0
      BY <2>1
    <3>1. current[v].event \in Events /\ notified[<<current[v].event, r>>] \in Nat
      BY <1>0, <1>t, CurrentEvent
    <3>2. CASE v = w /\ r = next
      BY <2>4, <3>1, <3>2 DEF e
    <3>3. CASE v # w \/ r # next
      <4>1. r \notin todo[v]
        BY <1>t, <2>1, <3>3
      <4>2. notified[<<current[v].event, r>>] > 0
        BY <1>0, <4>1
      <4> QED
        BY <2>4, <3>1, <4>2
    <3> QED
      BY <3>2, <3>3
  <2>7. HandledAlone'
    <3> SUFFICES ASSUME NEW d \in Events \ overlapped, NEW v \in Workers, Handles(v, d)
                 PROVE  /\ \A u \in Workers : Handles(u, d) => u = v
                        /\ step'[v] = "insert" =>
                             notified'[<<d, CHOOSE r \in todo'[v] : TRUE>>] = 0
      BY <2>1
    <3>1. CASE d = e
      BY <1>t, <2>1, <2>2, <2>3, <3>1
    <3>2. CASE d # e
      <4>1. v # w
        BY <2>2, <3>2
      <4>2. todo'[v] = todo[v] /\ step'[v] = step[v]
        BY <1>t, <2>1, <4>1
      <4> DEFINE first == CHOOSE r \in todo[v] : TRUE
      <4>3. /\ \A u \in Workers : Handles(u, d) => u = v
            /\ step[v] = "insert" => first \in Receivers /\ notified[<<d, first>>] = 0
        BY <1>0, <1>t
      <4>4. step[v] = "insert" => notified'[<<d, first>>] = 0
        <5> HIDE DEF first
        <5> QED
          BY <2>4, <3>2, <4>3
      <4> QED
        BY <4>2, <4>3, <4>4
    <3> QED
      BY <3>1, <3>2
  <2>8. NotifiedOnce'
    <3> SUFFICES ASSUME NEW d \in Events \ overlapped, NEW r \in Receivers
                 PROVE  notified'[<<d, r>>] <= 1
      BY <2>1
    <3> QED
      BY <1>0, <2>3, <2>4
  <2> QED
    BY <2>5, <2>6, <2>7, <2>8
<1>5. ASSUME NEW w \in Workers,
             HandlerFails(w) \/ NoticeDone(w) \/ SendEmail(w) \/ InsertView(w) \/ Crash(w)
      PROVE  Handling'
  <2>1. /\ current' = [current EXCEPT ![w] = None]
        /\ step' = [step EXCEPT ![w] = "idle"]
        /\ todo' = [todo EXCEPT ![w] = {}]
        /\ kind' = kind /\ notified' = notified /\ overlapped' = overlapped
    BY <1>5, EndSteps
  <2>2. \A v \in Workers, d \in Events : Handles(v, d)' =>
          v # w /\ Handles(v, d) /\ step'[v] = step[v] /\ todo'[v] = todo[v]
    BY <1>t, <2>1
  <2>3. StepsHaveMessages' /\ PassedAreNotified'
    BY <1>0, <1>t, <2>1
  <2>4. HandledAlone'
    <3> SUFFICES ASSUME NEW d \in Events \ overlapped, NEW v \in Workers, Handles(v, d)'
                 PROVE  /\ \A u \in Workers : Handles(u, d)' => u = v
                        /\ step'[v] = "insert" =>
                             notified'[<<d, CHOOSE r \in todo'[v] : TRUE>>] = 0
      BY <2>1
    <3>1. Handles(v, d) /\ step'[v] = step[v] /\ todo'[v] = todo[v]
      BY <2>2
    <3>2. /\ \A u \in Workers : Handles(u, d) => u = v
          /\ step[v] = "insert" => notified[<<d, CHOOSE r \in todo[v] : TRUE>>] = 0
      BY <1>0, <3>1
    <3>3. \A u \in Workers : Handles(u, d)' => u = v
      BY <2>2, <3>2
    <3>4. step'[v] = "insert" => notified'[<<d, CHOOSE r \in todo'[v] : TRUE>>] = 0
      BY <2>1, <3>1, <3>2
    <3> QED
      BY <3>3, <3>4
  <2>5. NotifiedOnce'
    BY <1>0, <2>1
  <2> QED
    BY <2>3, <2>4, <2>5
<1> QED
  BY <1>1, <1>2, <1>3, <1>4, <1>5, QuietSteps DEF Next, Work

-----------------------------------------------------------------------------
(* What leaves the stream.                                                 *)

\* What has happened for an event stays.
LEMMA ServedStays ==
  ASSUME IInv, [Next]_vars, NEW e \in Events, Served(e)
  PROVE  Served(e)'
<1> USE DEF Served
<1>0. /\ notified \in [Events \X Receivers -> Nat] /\ sent \in [Events -> Nat]
      /\ kind \in {"notice", "email", "view"}
  BY DEF IInv, TypeOK
<1>1. kind' = kind
  BY DEF Next, Work, Publish, Expire, FetchBatch, Begin, CheckNotification,
         InsertNotification, NoticeDone, SendEmail, InsertView, HandlerFails,
         HandlerReturns, Crash, vars
<1>2. CASE UNCHANGED <<notified, sent, views>>
  BY <1>1, <1>2
<1>3. ASSUME NEW w \in Workers, InsertNotification(w) PROVE Served(e)'
  <2> DEFINE told == <<current[w].event, CHOOSE r \in todo[w] : TRUE>>
  <2>1. /\ notified' = [notified EXCEPT ![told] = notified[told] + 1]
        /\ UNCHANGED <<sent, views>>
    BY <1>3 DEF InsertNotification
  <2> HIDE DEF told
  <2>2. \A n \in Events \X Receivers : notified[n] > 0 => notified'[n] > 0
    BY <1>0, <2>1, CountsMore
  <2> QED
    BY <1>0, <1>1, <2>1, <2>2
<1>4. ASSUME NEW w \in Workers, SendEmail(w) PROVE Served(e)'
  <2> DEFINE mailed == current[w].event
  <2>1. sent' = [sent EXCEPT ![mailed] = sent[mailed] + 1] /\ UNCHANGED <<notified, views>>
    BY <1>4 DEF SendEmail
  <2> HIDE DEF mailed
  <2>2. \A d \in Events : sent[d] > 0 => sent'[d] > 0
    BY <1>0, <2>1, CountsMore
  <2> QED
    BY <1>0, <1>1, <2>1, <2>2
<1>5. ASSUME NEW w \in Workers, InsertView(w) PROVE Served(e)'
  <2>1. views \subseteq views' /\ UNCHANGED <<notified, sent>>
    BY <1>5 DEF InsertView
  <2> QED
    BY <1>0, <1>1, <2>1
<1> QED
  BY <1>2, <1>3, <1>4, <1>5
  DEF Next, Work, Publish, Expire, FetchBatch, Begin, CheckNotification, NoticeDone,
      HandlerFails, Crash, vars, serviceVars

\* The event a handler returns from has been served.
LEMMA ReturnsServed ==
  ASSUME IInv, NEW w \in Workers, NEW e \in Events, e = current[w].event,
         NoticeDone(w) \/ InsertView(w) \/ SendEmail(w)
  PROVE  Served(e)'
<1>0. current[w] # None /\ sent \in [Events -> Nat]
  BY AtWork DEF NoticeDone, InsertView, SendEmail, IInv, TypeOK
<1>1. CASE NoticeDone(w)
  <2>1. kind = "notice" /\ todo[w] = {} /\ kind' = kind /\ notified' = notified
    BY <1>1 DEF NoticeDone, HandlerReturns, serviceVars
  <2>2. \A r \in Receivers : notified[<<e, r>>] > 0
    BY <1>0, <2>1 DEF IInv, PassedAreNotified
  <2> QED
    BY <2>1, <2>2 DEF Served
<1>2. CASE InsertView(w)
  BY <1>0, <1>2 DEF InsertView, HandlerReturns, Served
<1>3. CASE SendEmail(w)
  <2>1. sent' = [sent EXCEPT ![e] = sent[e] + 1] /\ kind' = "email"
    BY <1>3 DEF SendEmail
  <2>2. sent'[e] > 0
    BY <1>0, <2>1
  <2> QED
    BY <2>1, <2>2 DEF Served
<1> QED
  BY <1>1, <1>2, <1>3

LEMMA NextSettled == IInv /\ [Next]_vars => SettledIsServed'
<1> SUFFICES ASSUME IInv, [Next]_vars, NEW e \in Events, message'[e] = "settled"
             PROVE  Served(e)' \/ e \in deadLetters' \cup unburied'
  BY DEF SettledIsServed
<1>0. /\ message \in [Events -> {"none", "ready", "held", "settled", "exhausted"}]
      /\ SettledIsServed
  BY DEF IInv, TypeOK, ConsumerTypeOK
<1>1. deadLetters \subseteq deadLetters' /\ unburied \subseteq unburied'
  BY DEF Next, Work, Publish, Expire, AckWaitExpires, FetchBatch, Fetch, Begin, Take,
         CheckNotification, InsertNotification, NoticeDone, SendEmail, InsertView,
         HandlerFails, HandlerReturns, Crash, Lose, Succeed, Fail, vars, consumerVars
<1>2. CASE message[e] = "settled"
  BY <1>0, <1>1, <1>2, ServedStays DEF SettledIsServed
<1>3. CASE message[e] # "settled"
  <2>1. PICK w \in Workers : \/ HandlerFails(w) \/ NoticeDone(w)
                             \/ SendEmail(w) \/ InsertView(w)
    BY <1>0, <1>3
    DEF Next, Work, Publish, Store, Expire, AckWaitExpires, Redeliver, FetchBatch, Fetch,
        Begin, Take, CheckNotification, InsertNotification, Crash, Lose, vars,
        consumerVars
  <2>2. Succeed(w) \/ Fail(w)
    BY <2>1 DEF HandlerFails, NoticeDone, SendEmail, InsertView, HandlerReturns
  <2>3. e = current[w].event
    BY <1>0, <1>3, <2>2 DEF Succeed, Fail, Ack, Redeliver
  <2>4. CASE Fail(w)
    <3>1. e \in deadLetters' \cup unburied'
      BY <1>0, <1>3, <2>3, <2>4 DEF Fail, Redeliver
    <3> QED
      BY <3>1
  <2>5. CASE ~Fail(w)
    BY <2>1, <2>3, <2>5, ReturnsServed DEF HandlerFails
  <2> QED
    BY <2>4, <2>5
<1> QED
  BY <1>2, <1>3

-----------------------------------------------------------------------------
(* The durable is EventLife.                                               *)

\* Nothing is fetched that was not published: steps that keep messages published and
\* give workers messages of their batches only.
LEMMA PublishedKept ==
  ASSUME ConsumerOK, ConsumerOK', FetchedArePublished,
         \A e \in Events : message[e] # "none" => message'[e] # "none",
         \A w \in Workers : \A m \in batch'[w] :
           m \in batch[w] \/ message'[m.event] # "none",
         \A w \in Workers : current'[w] \in {None, current[w]} \cup batch[w]
  PROVE  FetchedArePublished'
<1>1. \A w \in Workers : \A m \in batch[w] : m.event \in Events
  BY DEF ConsumerOK, ConsumerTypeOK, Delivery
<1>2. \A w \in Workers : current[w] # None => current[w].event \in Events
  BY CurrentEvent
<1> QED
  BY <1>1, <1>2 DEF FetchedArePublished

\* Only JetStream moves a message, and no message becomes unpublished.
LEMMA MessagesStay ==
  ASSUME ConsumerOK, [Next]_vars, NEW e \in Events, message[e] # "none"
  PROVE  message'[e] # "none"
<1>0. message \in [Events -> {"none", "ready", "held", "settled", "exhausted"}]
  BY DEF ConsumerOK, ConsumerTypeOK
<1>1. CASE message' = message
  BY <1>1
<1>2. ASSUME NEW d \in Events, Publish(d) \/ Expire(d) PROVE message'[e] # "none"
  BY <1>0, <1>2 DEF Publish, Store, Expire, AckWaitExpires, Redeliver
<1>3. ASSUME NEW w \in Workers, FetchBatch(w) PROVE message'[e] # "none"
  BY <1>0, <1>3 DEF FetchBatch, Fetch
<1>4. ASSUME NEW d, Ack(d) \/ Redeliver(d) PROVE message'[e] # "none"
  BY <1>0, <1>4 DEF Ack, Redeliver
<1>5. ASSUME NEW w \in Workers,
             HandlerFails(w) \/ NoticeDone(w) \/ SendEmail(w) \/ InsertView(w)
      PROVE  message'[e] # "none"
  <2>1. Succeed(w) \/ Fail(w)
    BY <1>5 DEF HandlerFails, NoticeDone, SendEmail, InsertView, HandlerReturns
  <2>2. Ack(current[w].event) \/ Redeliver(current[w].event)
    BY <2>1 DEF Succeed, Fail
  <2> QED
    BY <2>2, <1>4
<1> QED
  BY <1>1, <1>2, <1>3, <1>5
  DEF Next, Work, Begin, Take, CheckNotification, InsertNotification, Crash, Lose, vars,
      consumerVars

LEMMA NextPublished ==
  ASSUME IInv, IInv', FetchedArePublished, [Next]_vars
  PROVE  FetchedArePublished'
<1>0. ConsumerOK /\ ConsumerOK'
  BY DEF IInv, TypeOK, ConsumerOK
<1>t. batch \in [Workers -> SUBSET Delivery] /\ current \in [Workers -> Delivery \cup {None}]
  BY <1>0 DEF ConsumerOK, ConsumerTypeOK
<1>a. ASSUME \A w \in Workers : \A m \in batch'[w] :
               m \in batch[w] \/ message'[m.event] # "none",
             \A w \in Workers : current'[w] \in {None, current[w]} \cup batch[w]
      PROVE  FetchedArePublished'
  BY <1>0, <1>a, MessagesStay, PublishedKept
<1>1. CASE UNCHANGED <<batch, current>>
  BY <1>1, <1>a
<1>2. ASSUME NEW w \in Workers, FetchBatch(w) PROVE FetchedArePublished'
  <2>1. PICK S \in SUBSET Events :
          /\ message' = [e \in Events |-> IF e \in S THEN "held" ELSE message[e]]
          /\ batch' = [batch EXCEPT ![w] =
                         {[event |-> e, number |-> delivered[e] + 1] : e \in S}]
          /\ current' = current
    BY <1>2 DEF FetchBatch, Fetch
  <2>2. \A v \in Workers : \A m \in batch'[v] :
          m \in batch[v] \/ message'[m.event] # "none"
    BY <1>t, <2>1
  <2> QED
    BY <1>a, <2>1, <2>2
<1>3. ASSUME NEW w \in Workers, Begin(w) PROVE FetchedArePublished'
  <2>1. PICK m \in batch[w] : Take(w, m)
    BY <1>3 DEF Begin
  <2>2. /\ batch' = [batch EXCEPT ![w] = batch[w] \ {m}]
        /\ current' = [current EXCEPT ![w] = m]
    BY <2>1 DEF Take
  <2> QED
    BY <1>t, <1>a, <2>2
<1>4. ASSUME NEW w \in Workers,
             HandlerFails(w) \/ NoticeDone(w) \/ SendEmail(w) \/ InsertView(w) \/ Crash(w)
      PROVE  FetchedArePublished'
  <2>1. current' = [current EXCEPT ![w] = None]
    BY <1>4, EndSteps
  <2>2. batch' = batch \/ batch' = [batch EXCEPT ![w] = {}]
    BY <1>4 DEF HandlerFails, NoticeDone, SendEmail, InsertView, HandlerReturns, Crash,
                Lose, Succeed, Fail
  <2> QED
    BY <1>t, <1>a, <2>1, <2>2
<1> QED
  BY <1>1, <1>2, <1>3, <1>4
  DEF Next, Work, Publish, Expire, AckWaitExpires, CheckNotification, InsertNotification,
      vars, consumerVars

Settled(e) == Stage[e] = "open" /\ Stage' = [Stage EXCEPT ![e] = "settled"]

\* What JetStream does to a message is a step of its stage, or none.
LEMMA StageMoves ==
  ASSUME message \in [Events -> {"none", "ready", "held", "settled", "exhausted"}],
         NEW e \in Events
  PROVE  /\ message[e] = "none" <=> Stage[e] = "none"
         /\ Store(e) => Stage[e] = "none" /\ Stage' = [Stage EXCEPT ![e] = "open"]
         /\ Redeliver(e) => UNCHANGED Stage \/ Life!Exhaust(e)
         /\ Ack(e) => UNCHANGED Stage \/ Settled(e)
BY DEF Stage, Store, Redeliver, Ack, Life!Exhaust, Settled

\* A handler that ends settles its event only when it has served it, or buries it.
LEMMA ReturnMoves ==
  ASSUME IInv, FetchedArePublished, NEW w \in Workers, NEW e \in Events,
         e = current[w].event,
         HandlerFails(w) \/ NoticeDone(w) \/ SendEmail(w) \/ InsertView(w)
  PROVE  /\ Stage[e] # "none"
         /\ Buried' \in {Buried, Buried \cup {e}}
         /\ \/ UNCHANGED Stage \/ Life!Exhaust(e)
            \/ Settled(e) /\ (Served(e)' \/ e \in Buried')
<1>0. message \in [Events -> {"none", "ready", "held", "settled", "exhausted"}]
  BY DEF IInv, TypeOK, ConsumerTypeOK
<1>1. current[w] # None
  BY AtWork DEF HandlerFails, NoticeDone, SendEmail, InsertView
<1>2. Stage[e] # "none"
  BY <1>0, <1>1, StageMoves DEF FetchedArePublished
<1>3. CASE Fail(w)
  <2>1. CASE Ack(e) /\ e \in Buried' /\ Buried' = Buried \cup {e}
    BY <1>0, <1>2, <2>1, StageMoves
  <2>2. CASE Redeliver(e) /\ Buried' = Buried
    BY <1>0, <1>2, <2>2, StageMoves
  <2> QED
    BY <1>3, <2>1, <2>2 DEF Fail, Buried
<1>4. CASE Succeed(w) /\ ~HandlerFails(w)
  <2>1. Ack(e) /\ Buried' = Buried
    BY <1>4 DEF Succeed, Buried
  <2>2. Served(e)'
    BY <1>4, ReturnsServed
  <2> QED
    BY <1>0, <1>2, <2>1, <2>2, StageMoves
<1> QED
  BY <1>3, <1>4 DEF HandlerFails, NoticeDone, SendEmail, InsertView, HandlerReturns

\* A handler serves nobody but its own event.
LEMMA ServesItsOwn ==
  ASSUME IInv, IInv', [Next]_vars, NEW w \in Workers, NEW e \in Events,
         e = current[w].event, Work(w)
  PROVE  ServedEvents' \in {ServedEvents, ServedEvents \cup {e}}
<1>0. /\ notified \in [Events \X Receivers -> Nat] /\ sent \in [Events -> Nat]
      /\ kind \in {"notice", "email", "view"}
  BY DEF IInv, TypeOK
<1>1. kind' = kind
  BY DEF Work, Begin, CheckNotification, InsertNotification, NoticeDone, SendEmail,
         InsertView, HandlerFails, HandlerReturns
<1>2. ASSUME NEW d \in Events, d # e, Served(d)' PROVE Served(d)
  <2>1. CASE UNCHANGED <<notified, sent, views>>
    BY <1>1, <1>2, <2>1 DEF Served
  <2>2. CASE InsertNotification(w)
    <3> DEFINE next == CHOOSE r \in todo[w] : TRUE
    <3>1. /\ notified' = [notified EXCEPT ![<<e, next>>] = notified[<<e, next>>] + 1]
          /\ UNCHANGED <<sent, views>>
      BY <2>2 DEF InsertNotification
    <3> HIDE DEF next
    <3>2. \A r \in Receivers : notified'[<<d, r>>] = notified[<<d, r>>]
      BY <1>0, <1>2, <3>1
    <3> QED
      BY <1>0, <1>1, <1>2, <3>1, <3>2 DEF Served
  <2>3. CASE SendEmail(w)
    <3>1. sent' = [sent EXCEPT ![e] = sent[e] + 1] /\ UNCHANGED <<notified, views>>
      BY <2>3 DEF SendEmail
    <3>2. sent'[d] = sent[d]
      BY <1>0, <1>2, <3>1
    <3> QED
      BY <1>0, <1>1, <1>2, <3>1, <3>2 DEF Served
  <2>4. CASE InsertView(w)
    <3>1. views' = views \cup {e} /\ UNCHANGED <<notified, sent>>
      BY <2>4 DEF InsertView
    <3> QED
      BY <1>0, <1>1, <1>2, <3>1 DEF Served
  <2> QED
    BY <2>1, <2>2, <2>3, <2>4
    DEF Work, Begin, CheckNotification, NoticeDone, HandlerFails, serviceVars
<1>3. ServedEvents \subseteq ServedEvents'
  BY ServedStays DEF ServedEvents
<1>4. ServedEvents' \subseteq ServedEvents \cup {e}
  BY <1>2 DEF ServedEvents
<1> QED
  BY <1>3, <1>4

\* The steps of JetStream, and those of a worker between two calls of a handler.
LEMMA LoopMoves ==
  ASSUME IInv, [Next]_vars,
         \/ \E w \in Workers : FetchBatch(w) \/ Begin(w) \/ Crash(w)
         \/ UNCHANGED vars
  PROVE  UNCHANGED <<Stage, ServedEvents, Buried>>
<1>0. message \in [Events -> {"none", "ready", "held", "settled", "exhausted"}]
  BY DEF IInv, TypeOK, ConsumerTypeOK
<1>1. UNCHANGED ServedEvents
  BY DEF FetchBatch, Begin, Crash, vars, serviceVars, ServedEvents, Served
<1>2. UNCHANGED Buried
  BY DEF FetchBatch, Fetch, Begin, Take, Crash, Lose, vars, consumerVars, Buried
<1>3. CASE message' = message
  BY <1>1, <1>2, <1>3 DEF Stage
<1>4. ASSUME NEW w \in Workers, FetchBatch(w) PROVE UNCHANGED Stage
  BY <1>0, <1>4 DEF FetchBatch, Fetch, Stage
<1> QED
  BY <1>1, <1>2, <1>3, <1>4 DEF Begin, Take, Crash, Lose, vars, consumerVars

LEMMA JetStreamMoves ==
  ASSUME IInv, NEW e \in Events, Publish(e) \/ Expire(e)
  PROVE  Life!Next \/ UNCHANGED <<Stage, ServedEvents, Buried>>
<1>0. message \in [Events -> {"none", "ready", "held", "settled", "exhausted"}]
  BY DEF IInv, TypeOK, ConsumerTypeOK
<1>1. UNCHANGED ServedEvents /\ UNCHANGED Buried
  BY DEF Publish, Expire, AckWaitExpires, serviceVars, ServedEvents, Served, Buried
<1>2. CASE Publish(e)
  BY <1>0, <1>1, <1>2, StageMoves DEF Publish, Life!Next, Life!Publish
<1>3. CASE Expire(e)
  <2>1. Stage[e] # "none" /\ (UNCHANGED Stage \/ Life!Exhaust(e))
    BY <1>0, <1>3, StageMoves DEF Expire, AckWaitExpires
  <2> QED
    BY <1>1, <2>1 DEF Life!Next, Life!Handle
<1> QED
  BY <1>2, <1>3

LEMMA HandlerMoves ==
  ASSUME IInv, IInv', FetchedArePublished, [Next]_vars, NEW w \in Workers, Work(w), ~Begin(w)
  PROVE  Life!Next
<1>0. message \in [Events -> {"none", "ready", "held", "settled", "exhausted"}]
  BY DEF IInv, TypeOK, ConsumerTypeOK
<1>1. current[w] # None /\ current[w].event \in Events
  BY AtWork DEF Work, CheckNotification, InsertNotification, NoticeDone, SendEmail,
                InsertView, HandlerFails
<1>2. PICK e \in Events : e = current[w].event
  BY <1>1
<1>3. ServedEvents' \in {ServedEvents, ServedEvents \cup {e}}
  BY <1>2, ServesItsOwn
<1>4. Stage[e] # "none"
  BY <1>0, <1>1, <1>2, StageMoves DEF FetchedArePublished
<1>5. CASE CheckNotification(w) \/ InsertNotification(w)
  <2>1. UNCHANGED Stage /\ UNCHANGED Buried
    BY <1>5 DEF CheckNotification, InsertNotification, consumerVars, Stage, Buried
  <2> QED
    BY <1>3, <1>4, <2>1 DEF Life!Next, Life!Handle
<1>6. CASE HandlerFails(w) \/ NoticeDone(w) \/ SendEmail(w) \/ InsertView(w)
  <2>1. /\ Buried' \in {Buried, Buried \cup {e}}
        /\ \/ UNCHANGED Stage \/ Life!Exhaust(e)
           \/ Settled(e) /\ (Served(e)' \/ e \in Buried')
    BY <1>2, <1>6, ReturnMoves
  <2>2. Served(e)' => e \in ServedEvents'
    BY DEF ServedEvents
  <2>3. Settled(e) /\ (Served(e)' \/ e \in Buried') => Life!Settle(e)
    BY <2>2 DEF Settled, Life!Settle
  <2> QED
    BY <1>3, <1>4, <2>1, <2>3 DEF Life!Next, Life!Handle
<1> QED
  BY <1>5, <1>6 DEF Work

-----------------------------------------------------------------------------
(* The theorems.                                                           *)

\* The inductive invariant: whatever a handler has passed is done, and an event
\* without overlapping handlers is in one hand only.
THEOREM SpecIInv == Spec => []IInv
<1>1. IInv /\ [Next]_vars => IInv'
  BY NextTypeOK, NextHandling, NextSettled DEF IInv, Handling
<1> QED
  BY <1>1, InitIInv, PTL DEF Spec

\* Every reachable state is well typed: no delivery beyond MaxDeliver.
THEOREM TypeCorrect == Spec => []TypeOK
<1>1. IInv => TypeOK
  BY DEF IInv
<1> QED
  BY <1>1, SpecIInv, PTL

\* What is acknowledged is done in full, or is a dead letter unless that was lost.
THEOREM NothingAckedUndone == Spec => []SettledIsServed
<1>1. IInv => SettledIsServed
  BY DEF IInv
<1> QED
  BY <1>1, SpecIInv, PTL

\* Without two handlers of an event at once, no receiver is told of it twice.
THEOREM ToldOnce == Spec => []NotifiedOnce
<1>1. IInv => NotifiedOnce
  BY DEF IInv
<1> QED
  BY <1>1, SpecIInv, PTL

\* Workers never have an event that was not published.
THEOREM NothingFromNowhere == Spec => []FetchedArePublished
<1>1. Init => FetchedArePublished
  BY DEF Init, ConsumerInit, FetchedArePublished
<1>2. IInv /\ IInv' /\ FetchedArePublished /\ [Next]_vars => FetchedArePublished'
  BY NextPublished
<1> QED
  BY <1>1, <1>2, SpecIInv, PTL DEF Spec

\* The notification and the analytics service implement EventLife, whatever JetStream
\* redelivers: what a publisher may rely on.
THEOREM Implements == Spec => LivesAsPublished
<1>1. Init => Life!Init
  BY DEF Init, ConsumerInit, Life!Init, Stage, ServedEvents, Buried
<1>2. IInv /\ IInv' /\ FetchedArePublished /\ [Next]_vars
        => [Life!Next]_<<Stage, ServedEvents, Buried>>
  BY LoopMoves, JetStreamMoves, HandlerMoves DEF Next
<1> QED
  BY <1>1, <1>2, SpecIInv, NothingFromNowhere, PTL DEF Spec, LivesAsPublished, Life!Spec
=============================================================================
