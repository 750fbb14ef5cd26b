--------------------------- MODULE EventDelivery ----------------------------
(***************************************************************************)
(* Events of the Node server on their way through the notification and the *)
(* analytics service: events/nats.publisher.js, the consumer loop of       *)
(* DurableConsumer, and the handlers of the durables                       *)
(*   notice: payment succeeded and the like, which insert a notification   *)
(*           for each receiver (services/notification, insertIfMissing);   *)
(*   email:  email requested, which sends one (handleEmailRequested, with  *)
(*           SMTP configured);                                             *)
(*   view:   search performed and hotel viewed, which insert a document    *)
(*           whose event id is unique (services/analytics).                *)
(* Every durable has a loop of its own, so the events of a behaviour are   *)
(* those of one durable, which is chosen at the start.                     *)
(*                                                                         *)
(* A receiver stands for a receiver and the type of what he is told.  The  *)
(* work of a handler can fail at each statement; an event that cannot be   *)
(* decoded fails at the first one every time.  A notification that was     *)
(* inserted is also published for the sockets, once and for whoever        *)
(* listens; nothing here depends on it.                                    *)
(***************************************************************************)
EXTENDS DurableConsumer

CONSTANTS
  Receivers,    \* whom a notice is for
  MaxCrashes    \* bound: processes that stop

ASSUME DeliveryAssumption == MaxCrashes \in Nat /\ None \notin Receivers

VARIABLES
  kind,         \* the durable: notice, email or view
  step,         \* where a worker's handler is
  todo,         \* receivers it has not come to
  notified,     \* rows of notifications for an event and a receiver
  sent,         \* emails the mail server accepted for an event
  views,        \* analytics documents
  crashes,
  overlapped    \* history: events two workers were handling at once

serviceVars == <<notified, sent, views>>
vars == <<consumerVars, kind, step, todo, serviceVars, crashes, overlapped>>

TypeOK ==
  /\ ConsumerTypeOK
  /\ kind \in {"notice", "email", "view"}
  /\ step \in [Workers -> {"idle", "work", "insert"}]
  /\ todo \in [Workers -> SUBSET Receivers]
  /\ notified \in [Events \X Receivers -> Nat]
  /\ sent \in [Events -> Nat]
  /\ views \subseteq Events
  /\ crashes \in 0..MaxCrashes
  /\ overlapped \subseteq Events

Init ==
  /\ ConsumerInit
  /\ kind \in {"notice", "email", "view"}
  /\ step = [w \in Workers |-> "idle"]
  /\ todo = [w \in Workers |-> {}]
  /\ notified = [n \in Events \X Receivers |-> 0]
  /\ sent = [e \in Events |-> 0]
  /\ views = {}
  /\ crashes = 0
  /\ overlapped = {}

Goto(w, s) == step' = [step EXCEPT ![w] = s]

\* natsPublisher.publish: the event is in the stream.  When it cannot be stored
\* null is returned and its caller goes on: it stays unpublished.
Publish(e) ==
  /\ Store(e)
  /\ UNCHANGED <<delivered, batch, current, deadLetters, unburied, kind, step, todo,
                 serviceVars, crashes, overlapped>>

Expire(e) ==
  /\ AckWaitExpires(e)
  /\ UNCHANGED <<kind, step, todo, serviceVars, crashes, overlapped>>

FetchBatch(w) ==
  /\ Fetch(w)
  /\ UNCHANGED <<kind, step, todo, serviceVars, crashes, overlapped>>

\* The handler of the durable is called.
Begin(w) ==
  /\ \E m \in batch[w] :
       /\ Take(w, m)
       /\ overlapped' = IF \E v \in Workers : Handles(v, m.event)
                        THEN overlapped \cup {m.event} ELSE overlapped
  /\ Goto(w, "work")
  /\ todo' = [todo EXCEPT ![w] = IF kind = "notice" THEN Receivers ELSE {}]
  /\ UNCHANGED <<kind, serviceVars, crashes>>

End(w) == Goto(w, "idle") /\ todo' = [todo EXCEPT ![w] = {}]

\* A statement of the handler fails.
HandlerFails(w) ==
  /\ step[w] \in {"work", "insert"}
  /\ Fail(w)
  /\ End(w)
  /\ UNCHANGED <<kind, serviceVars, crashes, overlapped>>

HandlerReturns(w) ==
  /\ Succeed(w)
  /\ End(w)
  /\ UNCHANGED <<kind, crashes, overlapped>>

-----------------------------------------------------------------------------
(* The handlers *)

\* Mutant: any notification of the event counts, whomever it is for.
ExistsForEvent(e, r) == \E q \in Receivers : notified[<<e, q>>] > 0

\* EventNotificationExists, by event, receiver and type.
NotificationExists(e, r) == notified[<<e, r>>] > 0

\* Mutant: the notification is inserted without looking for it.
AlwaysInsert(w) ==
  /\ step[w] = "work" /\ kind = "notice" /\ todo[w] # {}
  /\ Goto(w, "insert")
  /\ UNCHANGED <<consumerVars, kind, todo, serviceVars, crashes, overlapped>>

\* insertIfMissing looks for the notification ...
CheckNotification(w) ==
  /\ step[w] = "work" /\ kind = "notice" /\ todo[w] # {}
  /\ LET next == CHOOSE r \in todo[w] : TRUE IN
     IF NotificationExists(current[w].event, next)
     THEN todo' = [todo EXCEPT ![w] = @ \ {next}] /\ UNCHANGED step
     ELSE Goto(w, "insert") /\ UNCHANGED todo
  /\ UNCHANGED <<consumerVars, kind, serviceVars, crashes, overlapped>>

\* ... and inserts it; publishRealtimeDispatch's errors are logged only.
InsertNotification(w) ==
  /\ step[w] = "insert"
  /\ LET next == CHOOSE r \in todo[w] : TRUE IN
     /\ notified' = [notified EXCEPT ![<<current[w].event, next>>] = @ + 1]
     /\ todo' = [todo EXCEPT ![w] = @ \ {next}]
  /\ Goto(w, "work")
  /\ UNCHANGED <<consumerVars, kind, sent, views, crashes, overlapped>>

\* Every receiver has been told.
NoticeDone(w) ==
  /\ step[w] = "work" /\ kind = "notice" /\ todo[w] = {}
  /\ HandlerReturns(w)
  /\ UNCHANGED serviceVars

\* mailer.Send: the mail server has accepted the mail, and Send says so or fails
\* on the rest of the conversation.
SendEmail(w) ==
  /\ step[w] = "work" /\ kind = "email"
  /\ sent' = [sent EXCEPT ![current[w].event] = @ + 1]
  /\ End(w)
  /\ Succeed(w) \/ Fail(w)
  /\ UNCHANGED <<kind, notified, views, crashes, overlapped>>

\* InsertSearchLog, InsertHotelViewEvent: a duplicate key counts as success.
InsertView(w) ==
  /\ step[w] = "work" /\ kind = "view"
  /\ views' = views \cup {current[w].event}
  /\ HandlerReturns(w)
  /\ UNCHANGED <<notified, sent>>

Crash(w) ==
  /\ crashes < MaxCrashes
  /\ crashes' = crashes + 1
  /\ Lose(w)
  /\ End(w)
  /\ UNCHANGED <<kind, serviceVars, overlapped>>

Work(w) ==
  \/ Begin(w) \/ CheckNotification(w) \/ InsertNotification(w)
  \/ NoticeDone(w) \/ SendEmail(w) \/ InsertView(w)
  \/ HandlerFails(w)

Next ==
  \/ \E e \in Events : Publish(e) \/ Expire(e)
  \/ \E w \in Workers : FetchBatch(w) \/ Work(w) \/ Crash(w)

Spec == Init /\ [][Next]_vars

\* JetStream's timers run out, and a process that runs fetches and goes on with
\* its batch.
FairSpec ==
  /\ Spec
  /\ \A e \in Events : WF_vars(Expire(e))
  /\ \A w \in Workers : WF_vars(FetchBatch(w)) /\ WF_vars(Work(w))

-----------------------------------------------------------------------------
(* Properties *)

\* What an event was published for has happened.
Served(e) ==
  CASE kind = "notice" -> \A r \in Receivers : notified[<<e, r>>] > 0
    [] kind = "email"  -> sent[e] > 0
    [] kind = "view"   -> e \in views

\* No event leaves the stream unserved: what is acknowledged has been done in full,
\* for every receiver, or is a dead letter, unless that could not be published.
\* LivesAsPublished says it of every step; here it is for the invariant below.
SettledIsServed ==
  \A e \in Events :
    message[e] = "settled" => Served(e) \/ e \in deadLetters \cup unburied

\* A receiver is told once of an event, in spite of redeliveries after errors,
\* time-outs and crashes, unless two processes handled the event at once: the check
\* and the insert are two statements and no index is unique.
NotifiedOnce ==
  \A e \in Events \ overlapped, r \in Receivers : notified[<<e, r>>] <= 1

ServedEvents == {e \in Events : Served(e)}

Life == INSTANCE EventLife WITH stage <- Stage, served <- ServedEvents, buried <- Buried

\* To its publisher the durable is EventLife: whatever is redelivered, acknowledged
\* late or fails, an event is closed once, and settled only when it was served in
\* full or buried; nobody is told of an event that was not published.
LivesAsPublished == Life!Spec

\* Every published event leaves the stream: handled, dead or out of deliveries.
EveryEventLeaves ==
  \A e \in Events : message[e] = "ready" ~> message[e] \in {"settled", "exhausted"}

-----------------------------------------------------------------------------
(* Why it holds: the invariant the proofs use. *)

\* A handler runs exactly while there is a message for it.
StepsHaveMessages ==
  \A w \in Workers :
    /\ step[w] = "idle" <=> current[w] = None
    /\ step[w] = "insert" => kind = "notice" /\ todo[w] # {}

\* The receivers a handler has passed have been told.
PassedAreNotified ==
  \A w \in Workers : kind = "notice" /\ current[w] # None =>
    \A r \in Receivers \ todo[w] : notified[<<current[w].event, r>>] > 0

\* An event nobody overlapped on has one handler, which inserts what is missing.
HandledAlone ==
  \A e \in Events \ overlapped : \A w \in Workers : Handles(w, e) =>
    /\ \A v \in Workers : Handles(v, e) => v = w
    /\ step[w] = "insert" => notified[<<e, CHOOSE r \in todo[w] : TRUE>>] = 0

IInv ==
  /\ TypeOK
  /\ DeliveriesLeft
  /\ StepsHaveMessages
  /\ PassedAreNotified
  /\ HandledAlone
  /\ SettledIsServed
  /\ NotifiedOnce
=============================================================================
