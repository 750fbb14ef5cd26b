-------------------------- MODULE DurableConsumer ---------------------------
(***************************************************************************)
(* A durable JetStream consumer and the loop the Go services run on it     *)
(* (consume and ensureConsumer of services/notification, services/media    *)
(* and services/analytics, internal/events/consumer.go, which share it     *)
(* line for line).  Every process of a service runs the loop on the same   *)
(* durable.                                                                *)
(*                                                                         *)
(* A worker fetches a batch and handles it message by message; the server  *)
(* redelivers a message whose acknowledgement does not come in AckWait,    *)
(* also when it still lies in a batch.  JetStream itself is the            *)
(* environment, modelled from how the services use it: an acknowledgement  *)
(* of any delivery settles a message, and a message delivered MaxDeliver   *)
(* times is dropped when it times out.                                     *)
(***************************************************************************)
EXTENDS Integers, FiniteSets

CONSTANTS
  Events,       \* messages on the subject of the durable
  Workers,      \* processes of the service
  MaxDeliver,   \* ConsumerConfig.MaxDeliver, and what shouldDeadLetter compares with
  FetchSize,    \* messages of one Fetch
  None          \* null

ASSUME ConsumerAssumption ==
  /\ MaxDeliver \in Nat \ {0}
  /\ FetchSize \in Nat \ {0}
  /\ None \notin Events
  /\ None \notin [event: Events, number: Nat]

VARIABLES
  message,      \* JetStream: none, ready, held, settled or exhausted
  delivered,    \* JetStream: deliveries of a message so far
  batch,        \* messages a worker has fetched and not come to
  current,      \* the message a worker's handler is working on
  deadLetters,  \* messages published to the dead letter subject
  unburied      \* history: messages acknowledged although that failed

consumerVars == <<message, delivered, batch, current, deadLetters, unburied>>

Delivery == [event: Events, number: 1..MaxDeliver]

ConsumerTypeOK ==
  /\ message \in [Events -> {"none", "ready", "held", "settled", "exhausted"}]
  /\ delivered \in [Events -> 0..MaxDeliver]
  /\ batch \in [Workers -> SUBSET Delivery]
  /\ current \in [Workers -> Delivery \cup {None}]
  /\ deadLetters \subseteq Events
  /\ unburied \subseteq Events

ConsumerInit ==
  /\ message = [e \in Events |-> "none"]
  /\ delivered = [e \in Events |-> 0]
  /\ batch = [w \in Workers |-> {}]
  /\ current = [w \in Workers |-> None]
  /\ deadLetters = {}
  /\ unburied = {}

\* The message a worker is handling is e.
Handles(w, e) == current[w] # None /\ current[w].event = e

-----------------------------------------------------------------------------
(* JetStream *)

\* js.Publish has stored the message in the stream.
Store(e) == message[e] = "none" /\ message' = [message EXCEPT ![e] = "ready"]

\* Mutant: a consumer with no limit to its deliveries.
RedeliverForEver(e) == message' = [message EXCEPT ![e] = IF @ = "held" THEN "ready" ELSE @]

\* Mutant: a message that is negatively acknowledged late is delivered once more.
RedeliverLate(e) ==
  message' = [message EXCEPT ![e] = IF delivered[e] < MaxDeliver THEN "ready" ELSE "exhausted"]

\* A message that is held is ready again, unless it was its last delivery.
Redeliver(e) ==
  message' = [message EXCEPT ![e] =
    IF @ = "held" THEN (IF delivered[e] < MaxDeliver THEN "ready" ELSE "exhausted")
    ELSE @]

\* Mutant: a consumer without AckWait.
NeverRedeliver(e) == FALSE /\ UNCHANGED consumerVars

\* AckWait passes: the message is delivered again, or dropped.
AckWaitExpires(e) ==
  /\ message[e] = "held"
  /\ Redeliver(e)
  /\ UNCHANGED <<delivered, batch, current, deadLetters, unburied>>

Ack(e) ==
  message' = [message EXCEPT ![e] = IF @ \in {"ready", "held"} THEN "settled" ELSE @]

-----------------------------------------------------------------------------
(* consume *)

\* sub.Fetch, once every message of the last batch has been handled.
Fetch(w) ==
  /\ batch[w] = {} /\ current[w] = None
  /\ \E S \in SUBSET {e \in Events : message[e] = "ready"} :
       /\ Cardinality(S) \in 1..FetchSize
       /\ message' = [e \in Events |-> IF e \in S THEN "held" ELSE message[e]]
       /\ delivered' = [e \in Events |->
                          IF e \in S THEN delivered[e] + 1 ELSE delivered[e]]
       /\ batch' = [batch EXCEPT ![w] =
                      {[event |-> e, number |-> delivered[e] + 1] : e \in S}]
  /\ UNCHANGED <<current, deadLetters, unburied>>

\* The next message of the batch goes to the handler.
Take(w, m) ==
  /\ current[w] = None
  /\ m \in batch[w]
  /\ batch' = [batch EXCEPT ![w] = @ \ {m}]
  /\ current' = [current EXCEPT ![w] = m]
  /\ UNCHANGED <<message, delivered, deadLetters, unburied>>

Release(w) == current' = [current EXCEPT ![w] = None]

\* The handler returned nil.
Succeed(w) ==
  /\ Ack(current[w].event)
  /\ Release(w)
  /\ UNCHANGED <<delivered, batch, deadLetters, unburied>>

\* shouldDeadLetter.
LastDelivery(w) == current[w].number >= MaxDeliver

\* Mutant: the last delivery that fails is acknowledged only.
FailAndForget(w) ==
  /\ IF LastDelivery(w) THEN Ack(current[w].event) ELSE Redeliver(current[w].event)
  /\ Release(w)
  /\ UNCHANGED <<delivered, batch, deadLetters, unburied>>

\* The handler returned an error: Nak, or after the last delivery a dead letter
\* and an Ack, also when the dead letter could not be published.
Fail(w) ==
  LET e == current[w].event IN
  /\ \/ /\ LastDelivery(w)
        /\ Ack(e)
        /\ \/ deadLetters' = deadLetters \cup {e} /\ UNCHANGED unburied
           \/ unburied' = unburied \cup {e} /\ UNCHANGED deadLetters
     \/ /\ ~LastDelivery(w)
        /\ Redeliver(e)
        /\ UNCHANGED <<deadLetters, unburied>>
  /\ Release(w)
  /\ UNCHANGED <<delivered, batch>>

\* A process stops; JetStream knows nothing of it.
Lose(w) ==
  /\ batch' = [batch EXCEPT ![w] = {}]
  /\ current' = [current EXCEPT ![w] = None]
  /\ UNCHANGED <<message, delivered, deadLetters, unburied>>

-----------------------------------------------------------------------------
(* What an event sees of the durable: see EventLife. *)

Stage ==
  [e \in Events |-> IF message[e] \in {"ready", "held"} THEN "open" ELSE message[e]]

\* Events whose handler failed for good, whether or not the dead letter was stored.
Buried == deadLetters \cup unburied

-----------------------------------------------------------------------------
(* What JetStream's counts rest on, for the proofs. *)

\* A message that waits has a delivery left, and one that is not stored has had none.
DeliveriesLeft ==
  \A e \in Events :
    /\ message[e] = "none" => delivered[e] = 0
    /\ message[e] = "ready" => delivered[e] < MaxDeliver

\* What a worker has fetched, or handles, was published.
FetchedArePublished ==
  \A w \in Workers :
    /\ \A m \in batch[w] : message[m.event] # "none"
    /\ current[w] # None => message[current[w].event] # "none"
=============================================================================
