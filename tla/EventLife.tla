------------------------------ MODULE EventLife ------------------------------
(***************************************************************************)
(* What a durable promises of an event: it is published once, and stays    *)
(* open until it is settled, which it is only when it was served or        *)
(* buried, or exhausted, when its last delivery is not answered.  A closed *)
(* event is never opened again, and nothing happens for one that was not   *)
(* published.  It may be served more than once, also after it is closed.   *)
(*                                                                         *)
(* EventDelivery and MediaImages implement it.                             *)
(***************************************************************************)
CONSTANT Events

VARIABLES
  stage,    \* none, open, settled or exhausted
  served,   \* events whose work has been done in full
  buried    \* events whose handler failed for good

\* An event can ask for nothing.
Init ==
  /\ stage = [e \in Events |-> "none"]
  /\ served \in SUBSET Events
  /\ buried = {}

Publish(e) ==
  /\ stage[e] = "none"
  /\ stage' = [stage EXCEPT ![e] = "open"]
  /\ UNCHANGED <<served, buried>>

Settle(e) ==
  /\ stage[e] = "open"
  /\ e \in served' \cup buried'
  /\ stage' = [stage EXCEPT ![e] = "settled"]

Exhaust(e) == stage[e] = "open" /\ stage' = [stage EXCEPT ![e] = "exhausted"]

\* A handler, or the server, comes to an event.
Handle(e) ==
  /\ stage[e] # "none"
  /\ served' \in {served, served \cup {e}}
  /\ buried' \in {buried, buried \cup {e}}
  /\ Settle(e) \/ Exhaust(e) \/ UNCHANGED stage

Next == \E e \in Events : Publish(e) \/ Handle(e)

Spec == Init /\ [][Next]_<<stage, served, buried>>
=============================================================================
