----------------------------- MODULE WebhookInbox -----------------------------
(***************************************************************************)
(* POST /api/webhooks/stripe: how one event becomes one call of its        *)
(* handler (controllers/v1/stripeWebhook.controller.js,                    *)
(* adapters/webhooks/stripeWebhook.adapter.js and                          *)
(* repositories/webhook_event_log.repository.js).                          *)
(*                                                                         *)
(* A delivery looks the event up in webhook_event_logs, inserts its row,   *)
(* runs the handler and marks the row, each an autocommit statement or a   *)
(* transaction of its own, with awaits between.  Stripe sends an event     *)
(* until it is answered with 200, also while a delivery of it is at work.  *)
(*                                                                         *)
(* What a handler does to bookings and transactions is BookingPayment;     *)
(* here it counts as applied, once its transaction is committed.           *)
(***************************************************************************)
EXTENDS Integers, FiniteSets

CONSTANTS
  Events,       \* ids of the events Stripe has for this server
  Deliveries,   \* deliveries the server works on at the same time
  MaxFaults,    \* bound: errors, stops and deliveries of an answered event
  NoEvent       \* null

ASSUME InboxAssumption ==
  /\ MaxFaults \in Nat
  /\ IsFiniteSet(Deliveries)
  /\ NoEvent \notin Events

VARIABLES
  log,        \* webhook_event_logs.status, "none" while there is no row
  applied,    \* how often the handler of an event did its work
  answered,   \* events answered with 200
  at,         \* what each delivery has done
  event,      \* the event it is about
  faults,     \* faults so far
  unguarded   \* history: events whose check or whose row failed

vars == <<log, applied, answered, at, event, faults, unguarded>>

LogStatus == {"none", "processing", "processed", "failed"}
Stages == {"idle", "checked", "logged", "applied"}

TypeOK ==
  /\ log \in [Events -> LogStatus]
  /\ applied \in [Events -> Nat]
  /\ answered \subseteq Events
  /\ at \in [Deliveries -> Stages]
  /\ event \in [Deliveries -> Events \cup {NoEvent}]
  /\ faults \in 0..MaxFaults
  /\ unguarded \subseteq Events

Init ==
  /\ log = [e \in Events |-> "none"]
  /\ applied = [e \in Events |-> 0]
  /\ answered = {}
  /\ at = [d \in Deliveries |-> "idle"]
  /\ event = [d \in Deliveries |-> NoEvent]
  /\ faults = 0
  /\ unguarded = {}

Goes(d, stage, e) ==
  /\ at' = [at EXCEPT ![d] = stage]
  /\ event' = [event EXCEPT ![d] = e]

Fault == faults < MaxFaults /\ faults' = faults + 1

\* Stripe sends what is not answered, and now and then what is.
Sent(e) == (e \notin answered /\ UNCHANGED faults) \/ Fault

-----------------------------------------------------------------------------
\* Mutant: an event that failed is let in again.
PassUnlessProcessed(d, e) ==
  /\ at[d] = "idle" /\ Sent(e)
  /\ log[e] # "processed"
  /\ Goes(d, "checked", e)
  /\ UNCHANGED <<log, applied, answered, unguarded>>

\* isDuplicate: no row of the event yet.
PassCheck(d, e) ==
  /\ at[d] = "idle" /\ Sent(e)
  /\ log[e] = "none"
  /\ Goes(d, "checked", e)
  /\ UNCHANGED <<log, applied, answered, unguarded>>

\* isDuplicate cannot read the table: 'assume not duplicate'.
PassOnError(d, e) ==
  /\ at[d] = "idle" /\ Fault
  /\ Goes(d, "checked", e)
  /\ unguarded' = unguarded \cup {e}
  /\ UNCHANGED <<log, applied, answered>>

\* Mutant: only what was processed is a duplicate, the rest is refused.
AnswerProcessed(e) ==
  /\ Sent(e)
  /\ log[e] = "processed"
  /\ answered' = answered \cup {e}
  /\ UNCHANGED <<log, applied, at, event, unguarded>>

\* There is a row: 200, whatever its status.
AnswerDuplicate(e) ==
  /\ Sent(e)
  /\ log[e] # "none"
  /\ answered' = answered \cup {e}
  /\ UNCHANGED <<log, applied, at, event, unguarded>>

LogAs(d, status) ==
  /\ at[d] = "checked"
  /\ log' = [log EXCEPT ![event[d]] = IF @ = "none" THEN status ELSE @]
  /\ Goes(d, "logged", event[d])
  /\ UNCHANGED <<applied, answered, faults, unguarded>>

\* Mutants: logEvent with its default status; with one the table does not have.
LogAsProcessed(d) == LogAs(d, "processed")
LogAsReceived(d) == LogAs(d, "received")

\* logEvent inserts the row; event_id is unique, and the error of a second
\* insert is swallowed.
LogEvent(d) == LogAs(d, "processing")

\* Any other error of the insert is swallowed too: there is no row.
LogFails(d) ==
  /\ at[d] = "checked" /\ Fault
  /\ Goes(d, "logged", event[d])
  /\ unguarded' = unguarded \cup {event[d]}
  /\ UNCHANGED <<log, applied, answered>>

\* routeWebhookEvent, up to the commit of the handler it calls.
HandleEvent(d) ==
  /\ at[d] = "logged"
  /\ applied' = [applied EXCEPT ![event[d]] = @ + 1]
  /\ Goes(d, "applied", event[d])
  /\ UNCHANGED <<log, answered, faults, unguarded>>

\* updateStatus, which matches nothing without a row, and 200.
FinishEvent(d) ==
  /\ at[d] = "applied"
  /\ log' = [log EXCEPT ![event[d]] = IF @ = "none" THEN @ ELSE "processed"]
  /\ answered' = answered \cup {event[d]}
  /\ Goes(d, "idle", NoEvent)
  /\ UNCHANGED <<applied, faults, unguarded>>

\* An error anywhere on the way, answered with 500, or the server stops.  The
\* row keeps its status: error.eventId is never set.
FailDelivery(d) ==
  /\ at[d] # "idle" /\ Fault
  /\ Goes(d, "idle", NoEvent)
  /\ UNCHANGED <<log, applied, answered, unguarded>>

Next ==
  \/ \E d \in Deliveries :
       \/ \E e \in Events : PassCheck(d, e) \/ PassOnError(d, e)
       \/ LogEvent(d) \/ LogFails(d)
       \/ HandleEvent(d)
       \/ FinishEvent(d)
       \/ FailDelivery(d)
  \/ \E e \in Events : AnswerDuplicate(e)

Spec == Init /\ [][Next]_vars

(***************************************************************************)
(* Stripe retries what the server has not answered, and a delivery that is *)
(* not interrupted runs to its end.                                        *)
(***************************************************************************)
FairSpec ==
  /\ Spec
  /\ \A e \in Events :
       WF_vars(e \notin answered /\ (AnswerDuplicate(e) \/ \E d \in Deliveries : PassCheck(d, e)))
  /\ \A d \in Deliveries : WF_vars(LogEvent(d) \/ HandleEvent(d) \/ FinishEvent(d))

-----------------------------------------------------------------------------
\* A delivery that passed the check may run the handler though another did:
\* an event is applied once for each delivery that was at work before its row
\* was there, and never for a later one, unless the check or the row failed.
AppliedBounded ==
  \A e \in Events \ unguarded : applied[e] <= Cardinality(Deliveries)

\* What Stripe was told is received is applied, or its row still says
\* 'processing': an event that is lost can be found.
ReceivedIsAppliedOrVisible ==
  \A e \in answered : applied[e] > 0 \/ log[e] = "processing"

\* Stripe does not have to send an event for ever.
EveryEventAnswered == \A e \in Events : <>(e \in answered)

(***************************************************************************)
(* Why: the invariant the proofs use.                                      *)
(***************************************************************************)

\* A delivery at work is about an event, and one that ran its handler applied it.
DeliveriesRefer ==
  \A d \in Deliveries :
    /\ event[d] \in Events <=> at[d] # "idle"
    /\ at[d] = "applied" => applied[event[d]] > 0

\* A row is marked processed by a delivery that applied its event.
ProcessedWasApplied ==
  \A e \in Events :
    /\ log[e] = "processed" => applied[e] > 0
    /\ log[e] # "failed"

\* Deliveries that have passed the check of an event and not yet applied it.
AtWork(e) == {d \in Deliveries : at[d] \in {"checked", "logged"} /\ event[d] = e}

\* Nobody applies an event before it has a row; then nobody passes the check
\* any more, and those at work use up the bound one by one.
RowGuards ==
  \A e \in Events \ unguarded :
    /\ log[e] = "none" =>
         applied[e] = 0 /\ \A d \in Deliveries : event[d] = e => at[d] = "checked"
    /\ applied[e] + Cardinality(AtWork(e)) <= Cardinality(Deliveries)

IInv ==
  /\ TypeOK
  /\ DeliveriesRefer
  /\ ProcessedWasApplied
  /\ ReceivedIsAppliedOrVisible
  /\ RowGuards

(***************************************************************************)
(* The comment of isDuplicate: 'Check if event was already processed'.     *)
(* The code does not keep to it: see the run that expects a violation.     *)
(***************************************************************************)

\* An event answered as received has been applied, or is being worked on.
AnsweredIsApplied ==
  \A e \in answered :
    applied[e] > 0 \/ \E d \in Deliveries : at[d] # "idle" /\ event[d] = e
=============================================================================
