-------------------------- MODULE BookingRequests ---------------------------
(***************************************************************************)
(* POST /api/bookings and its Idempotency-Key header                       *)
(* (services/booking.service.js createBookingFromHold,                     *)
(* repositories/idempotency.repository.js), on the connection pool of one  *)
(* server process (config/database.config.js).                             *)
(*                                                                         *)
(* A key is looked up, its row is inserted and, after an error, marked     *)
(* failed by statements of their own; only markCompleted is part of the    *)
(* transaction that makes the booking.  That transaction keeps a pooled    *)
(* connection from its start to its end, and pricingService.quote and      *)
(* releaseHold read on a second one meanwhile.                             *)
(*                                                                         *)
(* What the transaction does to holds and inventory is RoomCheckout; here  *)
(* its checks pass or fail.  A key stands for a user and the key he sent,  *)
(* the pair the unique index is on; a booking is named by the request that *)
(* made it.                                                                *)
(***************************************************************************)
EXTENDS Integers, FiniteSets

CONSTANTS
  Requests,    \* POST /api/bookings requests, retries among them
  Keys,        \* user_id and Idempotency-Key
  Bodies,      \* request bodies that differ in their hash
  PoolSize,    \* pool.max
  MaxBusy,     \* bound: connections that other work of the server has
  MaxFaults,   \* bound: server stops and lost database answers
  None         \* null

ASSUME RequestsAssumption ==
  /\ IsFiniteSet(Requests)
  /\ PoolSize \in Nat \ {0}
  /\ MaxBusy \in Nat
  /\ MaxFaults \in Nat
  /\ None \notin Requests /\ None \notin Keys /\ None \notin Bodies

VARIABLES
  pc,        \* where createBookingFromHold is with a request
  key,       \* the key a request was sent with
  body,      \* the body it was sent with
  answer,    \* what the client was told
  record,    \* the idempotency_keys rows
  booked,    \* requests whose booking is committed
  busy,      \* pooled connections that other work has
  faults,
  unsure,    \* history: keys whose COMMIT was applied but reported as an error
  stranded   \* history: keys whose request ended without saying so in the row

vars == <<pc, key, body, answer, record, booked, busy, faults, unsure, stranded>>

PC == {"idle", "lookup", "insert", "begin", "quote", "write", "undo", "done"}

Answers == [kind: {"none", "in_progress", "reused", "error"}, booking: {None}]
             \cup [kind: {"booked", "replayed"}, booking: Requests]

Records == [status: {"none", "processing", "completed", "failed"},
            hash: Bodies \cup {None}, booking: Requests \cup {None}]

NoRecord == [status |-> "none", hash |-> None, booking |-> None]

TypeOK ==
  /\ pc \in [Requests -> PC]
  /\ key \in [Requests -> Keys \cup {None}]
  /\ body \in [Requests -> Bodies \cup {None}]
  /\ answer \in [Requests -> Answers]
  /\ record \in [Keys -> Records]
  /\ booked \subseteq Requests
  /\ busy \in 0..MaxBusy
  /\ faults \in 0..MaxFaults
  /\ unsure \subseteq Keys
  /\ stranded \subseteq Keys

Init ==
  /\ pc = [r \in Requests |-> "idle"]
  /\ key = [r \in Requests |-> None]
  /\ body = [r \in Requests |-> None]
  /\ answer = [r \in Requests |-> [kind |-> "none", booking |-> None]]
  /\ record = [k \in Keys |-> NoRecord]
  /\ booked = {}
  /\ busy = 0
  /\ faults = 0
  /\ unsure = {}
  /\ stranded = {}

-----------------------------------------------------------------------------
(* The connection pool *)

\* A transaction keeps its connection until it commits or rolls back; every
\* other statement takes one and gives it back at once.
InTransaction == {r \in Requests : pc[r] \in {"quote", "write"}}

ConnectionFree == Cardinality(InTransaction) + busy < PoolSize

\* Holds, payments and everything else the server does take connections from the
\* same pool and give them back.
OthersUse ==
  /\ \/ ConnectionFree /\ busy < MaxBusy /\ busy' = busy + 1
     \/ busy > 0 /\ busy' = busy - 1
  /\ UNCHANGED <<pc, key, body, answer, record, booked, faults, unsure, stranded>>

Goto(r, step) == pc' = [pc EXCEPT ![r] = step]

Tell(r, kind, booking) ==
  /\ Goto(r, "done")
  /\ answer' = [answer EXCEPT ![r] = [kind |-> kind, booking |-> booking]]

Fault == faults < MaxFaults /\ faults' = faults + 1

\* Mutant: a pool without pool.acquire: a request waits as long as it takes.
WaitForConnection(r) == FALSE /\ UNCHANGED vars

\* The pool gives up after pool.acquire milliseconds without a connection.
\* Before the row exists the error leaves createBookingFromHold; in its try
\* block it leads to markFailed, whose own error is swallowed.
AcquireTimeout(r) ==
  /\ ~ConnectionFree
  /\ \/ /\ pc[r] \in {"lookup", "insert"}
        /\ Tell(r, "error", None)
        /\ UNCHANGED stranded
     \/ /\ pc[r] \in {"begin", "quote"}
        /\ Goto(r, "undo")
        /\ UNCHANGED <<answer, stranded>>
     \/ /\ pc[r] = "undo"
        /\ Tell(r, "error", None)
        /\ stranded' = stranded \cup {key[r]}
  /\ UNCHANGED <<busy, key, body, record, booked, faults, unsure>>

-----------------------------------------------------------------------------
(* createBookingFromHold *)

Send(r) ==
  /\ pc[r] = "idle"
  /\ \E k \in Keys, b \in Bodies :
       /\ key' = [key EXCEPT ![r] = k]
       /\ body' = [body EXCEPT ![r] = b]
  /\ Goto(r, "lookup")
  /\ UNCHANGED <<busy, answer, record, booked, faults, unsure, stranded>>

\* Mutant: the hash of the stored request is not compared.
AnswerFromAnyRecord(r) ==
  IF record[key[r]].status = "completed"
  THEN Tell(r, "replayed", record[key[r]].booking)
  ELSE Tell(r, "in_progress", None)

\* Mutant: the stored answer is sent whatever the status of the row.
AnswerBeforeBooked(r) == Tell(r, "replayed", record[key[r]].booking)

\* The row of a key answers every later request with that key: with the booking
\* it made, with a conflict if the body differs, and with 409 otherwise, a row
\* marked failed included.
AnswerFromRecord(r) ==
  LET known == record[key[r]] IN
  \/ known.hash # body[r] /\ Tell(r, "reused", None)
  \/ /\ known.hash = body[r]
     /\ known.status = "completed"
     /\ Tell(r, "replayed", known.booking)
  \/ /\ known.hash = body[r]
     /\ known.status # "completed"
     /\ Tell(r, "in_progress", None)

\* findByUserAndKey, a read without a lock.
Lookup(r) ==
  /\ pc[r] = "lookup"
  /\ ConnectionFree
  /\ \/ record[key[r]] = NoRecord /\ Goto(r, "insert") /\ UNCHANGED answer
     \/ record[key[r]] # NoRecord /\ AnswerFromRecord(r)
  /\ UNCHANGED <<busy, key, body, record, booked, faults, unsure, stranded>>

\* Mutant: a table without the unique index on the user and the key.
InsertAnyway(r) ==
  /\ pc[r] = "insert"
  /\ ConnectionFree
  /\ record' = [record EXCEPT ![key[r]] =
                  [status |-> "processing", hash |-> body[r], booking |-> None]]
  /\ Goto(r, "begin")
  /\ UNCHANGED <<busy, key, body, answer, booked, faults, unsure, stranded>>

\* idempotencyRepository.create: the unique index lets the first of two inserts
\* pass, and the second one's error leaves the function before its try block.
InsertRecord(r) ==
  /\ pc[r] = "insert"
  /\ ConnectionFree
  /\ \/ /\ record[key[r]] = NoRecord
        /\ record' = [record EXCEPT ![key[r]] =
                        [status |-> "processing", hash |-> body[r], booking |-> None]]
        /\ Goto(r, "begin")
        /\ UNCHANGED answer
     \/ /\ record[key[r]] # NoRecord
        /\ Tell(r, "error", None)
        /\ UNCHANGED record
  /\ UNCHANGED <<busy, key, body, booked, faults, unsure, stranded>>

\* The connection breaks after MySQL has applied the INSERT: its row stays, and the
\* error leaves the function before its try block.
InsertUnheard(r) ==
  /\ pc[r] = "insert" /\ ConnectionFree
  /\ record[key[r]] = NoRecord
  /\ Fault
  /\ record' = [record EXCEPT ![key[r]] =
                  [status |-> "processing", hash |-> body[r], booking |-> None]]
  /\ Tell(r, "error", None)
  /\ stranded' = stranded \cup {key[r]}
  /\ UNCHANGED <<busy, key, body, booked, unsure>>

\* The transaction takes its connection and reads the hold on it; a hold that is
\* missing, foreign, inactive or expired ends it.
BeginTransaction(r) ==
  /\ pc[r] = "begin"
  /\ ConnectionFree
  /\ Goto(r, "quote") \/ Goto(r, "undo")
  /\ UNCHANGED <<busy, key, body, answer, record, booked, faults, unsure, stranded>>

\* The reads made outside the transaction while it is open: the quote, the
\* cancellation rules and releaseHold's own read of the hold.  There may be no
\* price for a night, and the hold may no longer be active.
ReadOnSecondConnection(r) ==
  /\ pc[r] = "quote"
  /\ ConnectionFree
  /\ Goto(r, "write") \/ Goto(r, "undo")
  /\ UNCHANGED <<busy, key, body, answer, record, booked, faults, unsure, stranded>>

\* A statement fails (a deadlock, a lock wait): the transaction is rolled back.
Rollback(r) ==
  /\ pc[r] = "write"
  /\ Goto(r, "undo")
  /\ UNCHANGED <<busy, key, body, answer, record, booked, faults, unsure, stranded>>

\* Mutant: markCompleted is left to a statement after the transaction, which
\* fails.
BookWithoutRecord(r) ==
  /\ booked' = booked \cup {r}
  /\ UNCHANGED record

\* The booking, its rooms, its transaction row and markCompleted commit together.
BookAndComplete(r) ==
  /\ booked' = booked \cup {r}
  /\ record' = [record EXCEPT ![key[r]].status = "completed",
                              ![key[r]].booking = r]

Commit(r) ==
  /\ pc[r] = "write"
  /\ BookAndComplete(r)
  /\ Tell(r, "booked", r)
  /\ UNCHANGED <<busy, key, body, faults, unsure, stranded>>

\* The connection breaks after MySQL has applied the COMMIT: commit() throws.
CommitUnheard(r) ==
  /\ pc[r] = "write"
  /\ Fault
  /\ BookAndComplete(r)
  /\ Goto(r, "undo")
  /\ unsure' = unsure \cup {key[r]}
  /\ UNCHANGED <<busy, key, body, answer, stranded>>

\* The catch block: markFailed by the id of the row, then the error goes on.
MarkFailed(r) ==
  /\ pc[r] = "undo"
  /\ ConnectionFree
  /\ record' = [record EXCEPT ![key[r]].status = "failed"]
  /\ Tell(r, "error", None)
  /\ UNCHANGED <<busy, key, body, booked, faults, unsure, stranded>>

\* markFailed fails and its error is swallowed.
MarkFailedLost(r) ==
  /\ pc[r] = "undo"
  /\ Fault
  /\ Tell(r, "error", None)
  /\ stranded' = stranded \cup {key[r]}
  /\ UNCHANGED <<busy, key, body, record, booked, unsure>>

\* The server stops: open transactions roll back and nobody is answered.
Working(r) == pc[r] \in {"begin", "quote", "write", "undo"}

Stop ==
  /\ Fault
  /\ \E r \in Requests : pc[r] \notin {"idle", "done"}
  /\ pc' = [r \in Requests |-> IF pc[r] = "idle" THEN "idle" ELSE "done"]
  /\ stranded' = stranded \cup {key[r] : r \in {q \in Requests : Working(q)}}
  /\ UNCHANGED <<busy, key, body, answer, record, booked, unsure>>

Serve(r) ==
  \/ Lookup(r) \/ InsertRecord(r) \/ InsertUnheard(r) \/ BeginTransaction(r)
  \/ ReadOnSecondConnection(r) \/ Rollback(r) \/ Commit(r) \/ CommitUnheard(r)
  \/ MarkFailed(r) \/ MarkFailedLost(r) \/ AcquireTimeout(r)

Next == (\E r \in Requests : Send(r) \/ Serve(r)) \/ Stop \/ OthersUse

Spec == Init /\ [][Next]_vars

\* The event loop goes on with every request, and a pool that has no connection
\* to give times out.
FairSpec == Spec /\ \A r \in Requests : WF_vars(Serve(r))

-----------------------------------------------------------------------------
(* Properties *)

Sent(r) == pc[r] # "idle"

\* A key makes at most one booking, however many requests carry it, whichever of
\* them pass the lookup together, and whatever is lost in between: what the
\* unique index is for.
OneBookingPerKey ==
  \A r, q \in booked : key[r] = key[q] => r = q

\* The row of a key and the bookings agree: completed names a committed booking;
\* a committed booking has a completed row, unless its COMMIT was reported as an
\* error; and a row stays processing only while a request works on it, unless
\* that request could not say how it ended.
KeyTellsOutcome ==
  \A k \in Keys :
    /\ record[k].status = "completed" =>
         record[k].booking \in booked /\ key[record[k].booking] = k
    /\ \A r \in booked : key[r] = k /\ k \notin unsure => record[k].status = "completed"
    /\ record[k].status = "processing" /\ k \notin stranded =>
         \E r \in Requests : Working(r) /\ key[r] = k

\* Whoever is told of a booking is told of the one his key made, and had asked
\* for the same thing as the request that made it.
AnsweredWithOwnBooking ==
  \A r \in Requests : answer[r].kind \in {"booked", "replayed"} =>
    /\ answer[r].booking \in booked
    /\ key[answer[r].booking] = key[r]
    /\ body[answer[r].booking] = body[r]

\* No request waits for ever: conversions that hold every pooled connection and
\* each wait for a second one are broken up by the acquire timeout.
EveryRequestEnds ==
  \A r \in Requests : Sent(r) ~> pc[r] = "done"

-----------------------------------------------------------------------------
(* Why it holds: the invariant the proofs use. *)

SentHasKey == \A r \in Requests : Sent(r) => key[r] \in Keys /\ body[r] \in Bodies

OnlySentIsAnswered == \A r \in Requests : ~Sent(r) => answer[r].kind = "none"

\* One request works on the row of a key, which is its own until it has booked.
WorkingOwnsRow ==
  \A r \in Requests : Working(r) =>
    /\ record[key[r]].hash = body[r]
    /\ record[key[r]].status \in {"processing", "completed"}
    /\ pc[r] # "undo" => r \notin booked /\ record[key[r]].status = "processing"
    /\ \A q \in Requests : Working(q) /\ key[q] = key[r] => q = r

\* The row of a booking's key names it for good, and nobody else works on the row.
BookingOwnsRow ==
  \A r \in booked :
    /\ pc[r] \in {"undo", "done"}
    /\ record[key[r]].booking = r
    /\ record[key[r]].hash = body[r]
    /\ record[key[r]].status \in {"completed", "failed"}
    /\ pc[r] = "undo" => key[r] \in unsure
    /\ \A q \in Requests : Working(q) /\ key[q] = key[r] => q = r

IInv ==
  /\ TypeOK
  /\ SentHasKey
  /\ OnlySentIsAnswered
  /\ WorkingOwnsRow
  /\ BookingOwnsRow
  /\ KeyTellsOutcome
  /\ AnsweredWithOwnBooking
=============================================================================
