------------------------ MODULE BookingRequestsProofs ------------------------
(***************************************************************************)
(* Proofs about BookingRequests and CheckoutPage: a key makes one booking  *)
(* and its row tells the outcome, and the visits of a page make one        *)
(* booking of a hold, for any number of requests, keys and faults and any  *)
(* size of the pool.                                                       *)
(***************************************************************************)
EXTENDS CheckoutPage, TLAPS

-----------------------------------------------------------------------------
(* The invariant holds before the first request.                           *)

LEMMA InitIInv == Init => IInv
<1> SUFFICES ASSUME Init PROVE IInv
  OBVIOUS
<1>1. TypeOK
  BY RequestsAssumption DEF Init, TypeOK, PC, Answers, Records, NoRecord
<1>2. SentHasKey /\ WorkingOwnsRow /\ BookingOwnsRow
  BY DEF Init, SentHasKey, Sent, WorkingOwnsRow, Working, BookingOwnsRow
<1>3. KeyTellsOutcome /\ AnsweredWithOwnBooking
  BY DEF Init, NoRecord, KeyTellsOutcome, AnsweredWithOwnBooking
<1>4. OnlySentIsAnswered
  BY DEF Init, OnlySentIsAnswered
<1> QED
  BY <1>1, <1>2, <1>3, <1>4 DEF IInv

-----------------------------------------------------------------------------
(* Rows.                                                                   *)

\* What a statement on the row of a working request leaves in the table.
LEMMA RowWritten ==
  ASSUME TypeOK, SentHasKey, NEW r \in Requests, Working(r), BookAndComplete(r)
  PROVE  /\ record' \in [Keys -> Records]
         /\ booked' = booked \cup {r}
         /\ record'[key[r]].status = "completed"
         /\ record'[key[r]].booking = r
         /\ record'[key[r]].hash = record[key[r]].hash
         /\ \A k \in Keys \ {key[r]} : record'[k] = record[k]
<1>1. key[r] \in Keys
  BY DEF SentHasKey, Sent, Working
<1>2. record[key[r]] \in Records
  BY <1>1 DEF TypeOK
<1> QED
  BY <1>1, <1>2 DEF TypeOK, BookAndComplete, Records

\* What markFailed leaves in the table.
LEMMA RowFailed ==
  ASSUME TypeOK, SentHasKey, NEW r \in Requests, Working(r), MarkFailed(r)
  PROVE  /\ record' \in [Keys -> Records]
         /\ record'[key[r]].status = "failed"
         /\ record'[key[r]].booking = record[key[r]].booking
         /\ record'[key[r]].hash = record[key[r]].hash
         /\ \A k \in Keys \ {key[r]} : record'[k] = record[k]
<1>1. key[r] \in Keys
  BY DEF SentHasKey, Sent, Working
<1>2. record[key[r]] \in Records
  BY <1>1 DEF TypeOK
<1> QED
  BY <1>1, <1>2 DEF TypeOK, MarkFailed, Records

\* The inserted row.
LEMMA RowInserted ==
  ASSUME TypeOK, SentHasKey, NEW r \in Requests, pc[r] = "insert",
         record' = [record EXCEPT ![key[r]] =
                      [status |-> "processing", hash |-> body[r], booking |-> None]]
  PROVE  /\ record' \in [Keys -> Records]
         /\ record'[key[r]].status = "processing"
         /\ record'[key[r]].booking = None
         /\ record'[key[r]].hash = body[r]
         /\ \A k \in Keys \ {key[r]} : record'[k] = record[k]
<1>1. key[r] \in Keys /\ body[r] \in Bodies
  BY DEF SentHasKey, Sent
<1> QED
  BY <1>1 DEF TypeOK, Records

-----------------------------------------------------------------------------
(* Types.                                                                  *)

LEMMA NextTypeOK == IInv /\ [Next]_vars => TypeOK'
<1> SUFFICES ASSUME IInv, [Next]_vars PROVE TypeOK'
  OBVIOUS
<1>0. TypeOK /\ SentHasKey
  BY DEF IInv
<1> USE RequestsAssumption
<1>1. ASSUME NEW r \in Requests, Send(r) PROVE TypeOK'
  BY <1>0, <1>1 DEF TypeOK, Send, Goto, PC
<1>2. ASSUME NEW r \in Requests, Lookup(r) PROVE TypeOK'
  <2>1. key[r] \in Keys /\ record[key[r]] \in Records
    BY <1>0, <1>2 DEF Lookup, SentHasKey, Sent, TypeOK
  <2>2. CASE Goto(r, "insert") /\ UNCHANGED answer
    BY <1>0, <1>2, <2>2 DEF TypeOK, Lookup, Goto, PC
  <2>3. CASE AnswerFromRecord(r)
    <3>1. record[key[r]].status = "completed" => record[key[r]].booking \in Requests
      BY <2>1 DEF IInv, KeyTellsOutcome, TypeOK
    <3>2. PICK a \in Answers : Goto(r, "done") /\ answer' = [answer EXCEPT ![r] = a]
      BY <2>3, <3>1 DEF AnswerFromRecord, Tell, Answers
    <3> QED
      BY <1>0, <1>2, <3>2 DEF TypeOK, Lookup, Goto, PC
  <2> QED
    BY <1>2, <2>2, <2>3 DEF Lookup
<1>3. ASSUME NEW r \in Requests, InsertRecord(r) PROVE TypeOK'
  <2>1. record' \in [Keys -> Records]
    BY <1>0, <1>3, RowInserted DEF InsertRecord, TypeOK
  <2> QED
    BY <1>0, <1>3, <2>1 DEF TypeOK, InsertRecord, Goto, Tell, PC, Answers
<1>4. ASSUME NEW r \in Requests,
             BeginTransaction(r) \/ ReadOnSecondConnection(r) \/ Rollback(r)
      PROVE  TypeOK'
  BY <1>0, <1>4
  DEF TypeOK, BeginTransaction, ReadOnSecondConnection, Rollback, Goto, PC
<1>5. ASSUME NEW r \in Requests, Commit(r) \/ CommitUnheard(r) PROVE TypeOK'
  <2>1. Working(r) /\ BookAndComplete(r) /\ key[r] \in Keys
    BY <1>0, <1>5 DEF Commit, CommitUnheard, Working, SentHasKey, Sent
  <2>2. record' \in [Keys -> Records] /\ booked' \subseteq Requests
    BY <1>0, <2>1, RowWritten DEF TypeOK
  <2> QED
    BY <1>0, <1>5, <2>1, <2>2
    DEF TypeOK, Commit, CommitUnheard, Goto, Tell, PC, Answers, Fault
<1>6. ASSUME NEW r \in Requests, MarkFailed(r) PROVE TypeOK'
  <2>1. record' \in [Keys -> Records]
    BY <1>0, <1>6, RowFailed DEF MarkFailed, Working
  <2> QED
    BY <1>0, <1>6, <2>1 DEF TypeOK, MarkFailed, Goto, Tell, PC, Answers
<1>7. ASSUME NEW r \in Requests, MarkFailedLost(r) \/ AcquireTimeout(r) PROVE TypeOK'
  <2>1. pc[r] = "undo" => key[r] \in Keys
    BY <1>0 DEF SentHasKey, Sent
  <2> QED
    BY <1>0, <1>7, <2>1
    DEF TypeOK, MarkFailedLost, AcquireTimeout, Goto, Tell, PC, Answers, Fault
<1>8. CASE Stop
  <2>1. \A q \in Requests : Working(q) => key[q] \in Keys
    BY <1>0 DEF SentHasKey, Sent, Working
  <2> QED
    BY <1>0, <1>8, <2>1 DEF TypeOK, Stop, PC, Fault
<1>9. CASE UNCHANGED vars
  BY <1>0, <1>9 DEF TypeOK, vars
<1>10. CASE OthersUse
  BY <1>0, <1>10 DEF TypeOK, OthersUse
<1>11. ASSUME NEW r \in Requests, InsertUnheard(r) PROVE TypeOK'
  <2>1. record' \in [Keys -> Records] /\ key[r] \in Keys
    BY <1>0, <1>11, RowInserted DEF InsertUnheard, SentHasKey, Sent
  <2> QED
    BY <1>0, <1>11, <2>1 DEF TypeOK, InsertUnheard, Goto, Tell, PC, Answers, Fault
<1> QED
  BY <1>1, <1>2, <1>3, <1>4, <1>5, <1>6, <1>7, <1>8, <1>9, <1>10, <1>11 DEF Next, Serve

-----------------------------------------------------------------------------
(* Who owns a row.                                                         *)

LEMMA NextOwns ==
  IInv /\ [Next]_vars => (SentHasKey /\ WorkingOwnsRow /\ BookingOwnsRow)'
<1> DEFINE Goal == (SentHasKey /\ WorkingOwnsRow /\ BookingOwnsRow)'
<1> SUFFICES ASSUME TypeOK, SentHasKey, WorkingOwnsRow, BookingOwnsRow, KeyTellsOutcome,
                    [Next]_vars
             PROVE  Goal
  BY DEF IInv
<1>0. /\ pc \in [Requests -> PC]
      /\ key \in [Requests -> Keys \cup {None}] /\ body \in [Requests -> Bodies \cup {None}]
      /\ record \in [Keys -> Records]
      /\ booked \subseteq Requests
  BY DEF TypeOK
<1> USE <1>0
    DEF SentHasKey, Sent, WorkingOwnsRow, Working, BookingOwnsRow
<1>1. ASSUME NEW r \in Requests, Send(r) PROVE Goal
  BY <1>1 DEF Send, Goto
<1>2. ASSUME NEW r \in Requests, Lookup(r) PROVE Goal
  BY <1>2 DEF Lookup, AnswerFromRecord, Goto, Tell
<1>3. ASSUME NEW r \in Requests, InsertRecord(r) PROVE Goal
  <2>1. CASE Tell(r, "error", None) /\ UNCHANGED record
    BY <1>3, <2>1 DEF InsertRecord, Tell, Goto
  <2>2. CASE /\ record[key[r]] = NoRecord
             /\ record' = [record EXCEPT ![key[r]] =
                  [status |-> "processing", hash |-> body[r], booking |-> None]]
             /\ Goto(r, "begin")
    <3>1. /\ record'[key[r]].status = "processing"
          /\ record'[key[r]].hash = body[r]
          /\ \A k \in Keys \ {key[r]} : record'[k] = record[k]
      BY <1>3, <2>2, RowInserted DEF InsertRecord
    <3>2. \A q \in Requests : Working(q) \/ q \in booked => key[q] # key[r]
      BY <2>2 DEF NoRecord
    <3>3. pc[r] = "insert" /\ UNCHANGED <<key, body, booked, unsure>>
      BY <1>3 DEF InsertRecord
    <3> QED
      BY <2>2, <3>1, <3>2, <3>3 DEF Goto
  <2> QED
    BY <1>3, <2>1, <2>2 DEF InsertRecord
<1>4. ASSUME NEW r \in Requests,
             BeginTransaction(r) \/ ReadOnSecondConnection(r) \/ Rollback(r)
      PROVE  Goal
  BY <1>4 DEF BeginTransaction, ReadOnSecondConnection, Rollback, Goto
<1>5. ASSUME NEW r \in Requests, Commit(r) \/ CommitUnheard(r) PROVE Goal
  <2>1. /\ booked' = booked \cup {r}
        /\ record'[key[r]].status = "completed"
        /\ record'[key[r]].booking = r
        /\ record'[key[r]].hash = record[key[r]].hash
        /\ \A k \in Keys \ {key[r]} : record'[k] = record[k]
    BY <1>5, RowWritten DEF Commit, CommitUnheard
  <2>2. pc[r] = "write" /\ UNCHANGED <<key, body>>
    BY <1>5 DEF Commit, CommitUnheard
  <2>3. \/ pc' = [pc EXCEPT ![r] = "done"] /\ unsure' = unsure
        \/ pc' = [pc EXCEPT ![r] = "undo"] /\ unsure' = unsure \cup {key[r]}
    BY <1>5 DEF Commit, CommitUnheard, Tell, Goto
  <2>4. \A q \in Requests \ {r} : Working(q) \/ q \in booked => key[q] # key[r]
    BY <2>2
  <2> QED
    BY <2>1, <2>2, <2>3, <2>4
<1>6. ASSUME NEW r \in Requests, MarkFailed(r) PROVE Goal
  <2>1. /\ record'[key[r]].status = "failed"
        /\ record'[key[r]].booking = record[key[r]].booking
        /\ record'[key[r]].hash = record[key[r]].hash
        /\ \A k \in Keys \ {key[r]} : record'[k] = record[k]
    BY <1>6, RowFailed DEF MarkFailed
  <2>2. pc[r] = "undo" /\ pc' = [pc EXCEPT ![r] = "done"] /\ UNCHANGED <<key, body, booked, unsure>>
    BY <1>6 DEF MarkFailed, Tell, Goto
  <2>3. \A q \in Requests \ {r} : Working(q) => key[q] # key[r]
    BY <2>2
  <2> QED
    BY <2>1, <2>2, <2>3
<1>7. ASSUME NEW r \in Requests, MarkFailedLost(r) \/ AcquireTimeout(r) PROVE Goal
  BY <1>7 DEF MarkFailedLost, AcquireTimeout, Tell, Goto
<1>8. CASE Stop
  BY <1>8 DEF Stop
<1>9. CASE UNCHANGED vars
  BY <1>9 DEF vars
<1>10. CASE OthersUse
  BY <1>10 DEF OthersUse
<1>11. ASSUME NEW r \in Requests, InsertUnheard(r) PROVE Goal
  <2>1. /\ record'[key[r]].status = "processing"
        /\ record'[key[r]].hash = body[r]
        /\ \A k \in Keys \ {key[r]} : record'[k] = record[k]
    BY <1>11, RowInserted DEF InsertUnheard
  <2>2. \A q \in Requests : Working(q) \/ q \in booked => key[q] # key[r]
    BY <1>11 DEF InsertUnheard, NoRecord
  <2>3. /\ pc[r] = "insert" /\ Tell(r, "error", None)
        /\ UNCHANGED <<key, body, booked, unsure>>
    BY <1>11 DEF InsertUnheard
  <2> QED
    BY <2>1, <2>2, <2>3 DEF Tell, Goto
<1> QED
  BY <1>1, <1>2, <1>3, <1>4, <1>5, <1>6, <1>7, <1>8, <1>9, <1>10, <1>11 DEF Next, Serve

-----------------------------------------------------------------------------
(* What rows and answers tell.                                             *)

LEMMA NextTells ==
  IInv /\ [Next]_vars => (KeyTellsOutcome /\ AnsweredWithOwnBooking /\ OnlySentIsAnswered)'
<1> DEFINE Goal == (KeyTellsOutcome /\ AnsweredWithOwnBooking /\ OnlySentIsAnswered)'
<1> SUFFICES ASSUME TypeOK, SentHasKey, WorkingOwnsRow, BookingOwnsRow, KeyTellsOutcome,
                    AnsweredWithOwnBooking, OnlySentIsAnswered, [Next]_vars
             PROVE  Goal
  BY DEF IInv
<1>0. /\ pc \in [Requests -> PC]
      /\ key \in [Requests -> Keys \cup {None}] /\ body \in [Requests -> Bodies \cup {None}]
      /\ answer \in [Requests -> Answers]
      /\ record \in [Keys -> Records]
      /\ booked \subseteq Requests
  BY DEF TypeOK
<1> USE <1>0
    DEF SentHasKey, Sent, WorkingOwnsRow, Working, BookingOwnsRow, KeyTellsOutcome,
        AnsweredWithOwnBooking, OnlySentIsAnswered
<1>1. ASSUME NEW r \in Requests, Send(r) PROVE Goal
  BY <1>1 DEF Send, Goto
<1>2. ASSUME NEW r \in Requests, Lookup(r) PROVE Goal
  <2>1. pc[r] = "lookup" /\ UNCHANGED <<key, body, record, booked, unsure, stranded>>
    BY <1>2 DEF Lookup
  <2>2. CASE Goto(r, "insert") /\ UNCHANGED answer
    BY <2>1, <2>2 DEF Goto
  <2>3. CASE Tell(r, "reused", None) \/ Tell(r, "in_progress", None)
    BY <2>1, <2>3 DEF Tell, Goto
  <2>4. CASE /\ record[key[r]].hash = body[r]
             /\ record[key[r]].status = "completed"
             /\ Tell(r, "replayed", record[key[r]].booking)
    <3>1. LET b == record[key[r]].booking
          IN  b \in booked /\ key[b] = key[r] /\ body[b] = body[r]
      BY <2>1, <2>4
    <3> QED
      BY <2>1, <2>4, <3>1 DEF Tell, Goto
  <2> QED
    BY <1>2, <2>2, <2>3, <2>4 DEF Lookup, AnswerFromRecord
<1>3. ASSUME NEW r \in Requests, InsertRecord(r) PROVE Goal
  <2>1. CASE Tell(r, "error", None) /\ UNCHANGED record
    BY <1>3, <2>1 DEF InsertRecord, Tell, Goto
  <2>2. CASE /\ record[key[r]] = NoRecord
             /\ record' = [record EXCEPT ![key[r]] =
                  [status |-> "processing", hash |-> body[r], booking |-> None]]
             /\ Goto(r, "begin")
             /\ UNCHANGED answer
    <3>1. /\ record'[key[r]].status = "processing"
          /\ \A k \in Keys \ {key[r]} : record'[k] = record[k]
      BY <1>3, <2>2, RowInserted DEF InsertRecord
    <3>2. \A q \in booked : key[q] # key[r]
      BY <2>2 DEF NoRecord
    <3>3. pc[r] = "insert" /\ UNCHANGED <<key, body, booked, unsure, stranded>>
      BY <1>3 DEF InsertRecord
    <3> QED
      BY <2>2, <3>1, <3>2, <3>3 DEF Goto
  <2> QED
    BY <1>3, <2>1, <2>2 DEF InsertRecord
<1>4. ASSUME NEW r \in Requests,
             BeginTransaction(r) \/ ReadOnSecondConnection(r) \/ Rollback(r)
      PROVE  Goal
  BY <1>4 DEF BeginTransaction, ReadOnSecondConnection, Rollback, Goto
<1>5. ASSUME NEW r \in Requests, Commit(r) \/ CommitUnheard(r) PROVE Goal
  <2>1. /\ booked' = booked \cup {r}
        /\ record'[key[r]].status = "completed"
        /\ record'[key[r]].booking = r
        /\ \A k \in Keys \ {key[r]} : record'[k] = record[k]
    BY <1>5, RowWritten DEF Commit, CommitUnheard
  <2>2. pc[r] = "write" /\ UNCHANGED <<key, body, stranded>>
    BY <1>5 DEF Commit, CommitUnheard
  <2>3. CASE Tell(r, "booked", r) /\ unsure' = unsure
    BY <2>1, <2>2, <2>3 DEF Tell, Goto
  <2>4. CASE Goto(r, "undo") /\ unsure' = unsure \cup {key[r]} /\ UNCHANGED answer
    BY <2>1, <2>2, <2>4 DEF Goto
  <2> QED
    BY <1>5, <2>3, <2>4 DEF Commit, CommitUnheard
<1>6. ASSUME NEW r \in Requests, MarkFailed(r) PROVE Goal
  <2>1. /\ record'[key[r]].status = "failed"
        /\ \A k \in Keys \ {key[r]} : record'[k] = record[k]
    BY <1>6, RowFailed DEF MarkFailed
  <2>2. pc[r] = "undo" /\ UNCHANGED <<key, body, booked, unsure, stranded>>
    BY <1>6 DEF MarkFailed
  <2>3. \A q \in booked : key[q] = key[r] => key[r] \in unsure
    BY <2>2
  <2> QED
    BY <1>6, <2>1, <2>2, <2>3 DEF MarkFailed, Tell, Goto
<1>7. ASSUME NEW r \in Requests, MarkFailedLost(r) \/ AcquireTimeout(r) PROVE Goal
  BY <1>7 DEF MarkFailedLost, AcquireTimeout, Tell, Goto
<1>8. CASE Stop
  BY <1>8 DEF Stop
<1>9. CASE UNCHANGED vars
  BY <1>9 DEF vars
<1>10. CASE OthersUse
  BY <1>10 DEF OthersUse
<1>11. ASSUME NEW r \in Requests, InsertUnheard(r) PROVE Goal
  <2>1. /\ record'[key[r]].status = "processing"
        /\ \A k \in Keys \ {key[r]} : record'[k] = record[k]
    BY <1>11, RowInserted DEF InsertUnheard
  <2>2. \A q \in booked : key[q] # key[r]
    BY <1>11 DEF InsertUnheard, NoRecord
  <2>3. /\ pc[r] = "insert" /\ Tell(r, "error", None)
        /\ UNCHANGED <<key, body, booked, unsure>>
        /\ stranded' = stranded \cup {key[r]}
    BY <1>11 DEF InsertUnheard
  <2> QED
    BY <2>1, <2>2, <2>3 DEF Tell, Goto
<1> QED
  BY <1>1, <1>2, <1>3, <1>4, <1>5, <1>6, <1>7, <1>8, <1>9, <1>10, <1>11 DEF Next, Serve

-----------------------------------------------------------------------------
(* The theorems.                                                           *)

\* The inductive invariant: a row belongs to the request that inserted it, and
\* from the booking on to that booking.
THEOREM SpecIInv == Spec => []IInv
<1>1. IInv /\ [Next]_vars => IInv'
  BY NextTypeOK, NextOwns, NextTells DEF IInv
<1> QED
  BY <1>1, InitIInv, PTL DEF Spec

\* Every reachable state is well typed.
THEOREM TypeCorrect == Spec => []TypeOK
<1>1. IInv => TypeOK
  BY DEF IInv
<1> QED
  BY <1>1, SpecIInv, PTL

\* A key makes at most one booking, however many requests carry it.
THEOREM OneBooking == Spec => []OneBookingPerKey
<1>1. IInv => OneBookingPerKey
  BY DEF IInv, BookingOwnsRow, OneBookingPerKey
<1> QED
  BY <1>1, SpecIInv, PTL

\* The row of a key and the bookings agree, up to lost answers.
THEOREM RowsTell == Spec => []KeyTellsOutcome
<1>1. IInv => KeyTellsOutcome
  BY DEF IInv
<1> QED
  BY <1>1, SpecIInv, PTL

\* Whoever is told of a booking asked for it, or for the same with the same key.
THEOREM AnswersAreOwn == Spec => []AnsweredWithOwnBooking
<1>1. IInv => AnsweredWithOwnBooking
  BY DEF IInv
<1> QED
  BY <1>1, SpecIInv, PTL

-----------------------------------------------------------------------------
(* The page: its steps are steps of the requests.                          *)

LEMMA PageInitIsInit == PageInit => Init
BY DEF PageInit

LEMMA PageNextIsNext == [PageNext]_pageVars => [Next]_vars
<1> SUFFICES ASSUME [PageNext]_pageVars PROVE [Next]_vars
  OBVIOUS
<1>1. ASSUME NEW r \in Requests, SendElsewhere(r) \/ ServeForHold(r) PROVE Next
  BY <1>1 DEF SendElsewhere, ServeForHold, Next
<1>2. ASSUME NEW k \in Keys, PageStep(k) PROVE Next \/ UNCHANGED vars
  <2>1. CASE Submit(k)
    BY <2>1 DEF Submit, Next
  <2>2. CASE ~Submit(k)
    BY <1>2, <2>2
    DEF PageStep, Open, Hear, TimeOut, Depart, Leave, Gone, ReadToRelease, WriteReleased
  <2> QED
    BY <2>1, <2>2
<1>3. ASSUME HoldBecomesDue \/ ExpireHold PROVE UNCHANGED vars
  BY <1>3 DEF HoldBecomesDue, ExpireHold
<1>4. ASSUME StopAll \/ OthersUseConnections PROVE Next
  BY <1>4 DEF StopAll, OthersUseConnections, Next
<1>5. ASSUME UNCHANGED pageVars PROVE UNCHANGED vars
  BY <1>5 DEF pageVars
<1> QED
  BY <1>1, <1>2, <1>3, <1>4, <1>5 DEF PageNext

\* What a step of createBookingFromHold does, as far as the page is concerned.
LEMMA ServeMoves ==
  ASSUME TypeOK, NEW r \in Requests, Serve(r)
  PROVE  /\ UNCHANGED <<key, body>>
         /\ \A q \in Requests \ {r} : pc'[q] = pc[q]
         /\ pc' \in [Requests -> PC] /\ pc[r] # "idle"
         /\ pc'[r] = "write" => pc[r] = "quote"
         /\ InProgress(r)' => InProgress(r)
         /\ \/ booked' = booked
            \/ booked' = booked \cup {r} /\ pc[r] = "write"
<1> USE DEF TypeOK, PC, Goto, Tell, InProgress
<1>1. CASE Lookup(r)
  BY <1>1 DEF Lookup, AnswerFromRecord
<1>2. CASE InsertRecord(r) \/ BeginTransaction(r) \/ ReadOnSecondConnection(r) \/ Rollback(r)
  BY <1>2 DEF InsertRecord, BeginTransaction, ReadOnSecondConnection, Rollback
<1>3. CASE Commit(r) \/ CommitUnheard(r)
  BY <1>3 DEF Commit, CommitUnheard, BookAndComplete
<1>4. CASE InsertUnheard(r) \/ MarkFailed(r) \/ MarkFailedLost(r) \/ AcquireTimeout(r)
  BY <1>4 DEF InsertUnheard, MarkFailed, MarkFailedLost, AcquireTimeout
<1> QED
  BY <1>1, <1>2, <1>3, <1>4 DEF Serve

\* No step of the page moves a key from it to other clients or back.
LEMMA VisitsStay ==
  ASSUME visit \in [Keys -> {"elsewhere", "none", "shown", "leaving", "left"}],
         [PageNext]_pageVars
  PROVE  Visits' = Visits
<1> USE DEF Visits
<1>1. ASSUME NEW k \in Keys, PageStep(k) PROVE Visits' = Visits
  BY <1>1
  DEF PageStep, Open, Submit, Hear, TimeOut, Depart, Leave, Gone, ReadToRelease,
      WriteReleased
<1>2. ASSUME NEW r \in Requests, SendElsewhere(r) \/ ServeForHold(r)
      PROVE  Visits' = Visits
  BY <1>2 DEF SendElsewhere, ServeForHold, pageOnlyVars
<1>3. CASE HoldBecomesDue \/ ExpireHold \/ StopAll \/ OthersUseConnections
  BY <1>3 DEF HoldBecomesDue, ExpireHold, StopAll, OthersUseConnections, pageOnlyVars
<1>4. CASE UNCHANGED pageVars
  BY <1>4 DEF pageVars, pageOnlyVars
<1> QED
  BY <1>1, <1>2, <1>3, <1>4 DEF PageNext

LEMMA PageInitIInv == PageInit => PageIInv
<1> SUFFICES ASSUME PageInit PROVE PageIInv
  OBVIOUS
<1>1. IInv
  BY InitIInv, PageInitIsInit
<1>2. PageTypeOK
  BY <1>1 DEF IInv, PageInit, PageTypeOK
<1>3. OneLiveVisit
  BY DEF PageInit, Init, OneLiveVisit, Visits, Live, InProgress
<1>4. BookedHoldIsOver /\ OneVisitConverts
  BY DEF PageInit, Init, BookedHoldIsOver, OneVisitConverts
<1> QED
  BY <1>1, <1>2, <1>3, <1>4 DEF PageIInv

LEMMA PageNextTypeOK == PageIInv /\ [PageNext]_pageVars => PageTypeOK'
<1> SUFFICES ASSUME PageIInv, [PageNext]_pageVars PROVE PageTypeOK'
  OBVIOUS
<1>0. TypeOK'
  BY NextTypeOK, PageNextIsNext DEF PageIInv
<1> USE <1>0 DEF PageIInv, PageTypeOK
<1>1. ASSUME NEW k \in Keys, PageStep(k) PROVE PageTypeOK'
  BY <1>1
  DEF PageStep, Open, Submit, Hear, TimeOut, Depart, Leave, Gone, ReadToRelease,
      WriteReleased
<1>2. ASSUME NEW r \in Requests, SendElsewhere(r) \/ ServeForHold(r)
      PROVE  PageTypeOK'
  BY <1>2 DEF SendElsewhere, ServeForHold, pageOnlyVars
<1>3. CASE HoldBecomesDue \/ ExpireHold \/ StopAll \/ OthersUseConnections
  BY <1>3 DEF HoldBecomesDue, ExpireHold, StopAll, OthersUseConnections, pageOnlyVars
<1>4. CASE UNCHANGED pageVars
  BY <1>4 DEF pageVars, pageOnlyVars
<1> QED
  BY <1>1, <1>2, <1>3, <1>4 DEF PageNext

-----------------------------------------------------------------------------
(* The page: who may still book.                                           *)

LEMMA PageNextConverts ==
  PageIInv /\ [PageNext]_pageVars
    => (OneLiveVisit /\ BookedHoldIsOver /\ OneVisitConverts)'
<1> DEFINE Goal == (OneLiveVisit /\ BookedHoldIsOver /\ OneVisitConverts)'
<1> SUFFICES ASSUME TypeOK, BookingOwnsRow, PageTypeOK, OneLiveVisit, BookedHoldIsOver,
                    OneVisitConverts, [PageNext]_pageVars
             PROVE  Goal
  BY DEF PageIInv, IInv
<1>0. /\ pc \in [Requests -> PC] /\ key \in [Requests -> Keys \cup {None}]
      /\ visit \in [Keys -> {"elsewhere", "none", "shown", "leaving", "left"}]
      /\ booked \subseteq Requests /\ crowded \in BOOLEAN
      /\ \A r \in booked : pc[r] \in {"undo", "done"}
  BY DEF TypeOK, PageTypeOK, BookingOwnsRow
<1>v. Visits' = Visits /\ Visits \subseteq Keys
  <2>1. Visits' = Visits
    BY <1>0, VisitsStay
  <2>2. Visits \subseteq Keys
    BY DEF Visits
  <2> QED
    BY <2>1, <2>2
<1> USE <1>0, <1>v DEF OneLiveVisit, BookedHoldIsOver, OneVisitConverts, Live, InProgress,
                        HoldOpen
<1>1. ASSUME NEW k \in Keys, Open(k) PROVE Goal
  <2>1. /\ UNCHANGED <<pc, key, booked, hold>>
        /\ \A j \in Keys \ {k} : visit'[j] = visit[j]
    BY <1>1 DEF Open, vars
  <2>2. ~crowded' => ~crowded /\ (HoldOpen => \A j \in Visits \ {k} : ~Live(j))
    BY <1>1 DEF Open
  <2>3. \A j \in Visits \ {k} : Live(j)' => Live(j)
    BY <2>1
  <2>4. OneLiveVisit'
    BY <2>1, <2>2, <2>3
  <2>5. BookedHoldIsOver' /\ OneVisitConverts'
    BY <2>1, <2>2
  <2> QED
    BY <2>4, <2>5
<1>2. ASSUME NEW k \in Keys, Submit(k) PROVE Goal
  <2>1. PICK r \in Requests : Send(r) /\ key'[r] = k
    BY <1>2 DEF Submit, KeyOfAttempt
  <2>2. /\ pc[r] = "idle" /\ pc' = [pc EXCEPT ![r] = "lookup"]
        /\ \A q \in Requests \ {r} : key'[q] = key[q]
        /\ booked' = booked /\ r \notin booked
    BY <2>1 DEF Send, Goto
  <2>3. visit[k] \in {"shown", "leaving"} /\ UNCHANGED <<hold, visit, crowded>>
    BY <1>2 DEF Submit
  <2> QED
    BY <2>1, <2>2, <2>3
<1>3. ASSUME NEW k \in Keys,
             \/ Hear(k) \/ TimeOut(k) \/ Depart(k) \/ Leave(k)
             \/ ReadToRelease(k) \/ WriteReleased(k)
      PROVE  Goal
  BY <1>3 DEF Hear, TimeOut, Depart, Leave, Gone, ReadToRelease, WriteReleased, vars
<1>4. ASSUME NEW r \in Requests, SendElsewhere(r) PROVE Goal
  BY <1>4 DEF SendElsewhere, Send, Goto, pageOnlyVars
<1>5. ASSUME NEW r \in Requests, ServeForHold(r) PROVE Goal
  <2>1. /\ UNCHANGED <<key, visit, crowded>>
        /\ \A q \in Requests \ {r} : pc'[q] = pc[q]
        /\ pc'[r] = "write" => pc[r] = "quote"
        /\ InProgress(r)' => InProgress(r)
        /\ \/ booked' = booked
           \/ booked' = booked \cup {r} /\ pc[r] = "write"
    BY <1>5, ServeMoves DEF ServeForHold
  <2>2. /\ key[r] \in Visits /\ pc'[r] = "write" => HoldOpen
        /\ HoldOpen' => HoldOpen /\ ~(key[r] \in Visits /\ r \in booked' \ booked)
    BY <1>5, <2>1 DEF ServeForHold
  <2>3. OneLiveVisit'
    BY <2>1, <2>2
  <2>4. BookedHoldIsOver'
    BY <2>1, <2>2
  <2>5. OneVisitConverts'
    <3>1. CASE pc'[r] = "write" /\ key[r] \in Visits
      <4>1. HoldOpen /\ InProgress(r) /\ booked' = booked
        BY <2>1, <2>2, <3>1
      <4>2. \A q \in Requests : q \in booked => key[q] \notin Visits
        BY <4>1
      <4>3. ~crowded => \A q \in Requests :
              key[q] \in Visits /\ InProgress(q) => key[q] = key[r]
        BY <3>1, <4>1
      <4>4. \A q \in Requests : pc'[q] = "write" => InProgress(q)
        BY <2>1, <4>1
      <4> QED
        BY <2>1, <4>1, <4>2, <4>3, <4>4
    <3>2. CASE ~(pc'[r] = "write" /\ key[r] \in Visits)
      <4>1. \A q \in Requests :
              key[q] \in Visits /\ (pc'[q] = "write" \/ q \in booked')
                => pc[q] = "write" \/ q \in booked
        BY <2>1, <3>2
      <4> QED
        BY <2>1, <4>1
    <3> QED
      BY <3>1, <3>2
  <2> QED
    BY <2>3, <2>4, <2>5
<1>6. CASE HoldBecomesDue \/ ExpireHold
  BY <1>6 DEF HoldBecomesDue, ExpireHold, vars
<1>7. CASE StopAll
  BY <1>7 DEF StopAll, Stop
<1>8. CASE OthersUseConnections
  BY <1>8 DEF OthersUseConnections, OthersUse, pageOnlyVars
<1>9. CASE UNCHANGED pageVars
  BY <1>9 DEF pageVars, pageOnlyVars, vars
<1> QED
  BY <1>1, <1>2, <1>3, <1>4, <1>5, <1>6, <1>7, <1>8, <1>9 DEF PageNext, PageStep

\* The page and its requests together do nothing that BookingRequests does not
\* allow: the page restricts who sends what, and adds no step of the server.
THEOREM PageImplementsRequests == PageSpec => Spec
BY PageInitIsInit, PageNextIsNext, PTL DEF PageSpec, Spec

\* The inductive invariant of the composition: while the hold is open one visit can
\* still book, and those who have passed the last read of the hold are of one visit.
THEOREM PageSpecIInv == PageSpec => []PageIInv
<1>1. PageIInv /\ [PageNext]_pageVars => PageIInv'
  <2> SUFFICES ASSUME PageIInv, [PageNext]_pageVars PROVE PageIInv'
    OBVIOUS
  <2>1. IInv'
    BY PageNextIsNext, NextTypeOK, NextOwns, NextTells DEF PageIInv, IInv
  <2> QED
    BY <2>1, PageNextTypeOK, PageNextConverts DEF PageIInv
<1> QED
  BY <1>1, PageInitIInv, PTL DEF PageSpec

\* Every reachable state of the composition is well typed.
THEOREM PageTypeCorrect == PageSpec => []PageTypeOK
<1>1. PageIInv => PageTypeOK
  BY DEF PageIInv
<1> QED
  BY <1>1, PageSpecIInv, PTL

\* A hold makes one booking, whatever the visits of its page do, unless two of them
\* could book at once.
THEOREM OneBookingOfHold == PageSpec => []OneBookingPerHold
<1>1. ASSUME PageIInv PROVE OneBookingPerHold
  <2>1. booked \subseteq Requests
    BY <1>1 DEF PageIInv, IInv, TypeOK
  <2>2. \A r, q \in booked : key[r] = key[q] => r = q
    BY <1>1 DEF PageIInv, IInv, BookingOwnsRow
  <2> QED
    BY <1>1, <2>1, <2>2 DEF PageIInv, OneVisitConverts, OneBookingPerHold
<1> QED
  BY <1>1, PageSpecIInv, PTL
=============================================================================
