---------------------------- MODULE CheckoutPage -----------------------------
(***************************************************************************)
(* The checkout page of the web client (client/src/views/Book.vue and      *)
(* components/book/CheckOut.vue) together with the requests it sends       *)
(* (BookingRequests) and the hold it is for.                               *)
(*                                                                         *)
(* Each visit of the page makes an idempotency key of its own; the hold    *)
(* stays in the store of the session, so a page that is reloaded, left and *)
(* come back to, or duplicated in another tab is for the same hold.  The   *)
(* client gives a request ten seconds; the server goes on with it.  A page *)
(* that is left releases its hold first.                                   *)
(*                                                                         *)
(* A visit is named by its key.  The other keys belong to other clients,   *)
(* whose requests are about other holds and share the server's pool.  The  *)
(* transaction of a release and the one of an expiry are one step each.    *)
(***************************************************************************)
EXTENDS BookingRequests

CONSTANT PageBody    \* what the page sends

ASSUME PageAssumption == PageBody \in Bodies

VARIABLES
  hold,        \* the hold of the page: active, active but due, or released,
               \* expired or completed
  visit,       \* whether a visit is shown, about to be left, or left, for each key
               \* of the page
  asked,       \* the request the handleSubmit of a visit waits for
  converted,   \* visits that know a booking: createdBooking, isHoldConvertedToBooking
  release,     \* the DELETE /api/hold of a visit, at the server
  crowded      \* history: a visit began beside another one, the hold being open

pageOnlyVars == <<hold, visit, asked, converted, release, crowded>>
pageVars == <<vars, pageOnlyVars>>

\* Keys of the page; the others belong to other clients for good.
Visits == {k \in Keys : visit[k] # "elsewhere"}

\* The row's status is 'active'.
HoldOpen == hold \in {"active", "overdue"}

PageTypeOK ==
  /\ TypeOK
  /\ hold \in {"active", "overdue", "ended"}
  /\ visit \in [Keys -> {"elsewhere", "none", "shown", "leaving", "left"}]
  /\ asked \in [Keys -> Requests \cup {None}]
  /\ converted \subseteq Keys
  /\ release \in [Keys -> {"none", "sent", "read"}]
  /\ crowded \in BOOLEAN

PageInit ==
  /\ Init
  /\ hold = "active"
  /\ visit \in [Keys -> {"elsewhere", "none"}]
  /\ asked = [k \in Keys |-> None]
  /\ converted = {}
  /\ release = [k \in Keys |-> "none"]
  /\ crowded = FALSE

-----------------------------------------------------------------------------
(* The server: the hold of the page *)

\* createBookingFromHold, with the hold it reads twice and ends at its commit.
ServeForHold(r) ==
  LET ofPage == key[r] \in Visits IN
  /\ Serve(r)
  /\ ofPage /\ pc[r] = "begin" /\ pc'[r] = "quote" => hold = "active"
  /\ ofPage /\ pc[r] = "quote" /\ pc'[r] = "write" => HoldOpen
  /\ hold' = IF ofPage /\ r \in booked' \ booked THEN "ended" ELSE hold
  /\ UNCHANGED <<visit, asked, converted, release, crowded>>

\* Other clients send what they like.
SendElsewhere(r) ==
  /\ Send(r)
  /\ key'[r] \notin Visits
  /\ UNCHANGED pageOnlyVars

OthersUseConnections == OthersUse /\ UNCHANGED pageOnlyVars

\* The server stops: a release in progress ends with an error.
StopAll ==
  /\ Stop
  /\ release' = [k \in Keys |-> "none"]
  /\ UNCHANGED <<hold, visit, asked, converted, crowded>>

HoldBecomesDue ==
  /\ hold = "active"
  /\ hold' = "overdue"
  /\ UNCHANGED <<vars, visit, asked, converted, release, crowded>>

\* expireHoldIfDue of the expiry worker.
ExpireHold ==
  /\ hold = "overdue"
  /\ hold' = "ended"
  /\ UNCHANGED <<vars, visit, asked, converted, release, crowded>>

\* releaseHold: a read without a lock, which may find the hold ended ...
ReadToRelease(k) ==
  /\ release[k] = "sent"
  /\ ConnectionFree
  /\ release' = [release EXCEPT ![k] = IF HoldOpen THEN "read" ELSE "none"]
  /\ UNCHANGED <<vars, hold, visit, asked, converted, crowded>>

\* ... and a write by id, or an error.
WriteReleased(k) ==
  /\ release[k] = "read"
  /\ \/ ConnectionFree /\ hold' = "ended"
     \/ UNCHANGED hold
  /\ release' = [release EXCEPT ![k] = "none"]
  /\ UNCHANGED <<vars, visit, asked, converted, crowded>>

-----------------------------------------------------------------------------
(* The page *)

InProgress(r) == pc[r] \in {"lookup", "insert", "begin", "quote", "write"}

\* A visit that can still turn the hold into a booking.
Live(k) ==
  \/ visit[k] \in {"shown", "leaving"}
  \/ \E r \in Requests : InProgress(r) /\ key[r] = k

\* Book.vue is mounted and the user goes on to CheckOut, which makes its key.
Open(k) ==
  /\ visit[k] = "none"
  /\ visit' = [visit EXCEPT ![k] = "shown"]
  /\ crowded' = (crowded \/ (HoldOpen /\ \E j \in Visits \ {k} : Live(j)))
  /\ UNCHANGED <<vars, hold, asked, converted, release>>

\* Mutant: each attempt makes a key of its own.
NewKeyForAttempt(k) == {j \in Visits : \A r \in Requests : key[r] # j}

\* The key CheckOut was created with.
KeyOfAttempt(k) == {k}

\* handleSubmit: the button is disabled while an attempt is in progress.  Once a
\* booking is known an attempt only pays for it.
Submit(k) ==
  /\ visit[k] \in {"shown", "leaving"} /\ asked[k] = None /\ k \notin converted
  /\ \E r \in Requests :
       /\ Send(r)
       /\ key'[r] \in KeyOfAttempt(k) /\ body'[r] = PageBody
       /\ asked' = [asked EXCEPT ![k] = r]
  /\ UNCHANGED <<hold, visit, converted, release, crowded>>

\* The answer: createdBooking is kept and booking-created sets the flag of the
\* page, or an error is shown.
Hear(k) ==
  /\ asked[k] # None
  /\ pc[asked[k]] = "done"
  /\ converted' = IF answer[asked[k]].kind \in {"booked", "replayed"}
                  THEN converted \cup {k} ELSE converted
  /\ asked' = [asked EXCEPT ![k] = None]
  /\ UNCHANGED <<vars, hold, visit, release, crowded>>

\* axios gives up on the request.
TimeOut(k) ==
  /\ asked[k] # None
  /\ asked' = [asked EXCEPT ![k] = None]
  /\ UNCHANGED <<vars, hold, visit, converted, release, crowded>>

\* The page is gone; a handleSubmit still in progress can do no more with it than
\* ask for an intent.
Gone(k) ==
  /\ visit' = [visit EXCEPT ![k] = "left"]
  /\ asked' = [asked EXCEPT ![k] = None]
  /\ converted' = converted \ {k}
  /\ UNCHANGED <<vars, hold, crowded>>

\* A visit ends without releasing anything: the payment is confirmed and the page
\* gives way to BookingConfirmation; hold:expired has set the flag of the page and
\* makes it leave; the release it waited for is answered or given up; or it is
\* reloaded or closed, which no code hears of.
Depart(k) ==
  /\ visit[k] \in {"shown", "leaving"}
  /\ Gone(k)
  /\ UNCHANGED release

\* beforeRouteLeave: releaseAbandonedHold, unless the page knows of a booking.
Leave(k) ==
  /\ visit[k] = "shown"
  /\ \/ k \in converted /\ Gone(k) /\ UNCHANGED release
     \/ /\ k \notin converted
        /\ visit' = [visit EXCEPT ![k] = "leaving"]
        /\ release' = [release EXCEPT ![k] = "sent"]
        /\ UNCHANGED <<vars, hold, asked, converted, crowded>>

PageStep(k) ==
  \/ Open(k) \/ Submit(k) \/ Hear(k) \/ TimeOut(k) \/ Depart(k) \/ Leave(k)
  \/ ReadToRelease(k) \/ WriteReleased(k)

PageNext ==
  \/ \E r \in Requests : SendElsewhere(r) \/ ServeForHold(r)
  \/ \E k \in Keys : PageStep(k)
  \/ HoldBecomesDue \/ ExpireHold \/ StopAll \/ OthersUseConnections

PageSpec == PageInit /\ [][PageNext]_pageVars

\* The fairness of BookingRequests, and none of users, clocks and workers.
PageFairness == \A r \in Requests : WF_pageVars(ServeForHold(r))

-----------------------------------------------------------------------------
(* Properties *)

\* However often the user submits, loses patience, leaves, reloads and comes back,
\* and whatever releases and expiries run into it, a hold makes one booking, unless a
\* visit began while another one could still book and the hold was open.  The server
\* does not see to it, for it converts a hold as often as it is read active: the key
\* that a visit keeps for all its attempts does.
OneBookingPerHold ==
  ~crowded =>
    \A r, q \in booked : key[r] \in Visits /\ key[q] \in Visits => r = q

-----------------------------------------------------------------------------
(* Why it holds: the invariant the proofs use. *)

\* While the hold is open one visit at most can book.
OneLiveVisit ==
  ~crowded /\ HoldOpen => \A j, k \in Visits : Live(j) /\ Live(k) => j = k

\* A booking has ended the hold.
BookedHoldIsOver == HoldOpen => \A r \in booked : key[r] \notin Visits

\* Requests that have passed the second read, or have booked, are of one visit.
OneVisitConverts ==
  ~crowded =>
    \A r, q \in Requests :
      /\ key[r] \in Visits /\ (pc[r] = "write" \/ r \in booked)
      /\ key[q] \in Visits /\ (pc[q] = "write" \/ q \in booked)
      => key[r] = key[q]

PageIInv ==
  /\ IInv
  /\ PageTypeOK
  /\ OneLiveVisit
  /\ BookedHoldIsOver
  /\ OneVisitConverts
=============================================================================
