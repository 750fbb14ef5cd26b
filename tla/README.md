# TravelNest in TLA+

Specifications of the TravelNest hotel booking platform: what its room
counters, holds, bookings, payments, refunds and payouts, its idempotency keys,
accounts, events and images do when requests, webhooks, workers and services
run at the same time, fail and stop. The modules are translated from
`src/server/` (Node), `src/services/` (Go) and the checkout page of
`src/client/` (Vue); TLC checks them on small instances, TLAPS proves their
invariants for every value of the constants.

## The system

The server is a Node/Express application (`src/server`) over MySQL
(Sequelize), with BullMQ workers on Redis, Stripe for payments and NATS for
events; notification, media and analytics services in Go (`src/services`)
consume the events. Two web clients call its REST API.

A guest's path: `POST /api/hold` holds rooms for 15 minutes;
`POST /api/bookings` (or `POST /api/payments`) turns the hold into a booking
that waits 15 minutes for its payment; `POST /api/bookings/:id/payment-intent`
creates a Stripe payment intent; Stripe's webhooks confirm the booking, mark it
failed or cancel it; workers scan every 30 seconds for holds and bookings that
are due.

### Inventory of components

| component | state | operations | interacts with |
|---|---|---|---|
| room inventory | `room_inventory`: total, booked, held rooms and status of a room and a night | check, hold, release, reserve, give back; administrator's upsert | holds, bookings, refunds change its counters |
| holds | `holds`, `hold_rooms`: status, expiry | create, release, expire | inventory; read by both booking paths |
| booking creation | `bookings`, `booking_rooms`, `transactions` | createBookingFromHold, createPaymentIntent, expireBookingIfDue | ends a hold, reserves its rooms |
| pricing | none | quote | decides which quantities `booking_rooms` records |
| payments | `transactions`, `payments`; intents at Stripe | create an intent, payment succeeded / failed, refund succeeded | writes bookings by `booking_code`; refunds late payments |
| cancellation | `bookings.status`, `refunds` | cancelBooking, processRefund | Stripe refunds, ledger |
| expiry workers | BullMQ repeatable jobs | scan, expire one row under its lock, cancel its intent | holds, bookings, Stripe |
| webhook inbox | `webhook_event_logs` | duplicate check, log, route, retry | Stripe delivers at least once |
| idempotency keys | `idempotency_keys` | look up, insert, complete, fail | createBookingFromHold, on the server's pool of connections |
| ledger | `ledger_entries` | balanced posting, once per group key | payments, refunds, payouts |
| payouts | `payouts`, `payout_items`; transfers at Stripe | scan, payout for a transaction, transfer, mark failed | reads bookings and transactions; ledger |
| event publishing, realtime | NATS JetStream streams; sockets | publish, fan out | all services; the checkout page hears `hold:expired` |
| notification service (Go) | `notifications`, mails sent | consume, insert if missing, send, ack, dead letter | NATS JetStream, at least once |
| media service (Go) | `images`, `image_variants`, objects | upload, delete, set primary, process | NATS JetStream; shows images |
| analytics service (Go) | search logs, hotel views | consume, insert once, report | NATS JetStream |
| identity | `users`, `user_roles`, the link to Keycloak | resolve the account of a token, sync its roles | every request and socket |
| web clients | one page's state, the session store | checkout page: submit, retry, leave, release | holds, bookings, payments |
| snapshots and search | search read model | rebuild from events (without a producer), query | hotels |
| hotels, rooms, reviews, users, join | rows of their own | create, read, update, delete | |

`PROJECT.json` lists them all with what is modelled of each.

### What is hard, and what makes each part correct

* **Requests are not atomic.** A handler reads with autocommit SELECTs, awaits,
  and writes in one transaction whose updates are relative
  (`held_rooms = held_rooms + q`) or keyed on an id. What it decided on may be
  stale. Correct means: rooms are not sold twice, and each counter is what the
  holds and bookings account for.
* **Requests, webhooks and workers race for one row.** A hold must be released,
  expired or converted, once. A booking must expire, or be paid, or both with
  the payment refunded.
* **Stripe's events are unordered, repeated, late or lost.** A payment must be
  on record or refunded; a booking must be confirmed only by a payment for it.
* **Series of statements stop half way.** Intent created and not stored, refund
  made and not recorded, transfer made and not marked, an idempotency key left
  `processing`, an event logged and not handled. Correct means: what the rows
  and the ledger say agrees with what Stripe did, or a fault is on record.
* **Answers get lost, and the asker asks again.** A client gives up after ten
  seconds, a COMMIT is applied and reported as an error, an acknowledgement
  misses JetStream's `AckWait`. Correct means: one booking per key and per
  hold, one notification per receiver, one variant per image, one payout per
  booking.
* **Everyone waits for everyone.** A conversion keeps a pooled connection and
  asks for a second one; the acquire timeout must end the wait.
* **First requests meet.** A page of a new visitor sends several requests, each
  of which finds, links or creates his account and syncs its roles.
* **Abandoned reservations must end,** or the hotel cannot sell its rooms.

## Modules

| module | what it is |
|---|---|
| `RequestLines` | what the lines of a hold request add up to for the code that reads them |
| `RoomCheckout` | extends `RequestLines`: inventory rows, holds, bookings made of them, expiry, refunds of rooms |
| `MCRoomCheckout` | instances of `RoomCheckout` for TLC |
| `BookingLife` | abstract: what a booking is to the inventory, once made |
| `BookingPayment` | one booking's intents, webhooks, expiry, cancellation and refund |
| `MCBookingPayment` | instance of `BookingPayment` for TLC |
| `WebhookInbox` | how one Stripe event becomes calls of its handler: check, row, handler, mark |
| `BookingRequests` | idempotency keys and the connection pool around `createBookingFromHold` |
| `CheckoutPage` | composes `BookingRequests` with the checkout page and its hold |
| `MCCheckoutPage` | instance of `CheckoutPage` for TLC |
| `Settlement` | refunds of cancellations, payouts, and the ledger they and the payment are posted to |
| `MCSettlement` | symmetry of `Settlement` for TLC |
| `EventLife` | abstract: what a durable promises of an event, once published |
| `DurableConsumer` | JetStream's durable consumer and the loop all three Go services run on it |
| `EventDelivery` | composes `DurableConsumer` with the publisher and the handlers of notifications, mails and views |
| `MediaImages` | composes `DurableConsumer` with uploads, deletions, promotions and the image processor |
| `Accounts` | which account and roles a request is served with |
| `MCAccounts` | symmetry of `Accounts` for TLC |
| `RoomCheckoutProofs`, `BookingPaymentProofs`, `WebhookInboxProofs`, `BookingRequestsProofs` (with `CheckoutPage`), `SettlementProofs`, `EventDeliveryProofs` (with `DurableConsumer`), `MediaImagesProofs`, `AccountsProofs` | the theorems |

### RoomCheckout

`held` and `booked` are the counters of each `room_inventory` row; a pair of a
room and a night outside `Rows` has no row, and an update of it matches
nothing. Each handler of an HTTP request has a `pc` that says after which
unlocked read it is: `createHold` is `CheckAvailability` then `CreateHold`;
`releaseHold` is `ReadHoldToRelease` then `ReleaseHold`;
`createBookingFromHold` is two reads (its own and that of `releaseHold`, on
another connection) and `CreateBookingFromHold`; `createPaymentIntent` the same
with `findActiveByUserId`. The transaction is one step, at its commit: every
write in it is relative or by id, so nothing another process does between its
first statement and its commit can change what it writes. `Abort` is any
refusal, error, deadlock victim, pool timeout or crash: the transaction rolls
back. The workers read with `SELECT ... FOR UPDATE` and hold the lock until the
commit, so `ExpireHoldIfDue` and `ExpireBookingIfDue` are single steps.

A request may name a room on several lines, which the validators allow. The
code then derives three different quantities (wanted, checked, quoted);
`RequestLines` derives them as the code does, and `RoomCheckout` takes any
requests that `RequestAssumption` allows; that lists of lines make such requests
is the theorem `LinesMakeRequests`. `booking_rooms` of a payment-intent
booking do not exist, and expiry falls back to the booking's own room and
quantity: `OneLine` says why that is the same.

What the payment side does to a booking is here one action, `SettleBooking`,
and the refund event that releases rooms, `RefundBooking`. `reended` is a
history variable: how often a hold was ended after it had ended.

### BookingPayment and BookingLife

`BookingPayment` is about the bookings `POST /api/bookings` makes. The webhook
of a success and the expiry lock the booking row: one step each, with three ways
through the first (already processed, late, confirm). `handlePaymentFailed`,
`createPaymentIntentForBooking` and `cancelBooking` are series of autocommit
statements: one step per statement, and `Fail` or `StopFailing` between any two.
Stripe is the environment: `Pay`, `Decline`, and an `inbox` that counts events
not yet handled; an event that is never taken is lost, `SendAgain` is one that
passes the duplicate check once more. `orphaned`, `raced` and `revived` are
history variables: intents of requests that stopped before storing them,
bookings two requests paid for at once, bookings written to after they expired.

`BookingLife` is the promise to the inventory: a pending booking settles or
expires; its rooms go back when it expires, once; it is never pending again.
Both sides implement it, each by a refinement mapping (`Stage`): `LivesAsReserved`
says it of `BookingPayment`, which knows why a booking settles, and `BookingsLive`
of `RoomCheckout`, which knows what its rooms are. There a booking's rooms are
left until it expires; what refunds give back on top is counted by
`BookedAccountsForBookings`.

### WebhookInbox

Each delivery of an event is a process: it looks the event up (`PassCheck`, or
`AnswerDuplicate` when there is a row), inserts the row (`LogEvent`), runs the
handler up to its commit (`HandleEvent`), marks the row and answers 200
(`FinishEvent`). Both the lookup and the insert swallow their errors
(`PassOnError`, `LogFails`), and `FailDelivery` is an error or a stop anywhere.
`applied` counts how often the handler of an event committed: `BookingPayment`
is written for any value of it, 0 (an event that is lost) and more than 1
(`SendAgain`) included. `unguarded` is a history variable: events whose check
or insert failed.

### BookingRequests and CheckoutPage

Here the transaction of `createBookingFromHold` is reduced to its reads and its
commit, and what surrounds it is modelled statement by statement: `Lookup` of
the key, `InsertRecord` under the unique index, `BeginTransaction` on a pooled
connection that the request keeps, `ReadOnSecondConnection` (the quote and
`releaseHold`'s own read), `Commit` with `markCompleted`, or `Rollback`, and
`MarkFailed` after it. `InsertUnheard` and `CommitUnheard` are an INSERT and a COMMIT
that MySQL applied and whose answer broke, `MarkFailedLost` the swallowed error of `markFailed`, `Stop` the
end of the process, `AcquireTimeout` what the pool does to every wait at every
place. `OthersUse` is everything else that takes connections from the pool.
`unsure` and `stranded` are history variables: keys whose COMMIT was applied but
reported as an error, and keys whose request ended without saying so.

`CheckoutPage` adds the page that sends the requests. A visit of the page is
named by the key `CheckOut.vue` makes when it is created; `Submit` sends a
request with it, `TimeOut` gives up on it (axios, ten seconds) while the server
goes on, `Leave` is `beforeRouteLeave` with `releaseAbandonedHold`, `Depart`
every end of a visit without a release: payment confirmed, `hold:expired`
heard, reload, closed tab. The hold stays in the session store, so a later
visit is for the same one. The server's side of that hold is its status, its
expiry and the two steps of `releaseHold` (read, then write by id).
`crowded` is a history variable: a visit began while the hold was open and
another visit could still book. Every step of the composition is a step of
`BookingRequests` or leaves it alone, which is proved.

### Settlement

The money of a booking after it is charged. `CancelRead` to `WriteCancelled`
are the autocommit statements of `cancelBooking` and `processRefund`, with
Stripe refunding at once or in a while, declining or taking the refund back
(`Answered`, the statuses `normalizeRefundStatus` knows), and a fault at each
statement that leads to the catch block (`FailRefund`). `RefundEvent` is `charge.refunded`, which
hears of no row but the booking's. `ScanRead`, `ScanCreate` and `ScanAborts` are
`createEligiblePayouts`, with the bookings it skips (dates, owners, amounts) as any
subset of the eligible ones; `UpdateStatusByDates` makes a booking `checked_in`, which
a scan passes over, and `completed`, which it takes. `ManualRead`, `ManualCreate` are
`createPayoutForTransaction`; `TransferRead` to `FailPayout` are
`processStripeTransfer`. A posting to the ledger looks its group up and inserts
it: one step where nobody else can post the group, two (`LookupPayoutGroup`,
`PostPayout`) where two transfers can. `cut`, `raced` and `reopened` are history
variables: requests and payouts that a fault cut short, payouts two operators
had read `pending`, bookings whose refund was cut short or whose success event
was handled again.

### DurableConsumer, EventDelivery and MediaImages

The consumer loop of the three Go services is the same line for line, and so is
its module. JetStream is the environment: `Store`, `AckWaitExpires` (deliver
again, or drop after `MaxDeliver`), `Ack`. A worker is a process of the service:
it fetches a batch (`Fetch`), takes its messages one by one (`Take`), and ends
each with `Succeed` or `Fail`: a Nak, or after the last delivery a dead letter,
which may get lost (`unburied`), and an Ack. `Lose` is a crash. Acks and Naks are
sent and not waited for; one that does not arrive leaves what `Lose` leaves behind
a handler that has made its last write: a message that is held until `AckWait`.

`EventLife` is what all of this promises to a publisher: an event is published
once, stays open, and is closed once, settled when it was served in full or its
handler failed for good, or exhausted. Both compositions implement it
(`LivesAsPublished`): `Stage` forgets which process holds a message, `ServedEvents`
is each service's own notion of being done, `Buried` are the dead letters, stored
or lost.

`EventDelivery` puts three kinds of handlers on it: notices, which look for the
notification of each receiver and insert it (two statements, no unique index);
mails, sent before the handler knows whether that worked; views, inserted under
a unique event id. `overlapped` is a history variable: events two workers were
handling at once, which `AckWait` allows. `MediaImages` puts the image processor
on it, beside the HTTP calls that write the same rows: an upload (row, promotion,
event), a deletion and a promotion (a read, then a write by id), all under the
unique index over entity, `is_primary` and status.

### Accounts

`resolveAuthenticatedUser` for concurrent requests, statement by statement: look
up by subject, by address, link or create under the unique indexes, sync the
managed roles in a transaction that deletes and inserts what it has read too
much and too little, read the context. `contested`, `overtaken` and `skewed` are
history variables: accounts two subjects found unlinked at once, requests whose
account another request synced meanwhile, accounts whose last sync had read
stale roles. An address is that of a row, not of a user: `ChangeAddress` is
`PATCH /api/user`, which leaves Keycloak as it is, so the next token of another
user may name the address this account has now, or the one it had.

## Runs

| run | instance | what it shows |
|---|---|---|
| `checkout_race` | 2 handlers, 2 holds, 2 bookings, one refund per booking; a request for one room and one that names a room twice, 1 room of each type | the unlocked check overbooks a row by no more than what the other handler can ask for plus what the check overlooks; counters are accounted for; a booked hold is closed; a hold makes no more bookings, and is ended no more often after its end, than there are handlers; nothing but a new hold takes rooms; `BookingLife` is implemented |
| `checkout_serial` | 1 handler, a request with two room types of which one lacks a row | due holds and overdue unpaid bookings end, whatever else happens to them |
| `payment` | 1 booking, 2 intents, 2 user requests, one mishap (a decline or a repeated event) | payments stay on record, late ones are refunded, confirmed bookings are paid for, `BookingLife` is implemented |
| `double_booking` | violation | two bookings of one hold: more rooms booked than there are |
| `late_confirmation` | violation | a cancellation overwrites `expired`, so a late payment confirms a booking without rooms |
| `webhook_inbox` | 2 events, 2 deliveries at a time, 2 faults | an event is applied at most once per delivery at work; one that is answered and not applied still has a row that says so; every event is answered |
| `lost_event` | violation | the retry after a failed handler is answered as a duplicate |
| `booking_requests` | 2 requests, 2 keys (both visits of the page, or one another client's), 2 bodies, a pool of 3 of which other work has at most 1, 1 fault | one booking per key and per hold; the key's row tells the outcome; answers are the asker's own; every request ends |
| `settlement` | 1 booking, 1 cancellation, 2 payouts, 2 operators, 1 fault | the ledger tells what Stripe did; what is marked failed kept its money; the owner is paid once; no scan takes what was refunded |
| `event_delivery` | 2 events of one durable (each of the three kinds), 2 workers, 2 deliveries, batches of 2, 2 receivers, 1 crash | `EventLife` is implemented: nothing is acknowledged undone or opened again; receivers are told once; every event leaves the stream |
| `media_images` | 2 images, 1 call at a time, 2 workers, 2 deliveries, 1 crash | one active primary image; variants before display and once; `EventLife` is implemented; no image silently left processing |
| `accounts` | 3 requests, 2 subjects, 2 addresses, 3 accounts of which one is suspended, 2 roles | links stand; requests are served with their own roles; accounts keep some role |

The violations state what `models/room_inventory.model.js`,
`plan/checkout_payment_future_plan.md` and the comment of `isDuplicate` say of
the program, and TLC finds the code doing otherwise; `findings` in
`PROJECT.json` tells each story. Two further stories of the same kind are
quantified by the invariants of `checkout_race` instead: two endings of one hold
(`reended`, in `HeldAccountsForHolds`), and expiry and the refund of a late
payment both giving the rooms back (in `BookedAccountsForBookings`).

The types of `Settlement`, `MediaImages` and `Accounts`, and `SettledIsServed`, which
follows from `LivesAsPublished`, are theorems that no run repeats.

Invariants are stated with the exception that makes them true, as a history
variable: `OneIntentUnlessRaced`, `ServedWithOwnRoles` outside `overtaken`, and
so on. What the exception excludes is a behaviour the code has and no document
promises to exclude.

**Why the bounds suffice.** Every conflict of `RoomCheckout` is between two
handlers, or a handler and a worker, on one hold or one row; two holds let a
conflict on one be seen by the requests for the other, two bookings let one
hold be booked twice. One room of each type makes the first conflict visible in
the counters. `MaxRefunds` = 1 is one release too many already. In
`BookingPayment` no action concerns two bookings, so one is enough; the second
intent and the second request are the races. `MaxMishaps` bounds declines and
repeated events together, and at most one `handlePaymentFailed` per intent is in
progress. `ChargeParts` = 1 leaves partial refunds to `RoomCheckout`'s
`RefundBooking`, which counts refund events and not amounts, and to the
proofs. In `WebhookInbox` events do not interact but through the deliveries
they share, two faults let one event fail twice, and three deliveries with two
faults were run too (the same result).

In `booking_requests` two conversions and one connection in use elsewhere block
each other on three connections; with none in use elsewhere both pass their
second read together, which is what a second booking of a hold takes. Two visits
and two requests are the race; for more there are the theorems.
In `settlement` two operators race for a payout and two payouts for a booking;
the one fault may come at any statement or be a stop; with two cancellations 7.3
million states were explored without a violation. In `event_delivery` and
`media_images` two deliveries make the last one different from the first, two
workers have one event at once, and a crash loses a batch. In `accounts` a third
request meets the outcome of a race of two.

Symmetry is used only in runs without liveness properties, over handlers, holds,
bookings, intents, users, accounts, addresses, operators, payouts, requests and
subjects: no action tells their members apart. In `booking_requests`, which has one, requests are
sent in one order instead (`SentInOrder`): they too are compared for equality only,
and no step under fairness sends one.

**Deadlock** is not checked in these runs: ids are finite, so a behaviour that
has used all holds, bookings and intents and ended them may stop.

**Fairness.** `FairSpec` has weak fairness of the two expiries of each row and
of nothing else: BullMQ repeats the scan every 30 seconds with three attempts
(`queues/*Expiry.queue.js`), the scan takes the oldest due rows first, and one
row's error does not stop the loop (`releaseExpiredHolds`,
`expirePendingBookings`). Users, Stripe and HTTP handlers may stop at any time.
No conclusion is drawn from a payment that must eventually arrive. In
`WebhookInbox`, `FairSpec` says that Stripe retries an event that was not
answered with 200, which is what the controller's 500 asks it to do, and that a
delivery goes on unless it fails; failures are bounded by `MaxFaults`. In
`CheckoutPage`, `PageFairness` says that the event loop goes on with each request
(every awaited statement returns, or its wait for a connection ends with
`pool.acquire`); users, clocks and workers have none. In `EventDelivery` and
`MediaImages`, `FairSpec` says that `AckWait` runs out (JetStream's timer), and
that a process that runs fetches (the loop of `consume` has no exit but a
cancelled context) and goes on with its batch; crashes are bounded by
`MaxCrashes`.

**Abstractions to keep in mind.** Each transaction commits or rolls back as a
whole (InnoDB); locks taken in different orders show as `Abort`, `Rollback` or
`SyncFails`. The clock is a set of due rows that only grows. Money is a number of
parts of a charge, or all of it. Requests that would be refused without a write
are left out, but for the ones whose refusal is the point (keys, accounts). A
page's hold is one of three things: active, due, ended.

## Proofs

Proved for every set of rooms, rows, requests, holds, bookings, handlers,
intents, users, keys, operators, payouts, events, workers and images, and every
bound on faults, crashes and deliveries, that the named assumptions
(`InventoryAssumption`, `RequestAssumption`, `HandlerAssumption`,
`PaymentAssumption`, `RequestsAssumption`, `SettlementAssumption`,
`ConsumerAssumption`, ...) allow. Holds, bookings, handlers, users, intents, requests and
deliveries are finite sets, because theorems count or sum over them; nothing
else is asked of their number. Each proof has the same shape: an inductive
invariant `IInv` (checked by TLC before it was proved), one lemma per part of it
with a case per action, and theorems that read the properties off it.

* **RoomCheckout**: type correctness, `BookedHoldIsClosed`,
  `OverbookingBounded`, its corollary `SerialCheckout` (one handler, one line
  per room: no overbooking), and the action property `OnlyHoldsTakeRooms`.
  `OverbookingBounded` is not inductive: a handler that has checked a row adds to
  it later, whatever happens between. `IInv` adds `PendingFits`: of the
  handlers that have checked a row and not yet held it there is one whose
  demand, with the most all others can ask for, still fits the bound. A new
  check makes its own handler that witness, a hold taken by another handler
  uses up one of the others' shares, a hold by the witness hands the role on.
  `RefersToRows` says that what a `pc` refers to exists.

  The counters: `HeldAccountsForHolds` and `BookedAccountsForBookings`, for any
  finite tables of holds and bookings. Each is an equation between a counter and a
  sum; every action changes one entry of the sum and the counter by the same
  (`EndingAccounts`, `ConvertAccounts`, `GiveBackAccounts`).
  `HistoryStartsEmpty` says that rows to be made have nothing on record.

  Endings: `EndingsBounded`, with `ReadersFit`: the handlers that found the hold
  active, together with the bookings already made of it (or its endings after the
  first), are no more than the handlers there are, because nobody joins them once
  the hold is closed. With one handler a hold makes one booking
  (`SerialConversion`).

  Lines: the check never asks for more of a room than the request holds
  (`CheckedIsWanted`); any list of lines that stays within `MaxQuantity` makes a
  request of `RequestType` (`LinesMakeRequests`); with one line for each room the
  three readers agree (`OneLineAgrees`).

  `BookingLife`: every write of a status is one of the few in `StatusSteps`, and each
  of them is a step of it (`ImplementsLife`).
* **BookingPayment**: type correctness, `OneIntentUnlessRaced`,
  `ConfirmedIsPaidFor`, `PaymentsAreOnRecord`, `LatePaymentIsRefunded`, and that
  it implements `BookingLife`. `IInv` adds what requests, events and charges
  refer to (`ChargesBelong`, `RefundsBelong`: a charge or refund on record was
  made at Stripe for this booking); that `rooms` is 0 exactly for bookings that
  expired; and `OneRequestPays`: while no request raced, the one request in
  progress is the only one that can store an intent. The refinement follows step
  by step from `RoomsFollowStage`: expiry is `Expire`, every other write of a
  status is `Settle` or a stutter.
* **WebhookInbox**: type correctness, `AppliedBounded` and
  `ReceivedIsAppliedOrVisible`. The first needs `RowGuards`: an event without a
  row is not applied and all who work on it have only passed the check, so what
  is applied plus who is at work never exceeds the number of deliveries; once
  there is a row nobody joins, and each application uses one of them up.

* **BookingRequests**: type correctness, `OneBookingPerKey`, `KeyTellsOutcome`,
  `AnsweredWithOwnBooking`. None of them is inductive: that a key books once
  needs `WorkingOwnsRow` (the request that inserted a row is the only one that
  works on it, and has not booked while the row says `processing`) and
  `BookingOwnsRow` (from its booking on, the row names it for good, and nobody
  works on the row).
* **CheckoutPage**: that it implements `BookingRequests`, so that all of the
  above holds of the page's requests, and `OneBookingPerHold`. `PageIInv` says that
  while the hold is open one visit at most can still book (`OneLiveVisit`), that
  a booking has ended the hold, and that requests past the last read of the hold,
  and bookings, are of one visit (`OneVisitConverts`); the key of that visit does
  the rest.
* **Settlement**: type correctness, `LedgerTellsStripe`, `FailedKeptTheMoney`,
  `OwnerPaidOnce` and the action property `NoScanOfRefunded`. `IInv` says how far
  each refund, operator and payout has come (`RefundGoesOn`, `OperatorGoesOn`,
  `PayoutStands`): who is past the transfer has made one, an operator who does not
  race is alone with a payout nobody has paid, and a refund is visible in the
  transaction from the statement that writes it on.
* **EventDelivery**: type correctness, `NotifiedOnce`, `SettledIsServed`, and that it
  implements `EventLife`. `IInv`
  adds that a message that waits has a delivery left, that the receivers a
  handler has passed have been told (`PassedAreNotified`), and that an event
  nobody overlapped on has one handler, which inserts what is missing
  (`HandledAlone`). The refinement adds `FetchedArePublished`: what a process works on
  was published, so that no handler serves an event that is still to come. Of a
  step it needs that a handler serves none but its own event (`ServesItsOwn`), that
  it has when it returns (`ReturnsServed`), and that a message only moves on
  (`StageMoves`).
* **MediaImages**: type correctness, `OneActivePrimary`, `ActiveHasItsVariant`, and
  that it implements `EventLife`; `IInv` adds that a handler about to show an image
  has made its variant.
* **Accounts**: type correctness, `ServedWithOwnRoles`, `KeepsSomeRole` and the
  action property `LinkStands`. `IInv` adds that requests about to link an account
  agree on the subject unless it is contested (`BindersAgree`) and that a sync
  nobody overtook writes what it read (`SyncsStand`).

Only model-checked: liveness under fairness, which the proof system does not
reach (`OverdueReservationsEnd`, `EveryEventAnswered`, `EveryRequestEnds`,
`EveryEventLeaves`, `EveryUploadIsSettled`), and the three properties that the code
violates.

Sums over sets are recursive, and the library's induction theorems take the
induction hypothesis as an operator, which the provers cannot instantiate. Where
a proof needs induction over a finite set it takes the set of counterexamples
instead: a family of subsets of a finite set that is not empty has a smallest
member (`SmallestSubset`), and the smallest counterexample leads to a smaller one.
`SumsExist` and `SumsUnique` say in this way that the recursion of
`SumFunctionOnSet` has one solution, `SumStep` that the sum follows it, and
`SumWithout` and `SumChanged` what one element contributes.

## Not modelled, and why

* **Prices, rates, currencies, amounts**: no state depends on them; the two sides
  of a ledger posting are computed from the same lines. The `payments` rows are
  receipts of what the transaction says.
* **Search**: read-only SQL. The snapshot worker has no producer:
  `utils/hotel_snapshot_events.utils.js` requires modules that do not exist, and
  nothing requires it. `repositories/admin/room.repository.js`, with its own
  inventory operations, has no importer.
* **Hotels, rooms, reviews, users, join requests**: single statements or one
  transaction each, on rows of their own, without a protocol between steps.
* **Notifications read and marked, analytics reports, avatars, join photos, the
  objects in the storage**: single statements and idempotent writes under one
  name.
* **Sockets**: expiry and notification events reach whoever listens; nothing is
  kept or promised. That the page hears `hold:expired` is an end of a visit.
* **The other pages of the web clients**: most of the repository's lines are
  templates, styles and pages that show what they fetch; what they send are single
  requests, the inputs of the modules.
* **Infrastructure**: start-up, configuration, seeders, containers, and the
  administrator's task runner (`routes/v1/internalSuperadmin.routes.js`), which
  starts scripts.

Two hazards are listed without a property, because no document of the
repository says what should happen: a failure event handled after the success of
the same intent (`payment.service.js:529`), and an image deleted while its event
is processed, which is shown again (`mysql/repository.go:200`).

## Plan

Done: `RoomCheckout` with `RequestLines`, `BookingLife` and `BookingPayment`, both
refining it, `WebhookInbox`, `BookingRequests` and `CheckoutPage`, `Settlement`,
`DurableConsumer` with `EventDelivery` and `MediaImages`, both refining `EventLife`,
`Accounts`, and the safety proofs of all of them, the accounting of the counters
included. Left, the most important first:

1. `BookingRequests` over `RoomCheckout`: the transaction's own steps in place of
   its reads and commit.
2. What is done once per key (bookings), per event (webhooks) and per group
   (ledger postings) as one abstract specification, implemented by each.
3. Inventory rows written by an administrator beside holds, should the
   repository come to import its operations.
