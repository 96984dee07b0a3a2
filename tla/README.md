# NotifyStream in TLA+

NotifyStream accepts notifications over HTTP, keeps them in PostgreSQL, hands
them to workers over RabbitMQ, sends each to a webhook provider, and tells
WebSocket clients of the outcome. This directory holds TLA+ modules of that
system, translated from the Go sources, TLC configurations that model-check them
on small instances, and theorems proved by TLAPS for instances of every size.

There are three specifications, each with the abstract promise or the properties
of one side of the system: `Intake` (requests up to their commit, templates,
listing), `NotifyStream` (from the commit to the outcome) and `StatusHub` (from
the outcome to the clients).

Contents: [inventory](#inventory), [modules](#modules), [how the model maps to
the code](#how-the-model-maps-to-the-code), [properties](#properties),
[runs](#runs), [fairness](#fairness), [proofs](#proofs), [limits of the
tolerance](#limits-of-the-tolerance), [not modelled](#not-modelled),
[plan](#plan).

    tlc -workers 2 -config Tolerant.cfg MCNotifyStream      # one run
    tlapm IntakeProofs.tla                                  # one module of proofs

## Inventory

| Part | State it keeps | Operations | Talks to |
| --- | --- | --- | --- |
| `cmd/api`, `internal/api/handlers.go` | the frame of each request, after its transaction has committed | create (validate, insert, commit, then per row: read, publish, mark queued or write the outbox), cancel, get, list | database (calls), broker (publish) |
| `internal/db` | rows of `notifications`, `outbox`, `notification_batches`, `templates`; row locks | guarded UPDATEs, `FOR UPDATE SKIP LOCKED` claims, idempotent INSERT, listing | called by all |
| `internal/runner`, `cmd/scheduler` | one open transaction per loop | outbox relay, due-time scheduler | database, broker |
| `internal/amqp` | one connection and channel per process; queues, dead-letter queue and status fanout at the broker | publish, republish, publish status, consume and settle | broker |
| `cmd/worker` | one goroutine per channel, the delivery it holds | `handleDelivery`: read, render, rate limit, mark sending, POST, mark delivered or failed, back off and republish, release, announce | all of the above, the provider |
| `internal/delivery` | none | POST and the classification of its outcome | provider |
| `internal/ratelimit` | token bucket (Redis or in memory) | `Wait` | Redis |
| `internal/api/ws.go` | two maps of connections, a channel of 256 messages | subscribe, remove, dispatch, write | status fanout, browsers |
| `internal/domain` | none | validation, rendering | - |
| `internal/api/template_handlers.go` | immutable rows of `templates` | create | database |
| router, config, migrations, tracing, metrics, Swagger | start-up values | - | - |

What is hard here:

* **Two sources of truth.** A row is committed before its message is published,
  and marked after; no transaction spans the database and the broker. Each
  component must cope with a message whose row is not queued yet, a queued row
  whose message is gone, and a row that moved between its read and its write.
* **Several writers of one status.** The create handler, the relay, the
  due-time loop, any number of workers and the cancel handler all update the
  same row. Order is kept only by guards in the UPDATEs and by row locks.
* **At-least-once delivery.** Messages come back when a worker or its connection
  dies, and a retry is a new message, so several copies of a notification may
  be handled at once.
* **Aborts.** The create handler uses the request's context after its commit, a
  worker the process's; after either ends the next call fails and the error
  branch decides what becomes of the notification.
* **Connections.** Each process dials the broker once.
* **Keys taken by an open transaction.** A create request inserts its items one
  statement at a time; an idempotency key that another request has inserted but
  not committed makes the statement wait, and two requests can wait for each
  other.
* **Pages of a moving table.** `created_at` is the start of a transaction, so rows
  appear in the middle of an order that a client is paging through, several with
  the same time, while others leave the filter.
* **A walk over a shared map.** The hub reads an inner map under its lock and
  ranges over it, writing to the network, after releasing it.

What makes each part correct: *create* never leaves a committed row that nobody
will publish; *relay and scheduler* publish once per need and hold their claim
until commit; *worker* settles a delivery only when the row has moved on, never
calls the provider for a cancelled notification, and calls it a bounded number
of times; *database* lets a status only move forward; *create
transactions* give a key one row and every answer the right one; *listing* skips
and repeats nothing; *status stream* announces what the row says, and the hub
tells each client that stays, in order; *the whole* takes every notification to an end.

`PROJECT.json` lists the hazards with their lines and the properties that
would notice each.

## Modules

| Module | Models |
| --- | --- |
| `Deployment` | processes, the faults the environment may produce, and their budget |
| `Store` | rows, row locks, guarded UPDATEs, claims (`internal/db`) |
| `Broker` | work queue, dead-letter queue, status fanout, connections (`internal/amqp`) |
| `ApiServer` | create handler after the commit, cancel (`internal/api/handlers.go`) |
| `Runner` | outbox relay and due-time scheduler (`internal/runner/background.go`) |
| `Worker` | `handleDelivery` and `Client.Consume` (`cmd/worker/main.go`) |
| `NotifyStream` | the composition: `Init`, `Next`, `Spec`, `FairSpec`, the properties |
| `Lifecycle` | the abstract specification: what a client may rely on |
| `MCNotifyStream` | `NotifyStream` with the symmetry TLC uses |
| `NotifyStreamProofs` | theorems that hold under any fault |
| `PublishProofs` | how often a notification is published and posted, under any fault |
| `ToleranceProofs` | what holds unless a named fault happens |
| `CustodyProofs` | that no notification is stranded, unless one of six named faults happens |
| `Items` | one item: validation, the table's CHECK, rendering (`internal/domain`, `buildOutboundEnvelope`) |
| `CreateBatch` | create transactions and template requests (`handlers.go`, `notifications.go`, `template_handlers.go`) |
| `Listing` | a client that pages (`ListNotifications`, `Store.List`) |
| `Intake` | the composition of these three, and its properties |
| `Registry` | the abstract specification: what a client may rely on for its keys |
| `MCIntake` | `Intake` with the requests, templates and queries TLC uses |
| `IntakeProofs` | theorems about `Intake` |
| `ListingProofs` | that paging skips and repeats nothing |
| `StatusHub` | `ConsumeStatus`, `WSHub` and its clients (`ws.go`) |
| `MCStatusHub` | `StatusHub` with the connections and events TLC uses |
| `StatusHubProofs` | the type invariant of `StatusHub` and the membership of its maps |
| `HubOrderProofs` | the order and the completeness of what each client hears |

`Deployment <- Store, Broker <- ApiServer, Runner, Worker <- NotifyStream` and
`Items <- CreateBatch <- Listing <- Intake`, by EXTENDS. `NotifyStream`
instantiates `Lifecycle` (as `Promise`) with `status`, `accepted` and `events`
mapped to themselves. `Intake` instantiates `Registry` (as `Promised`): `asked` is
the keys of the request's items, `answer` what `rpc` and `results` amount to for
the client, `rows` the committed rows. Where `Intake` ends, at a committed row,
`NotifyStream` begins (`ApiServer.CreateNotifications` makes one row); where
`NotifyStream` publishes an event, `StatusHub` begins (`Stream`).

## How the model maps to the code

The grain is the *call*: one action is one call to the database, the broker, the
limiter or the provider together with the decision taken on its result, which
is where goroutines and processes can interleave. A statement of the database is
atomic; a statement that meets a row locked by another transaction waits, which
is the action not being enabled (`RowFree`).

* **Store.** `status`, `sched`, `outbox` are the columns the code decides on.
  `sched` is `scheduled_at` against the clock: none, already past at creation,
  in the future, due by now. `rowLock[r]` and `outboxLock[r]` are the row that
  replica `r`'s open transaction holds. Each guarded UPDATE is a pair: `MarkQueued`
  (one row affected) and `MarkQueuedFails` (none), and so on. `INSERT INTO
  outbox` takes a key-share lock on the notification it references, so it waits
  for a due-time transaction too.
* **Broker.** `ready[<<n, r>>]` counts the ready copies of `n`'s message with
  `x-retry-count` `r`; the queue is a bag, so every order of delivery is
  explored and priorities need no model. A delivery is not in `ready` while a
  consumer holds it. `bus` is the set of processes whose connection is up.
  A publish has three outcomes: taken, refused (no channel), and, since the
  channel is not in confirm mode, accepted locally and lost with the connection.
  `Consume` opens a channel of its own, so a worker whose publish channel is closed
  still gets deliveries: `PublishChannelFails` is a republish or an event that fails,
  or is lost, in that state. A process that only publishes is as without a connection.
* **ApiServer.** The loop after the commit treats its rows one at a time and
  independently, so the handler's frame is a program counter per notification,
  `apc[n]`; a batch's rows are thereby allowed in any order, which includes the
  code's. `CreateCallFails` is each `continue` branch; a failed call may have
  taken effect.
* **Runner.** What a transaction writes is visible at its commit, so the UPDATEs
  and the commit are one action, and the publish before them another: between
  the two lies the window in which the process may die or the commit fail. The
  relay reads the notification outside its transaction; the action decides its
  branch on that value and later acts on whatever the row has become. A crash
  releases both locks. The tickers' intervals and the limit of rows per tick are
  time, and left out.
* **Worker.** `wpc[c]` walks through `handleDelivery`; `note[c]` and `retry[c]`
  are the delivery. `stop[c]` is the process's cancelled context: calls that use
  it may or do then fail; the calls on a context of their own (`MarkDelivered`,
  the release, the status event) do not. A return value of the handler becomes
  `ack`, `drop` (Nack without requeue: to the dead-letter queue) or `requeue`,
  performed by `Settle` on the connection, if there still is one.
  `posts` and `accepted` record what the provider saw; a transient failure may
  or may not have been accepted. The thirty attempts of `markDeliveredWithRetry`
  are one action that is enabled whenever an attempt succeeds and whenever one
  fails, which allows the interleavings the loop allows.

Faults are named and budgeted: `Faults` is the set of kinds a deployment is
exposed to, `MaxFaults` how many may happen. A run states a property for the
faults under which it is meant to hold.

* **Items.** An item is a record of what the code distinguishes: whether a field is
  acceptable, how long the first line and the rest of the content are, which
  variables the payload binds. `Fits` has the code's numbers, which TLC meets at
  their boundaries. A text is never rendered; what matters is whether it can be,
  and from what.
* **CreateBatch.** One action is one statement. What a transaction inserted is
  derived from its results so far (`Fresh`); a statement whose key another open
  transaction has inserted is not enabled (`Waits`), as the unique index makes it
  wait, and when both wait PostgreSQL aborts one (`DeadlockVictim`). An INSERT
  that finds its key taken (`InsertConflicts`) and the SELECT after it
  (`FindByIdempotencyKey`) are two actions, with others' commits and aborts between
  them; `taken` is who is there. `CommitFails` answers 500
  whether or not the server committed. A request's transaction is released by
  the deferred Rollback in every branch, which is `InFlight` ending.
* **Listing.** Rows come from `CreateBatch` with the start of their transaction as
  `created_at`; `IdOrder` is how their random ids compare; `StatusMoves` stands for
  the rest of the system. The client asks for pages until it is given no cursor.
* **StatusHub.** `subs` is both maps, an absent inner map being an empty one. The
  goroutine of `run` is the record `hub`: it reads the inner map under the lock
  (`ReadInnerMap`), then produces an entry (`NextConn`) and writes to it
  (`WriteMessage`), one step each, with no lock. `left` and `maybe` are Go's rules
  for a map changed during a range: an entry removed before it is reached is not
  produced, one added may be. `shared` records that the map walked is still the one
  in the hub: `removeConn` drops a map it empties, and a later `addNotif` makes a
  new one that the walk does not see. Two goroutines that touch the map at the same
  moment may also end the process (`ConcurrentMapAccess`). `WriteMessage` blocks
  while its client does not read; the server sets no deadline.

Simplifications. One channel (sms, email, push share nothing the properties
mention). A notification whose rendering is a permanent error is a member of the
constant `Unrenderable`: templates and payloads never change. Redis is a limiter
that may fail. Ticks and back-offs have no duration: they end at some
time. The database keeps what it committed. A consumer's channel that closes while
its process can still publish is left out: only the reverse, and the loss of both.

## Properties

| Property | Says |
| --- | --- |
| `TypeOK` | types, and the coupling of program counters with the locks and deliveries they stand for |
| `LifecycleImplemented` | seen by a client, the system is a behaviour of `Lifecycle`: terminal is final, pending never returns, only pending or queued is cancelled, delivered follows acceptance, the delivered event follows the row |
| `Custody` | while a row is not terminal, some message, delivery, handler, outbox entry or schedule will still take it further |
| `AckSettled` | a delivery is acknowledged only when its row is past pending and queued |
| `NoPostAfterCancel` | no provider call for a notification whose cancellation was confirmed |
| `PostsBounded` | provider calls are bounded by the retry count per message published and per fault |
| `PublishedOnce` | one publication however many schedulers run, plus at most one per fault |
| `ClaimedRowStaysPending` | a claimed row stays pending, due and its claimer's until the commit |
| `DeadLettersSettled` | nothing in the dead-letter queue is still waiting to be sent |
| `AnnouncedIsSettled` | an outcome is announced only of a notification that has ended |
| `EventuallyTerminal` | every notification ends delivered, failed or cancelled |
| `OutboxDrains` | every outbox entry is closed |
| `DeliveryAnnounced` | every delivery is announced on the status stream |
| `NoDuplicatePublish` | what README claims of a single scheduler (violated) |

Of `Intake`:

| Property | Says |
| --- | --- |
| `TypeOK` | types, and that no row of a transaction is visible before its end |
| `RegistryImplemented` | concurrent create transactions are a behaviour of `Registry`: each takes effect at once or not at all, a key has one row, and every answer names it |
| `AcceptedCanBeSent` | validation, the table's CHECK and the worker agree: a committed row has content, or a template and a payload |
| `RequestsAnswered` | a request that reached the database is answered, deadlocks included |
| `ListingComplete` | a client that pages to the end saw every row that matched all along, and no row twice (for a limit within the cap) |
| `CursorMeansMore` | what EXAMPLES.md claims of a cursor (violated) |

Of `StatusHub`:

| Property | Says |
| --- | --- |
| `HeardInOrder` | a client gets only what it asked for, in the order of publication, one copy per id at most |
| `StayingClientHears` | a client that stays misses nothing that went through the channel after it was registered, whoever else comes and goes |
| `Registered` | no dead connection is kept and no live one forgotten |
| `QueueDrains` | the consumer takes every event off the process's queue, whichever client blocks the hub and for however long |
| `ChannelDrains` | if no connected client stops reading for good, everything in the channel is written |

## Runs

The first nine check `MCNotifyStream`. States are distinct states.

| Run | Deployment | Checks | Shows |
| --- | --- | --- | --- |
| `any_fault` | 2 schedulers, 2 workers, 1 notification, any 2 faults of all eleven kinds; 1.1 M | `TypeOK`, `PostsBounded`, `PublishedOnce`, `ClaimedRowStaysPending`, `LifecycleImplemented` | what holds whatever fails |
| `tolerant` | the same, 2 faults out of lost API or scheduler connection, limiter error, scheduler or worker crash; 364 k | `Custody`, `AckSettled`, `DeadLettersSettled`, `AnnouncedIsSettled`, `NoPostAfterCancel` | what holds under the failures the code recovers from |
| `failover` | the same, 1 fault of these but the scheduler's connection, fair; 86 k | `EventuallyTerminal`, `OutboxDrains` | the spare worker and scheduler finish the work |
| `shared` | 1 scheduler, 1 worker, 2 notifications, one unrenderable, no fault, fair; 58 k | `EventuallyTerminal`, `DeliveryAnnounced` | sharing a queue and a worker starves nobody |
| `aborted_create` | 1 aborted request | `Custody`: violated | the rest of the create handler is skipped and the row is stranded |
| `sending_error` | 1 database error | `AckSettled`: violated | an error of `MarkSending` is taken for a conflict and the delivery acknowledged |
| `shutdown` | 1 SIGTERM | `DeadLettersSettled`: violated | a delivery received after SIGTERM is dead-lettered |
| `lost_connection` | lost API and scheduler connection, fair | `OutboxDrains`: violated | nothing dials the broker again |
| `past_schedule` | no fault | `NoDuplicatePublish`: violated | a past `scheduled_at` is published by the API and by the scheduler |
| `hub` (`MCStatusHub`) | 3 events about 2 notifications, one in a batch; 2 connections, one subscribed to both ids; capacity 1; 1 stall; fair; 558 k | `HeardInOrder`, `StayingClientHears`, `Registered`, `QueueDrains`, `ChannelDrains` | joining, leaving and stalling in the middle of a walk disturbs nobody who stays |
| `intake` (`MCIntake`) | 2 requests of up to 2 items, 2 keys, 1 template name, 1 listing client; fair; 606 k | `TypeOK`, `RegistryImplemented`, `AcceptedCanBeSent`, `ListingComplete`, `RequestsAnswered` | create transactions and listing under every interleaving |
| `list_end` (`MCIntake`) | the same | `CursorMeansMore`: violated | a full last page comes with a cursor to nothing |

The six violations are disagreements of code and documentation; `PROJECT.json`
quotes both sides under `findings`.

**Why these bounds.** Notifications interact only through the shared worker,
scheduler and queue; rows, locks and messages of different ones never mix. One
notification therefore shows every race on a row, and two (`shared`) the
competition for processes. Two schedulers and two workers make every pair of
competing claimers and every pair of copies in flight; a third actor would have
to matter only in the presence of both others. Two faults allow a fault during
the recovery from another. `MaxRetries = 1` (5 in the code) has a first attempt,
a retry and an exhausted count. Deadlock is not checked: when every notification
is terminal the system stops, and a process that lost its connection waits.
Symmetry of schedulers and of workers is used in the two safety runs only, never
with the liveness properties.

In `hub` a capacity of 1 makes the channel full as soon as one event waits, three
events let one be walked, one wait and one be dropped, and two connections let one
join, leave or stall while the walk is at the other; the one subscribed under both
ids is reached twice by an event. In `intake` the two requests insert the same two
keys in the same and in opposite orders, one key twice, and items of every kind
that validation, the CHECK or the foreign key refuses; two rows of one request
share their time, and two requests may share theirs. Of the two
queries one has a page of exactly the cap and filters by status and time, the other
a limit above the cap.
In both, a finished system stops, so deadlock is not checked; a wait of requests
for each other would violate `RequestsAnswered`.

## Fairness

`FairSpec` gives weak fairness to each handler past its commit, to each loop of
each scheduler, to each consumer, and to time (`ScheduleFallsDue`). The code
justifies it: the handler runs on its own goroutine, the loops run on tickers
until their process ends, `Consume` selects on its deliveries, and an enabled
step of each of them needs nothing from anyone else. Creation, cancellation,
faults and *restarts* are not fair: nobody has to send a request, and nothing in
the repository restarts a process. In particular `EventuallyTerminal` after a
crash rests on the spare replica and not on a restart. A row lock is held for
two steps of a fair loop, and a scheduler with a connection claims a row only
once before it is queued, so an UPDATE that waits for the lock is soon enabled
for good and weak fairness is enough. A scheduler without a connection claims and
releases the same row for ever; the liveness runs that pass have none.

In `Intake` each request in its transaction is fair (`RequestStep`): its goroutine
goes on, a statement returns once nobody holds its key, and PostgreSQL's deadlock
detector ends a cycle. Aborts, new requests and the listing client are not fair. In
`StatusHub` the dispatch, the hub's goroutine and each connection's handler are
fair; the last includes the end of `ReadMessage` on a dead connection, which TCP
keep-alive (on by default in `net/http`) brings about. Publishers, clients and the
consumer's connection promise nothing; `ChannelDrains` states what it needs of the
clients as its hypothesis, and `QueueDrains` needs nothing of them.

## Proofs

`NotifyStreamProofs` holds, for every `Notifs`, `Runners`, `Consumers`,
`MaxRetries`, `Faults` and `MaxFaults`, finite or not:

* `TypeCorrect == Spec => []TypeOK`. `TypeOK` is inductive as it stands because
  it ties a transaction's program counter to its lock and a delivery's to its
  notification: without that, `PublishOutboxEntry` would enqueue a message for
  `None`, and `backoff` could raise the count beyond `MaxRetries`.
* `ClaimsHold == Spec => []ClaimedRowStaysPending`. Inductive together with
  `TypeOK`. The argument is that each UPDATE outside a due-time transaction waits
  for the row (`UpdateSparesClaimed`), that a claim skips claimed rows, and that
  a schedule never stops being due.
* `LifecycleHolds == Spec => LifecycleImplemented`, the refinement. It needs two
  invariants that appear nowhere else: `KnownRows` (whatever names a notification
  names one that was created; otherwise the provider could be asked about, or an
  event published for, a row that does not exist) and `AcceptedOutcome` (a worker
  at `deliver` holds an acceptance, one at `emitDelivered` a delivered row; this
  is what makes the order of `handleDelivery`'s calls right). Both are shown to
  survive a step *by way of the refinement*: a step that `Lifecycle` allows never
  forgets a row, an acceptance or a delivered status (`PromiseMonotone`), so only
  the moves of references are left to check.

They use one assumption, `DeploymentAssumption` in `Deployment`: the process sets
are disjoint, `None` is no process and no notification, and the bounds are
natural numbers. TLC evaluates it in every run.

`ToleranceProofs` has four theorems that some faults make false, each with exactly
these faults left out:

| Theorem | Holds unless |
| --- | --- |
| `AckSettledHolds`, `DeadLettersSettledHolds` | a database call fails, or a worker is told to stop or goes on without its connection or its publish channel (`Tolerated`) |
| `AnnouncedIsSettledHolds` | a database call fails or a worker is told to stop (`Answered`) |
| `NoPostAfterCancelHolds` | a worker is told to stop or goes on without its connection or its publish channel (`Attached`) |

Every other fault may happen any number of times: crashes, limiter errors, lost
connections of publishers, aborted requests, unconfirmed publishes. No assumption
can be dropped: with that one kind as the `Faults` of `Tolerant.cfg`, TLC finds a
counterexample (two of these are the runs `sending_error` and `shutdown`). The
argument is one invariant, `Settled`, with `WorkerKnows` at its core: where every
worker is attached none ever releases a row (the only ways into `release` are a
publish that fails and a shutdown), so a row that has been sending is never queued, and
so never cancelled, again; every worker between its `MarkSending` and its settlement
therefore knows that its row is sending or has ended, however many copies of the
message the others hold. Where calls are answered as well, the result of each call
tells what the settlement or the announcement after it needs.

`PublishProofs` proves `PublishedOnceHolds`, under any faults. A claim, a publish
and a commit are three steps, so the bound alone is not inductive. `OnceInv` adds
which route a notification is on (`Route`: the create handler, then the outbox; or
the schedule, and never two of them unless it was due at its creation), that an
entry is in one relay's transaction (`EntriesClaimedOnce`), and a credit (`Counted`):
whoever may still publish `n` finds it published at most as often as there were
faults. A publish spends the credit, a commit closes the route, and a fault between
the two pays for the repetition.

It also proves `PostsBoundedHolds`, under any faults. The bound says nothing of the
messages still queued or held, so the invariant `Covered` adds what they may yet
cost: `Copies(n)` has an element for each call that each copy on the queue may lead
to, `Held(n)` one for each call that each delivery in progress may lead to, and these
and the calls made are at most `(MaxRetries + 1)` per publish and fault. The
elements are counted with the theorems on finite cardinalities, since a sum over
all consumers would need induction. Three facts about the code are in `Left`: a
message raises its count when it is sent again, and only then (`backoff`); a release
after a lost connection costs nothing, since the broker has taken the delivery back
already and the Nack is lost; and a release after a SIGTERM gives back a delivery
that has been posted with its count as it was, one call that the SIGTERM pays for,
once, since that worker posts nothing after its release (`Late`), and a release for
want of a publish channel is one call more that its fault pays for. `CallsBoundedHolds` puts the two
together: a notification not due at its creation is posted `MaxRetries + 1` times at
most where nothing fails, and twice that more for each fault.

`CustodyProofs` proves `CustodyHolds` where there is also no aborted request and no
vanished publish (`Kept`), which are what `tolerant` leaves out; here too each of the
six faults alone is enough to strand a notification. The
argument has two halves. Once in hand, in the queue or with a worker, a notification
is so until it ends (`InHandStays`): every step of `handleDelivery` and of
`Consume` that gives the delivery up has put a message back, sent another, or found
the row ended, the last by `Settled`. Before that it is waiting, and each route leaves
`Waiting` only by a publish: whoever is about to write `queued` has published
(`CustodyAt`), and an entry is closed unpublished only when its row has left pending.

`IntakeProofs` proves, for every set of requests, items, keys, templates, queries
and orders of ids: `IntakeTypeCorrect`, `AcceptedHolds` and the
refinement `RegistryHolds`. Two facts carry the refinement. `OneLiveRow`: among the
committed rows *and* those inserted by transactions still open, a key has one row;
the rows of open transactions must be counted because a wait only looks at them,
and the commit step then adds nothing that clashes. `Named`: every row an open
transaction would answer with exists and has the item's key, which survives other
requests' steps because rows are never removed.

`ListingProofs` proves `ListingCompleteHolds` for every table, order of the ids,
query and cap. The order of a listing is total (`OrderIsTotal`), because ids are
distinct and break ties between the rows of one transaction; so a page is the first
rows of what lies behind the cursor (`PageIsListed`, from `ListOrder`: row i of a
listing has i - 1 rows before it). The invariant says that what was seen is in that
order (`SeenInOrder`, hence nothing twice) and that the cursor separates
it from what is still to come (`CursorSeparates`): each row of the first page's table
that matches was seen or lies behind the cursor. A row committed later may appear on
either side, which is why the property only speaks of the rows that were there; one
that leaves the filter may be missed. `EndReached` needs the limit within the cap,
since only then a page without a cursor is the last.

`StatusHubProofs` proves `RegisteredHolds` for every set of
connections and ids, every filter and capacity, and every stream, together with the
type invariant the rest needs (`HubTypeCorrect`). `Registered` is
inductive as `Membership`, which says in which maps a connection is at *each* point
of its handler; the walk's coupling (`HubKnows` and the last conjunct of `TypeOK`)
needs that a walk whose map was dropped produces nothing more.

`HubOrderProofs` proves `HeardInOrderHolds` and `StayingClientHearsHolds` on top of
it. `InTransit` follows the events from the exchange to the hub: the queue and the
channel are increasing, each is behind the other, and what came before the hub's
event and is in neither was lost, for everybody. `Walks` says what a walk in progress
may still produce. `Told` is the count: for each client, the copies of the hub's event
it got and those still ahead of it (`Ahead`: the ids whose map has not been walked, or
is being walked and has the client still to come) are together at most the ids it
asked for, and exactly these if it subscribed before the event and stays. Each step
of the walk moves one id from the one to the other; when the walk is over nothing is
ahead and the count is the property. Equality needs `Membership`: only because a client
in its read loop is in the map of each of its ids, whatever maps others empty and drop
meanwhile, does the walk over a map, or its absence, say something about the client.

The assumptions are the named ones in the modules that declare the constants
(`DeploymentAssumption`, `ItemsAssumption`, `CreateAssumption`,
`ListingAssumption`, `HubAssumption`); TLC evaluates each in the runs.
`ListingAssumption` says that ids are distinct (the primary key) and limits positive
(the handler refuses others). Each inductive invariant was checked by TLC on the
instances of the runs before it was proved.

Every invariant and action property of the passing runs is a theorem, where those of
`tolerant` hold for the faults named above. Left to TLC for good: liveness under
fairness and `ENABLED`, which the prover does not reason about (`EventuallyTerminal`,
`OutboxDrains`, `DeliveryAnnounced`, `RequestsAnswered`, `QueueDrains`, `ChannelDrains`); likewise any
result that needs induction over data, and RECURSIVE operators, of which these
modules have none.

## Limits of the tolerance

`tolerant` leaves out the faults under which its properties do not hold. These
are facts about the code, found by the same model with one fault each:

* *A publish that returns nil and is lost* breaks `Custody`: the row is marked
  queued, and no component looks for queued rows without a message.
* *A worker's lost connection, with two workers,* breaks `Custody`, `AckSettled`,
  `DeadLettersSettled` and `NoPostAfterCancel`: the broker redelivers while the first handler goes on; its
  back-off ends by releasing the row to queued under the second worker's feet,
  which is then cancelled just before the second worker's call, or not in
  sending after its 2xx.
* *A worker's publish channel closed by the broker, with its consumer's channel left
  open,* breaks the same four. A republish written before the worker hears of it is
  lost and its delivery acknowledged (`Custody`); one that fails releases the row
  while other copies are about. It also undoes the retry limit: the release requeues
  the message with its count unchanged, so as long as the channel stays closed, and
  nothing opens another, a notification whose provider call fails transiently is sent
  again and again. In the model each such attempt is a fault of its own, which is how
  `PostsBounded` counts it.
* *A database error* breaks `AckSettled` and `Custody` (`sending_error`), `LoadFails`
  dead-letters a live notification, and a failure is announced of a row `MarkFailed`
  did not reach; *a SIGTERM* does all of this too (`shutdown`), and its release lets a
  posted row be cancelled (`NoPostAfterCancel`).
* *Without any fault*, a permanent failure racing a cancellation announces
  `failed` for a cancelled row, because `MarkFailed`'s error is ignored.
  `Lifecycle` allows it (`AnnounceFailed`); the row has ended, if otherwise than
  announced (`AnnouncedIsSettled`).
* *A limiter error* on a redelivered or retried message requeues it with its row
  still sending, where OPERATIONS.md:13 says it reverts to queued. The delivery
  is not lost (`Custody` holds); it just cannot be cancelled meanwhile.
* `STUCK_SENDING_RECOVERY_SECONDS` reaches `handleDelivery` as a parameter that
  is never used; there is no recovery action to model.

And of the API's two sides:

* *A walk against an add or a removal* is a data race on the inner map. What the
  hub's clients see is right in every interleaving of steps, but Go's runtime ends
  the process when it notices the two at the same moment (`ConcurrentMapAccess`):
  `hub` shows what holds until then.
* *A client that stops reading* blocks the hub's only goroutine, since no write
  deadline is set; the channel fills and further events are dropped for everyone.
  `ChannelDrains` therefore assumes that such a client resumes or goes.
* *ConsumeStatus is not called again* once it has returned: the process goes on
  serving WebSocket clients that hear nothing.
* *A connection with both ids* gets the union of the two subscriptions, and an event
  that matches both twice. EXAMPLES.md:481 calls `batch_id` an "optional second
  filter".
* *A limit above 100* is accepted, cut to 100 rows, and answered without a cursor
  when there are more: the comparison is with the requested limit.
* *A commit whose outcome is unknown* is answered 500; if it had happened, its rows
  are never published by this handler (as in `aborted_create`), and a retry with the
  same keys finds them and publishes nothing.
* The length limits count bytes where the messages say characters, and a template
  may render to an empty text.

## Not modelled

* Which status code means which outcome (`Webhook.Post`) and the arithmetic of
  `retryBackoff`: the model lets every call have every outcome, after any time.
* `GetNotification` and `ListBatchNotifications`: one SELECT each, no state.
* Message priorities, prefetch and the three channels' separate queues: deliveries
  come in any order.
* Bodies that do not parse: nothing in the system publishes one.
* Router, logging, configuration, migrations, tracing, metrics
  and Swagger: no effect on a notification's state.
* Token arithmetic of the limiter: it is in libraries outside this repository.
* Ages and durations: hence not the 45 s of `markDeliveredWithRetry` or the age
  of a sending row.

## Plan

Done, in this order: `Deployment`, `Store`, `Broker`, `ApiServer`, `Runner`, `Worker`,
`Lifecycle`, `NotifyStream`; then `StatusHub`, `Items`, `CreateBatch`, `Listing`,
`Registry`, `Intake`; and the theorems listed under [proofs](#proofs).

Nothing of the safety part is left to prove. What could be added is detail: the three
channels of a worker process that share one shutdown, and the prefetch of a consumer.
