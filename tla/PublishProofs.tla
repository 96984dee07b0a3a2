---------------------------- MODULE PublishProofs ---------------------------
(***************************************************************************)
(* How often a notification is published and how often the provider is    *)
(* sent it, for any number of schedulers and workers, any retry limit and  *)
(* any faults: PublishedOnce and PostsBounded.  Neither is inductive.  A   *)
(* claim, a publish and its commit are three steps, and a second route     *)
(* (the create handler, the outbox, the due time) could come in between:   *)
(* the first strengthening says which route a notification is on, and that *)
(* whoever is about to publish it is owed that publish by a fault.  The    *)
(* second counts the calls the queued copies and the deliveries in         *)
(* progress may still lead to.                                             *)
(***************************************************************************)
EXTENDS NotifyStreamProofs, FiniteSetTheorems

-----------------------------------------------------------------------------
(* Publishing *)

\* The faults there have been.
Used == MaxFaults - faultsLeft

\* Some relay's, or due-time, transaction about n is at pc.
Relaying(n, pc) == \E r \in Runners : outboxLock[r] = n /\ rpc[r] = pc
Firing(n, pc) == \E r \in Runners : rowLock[r] = n /\ dpc[r] = pc

\* Who may publish n: the create handler before the relay, and neither of them
\* when it was to be sent later.
Route(n) ==
  /\ status[n] = "none" => apc[n] = "idle" /\ sched[n] = "none"
  /\ apc[n] # "done" => outbox[n] = "none"
  /\ sched[n] \in {"future", "due"} => apc[n] = "done" /\ outbox[n] = "none"
  /\ outbox[n] = "none" => \A r \in Runners : outboxLock[r] # n

\* SKIP LOCKED: an outbox entry is in one transaction at most.
EntriesClaimedOnce ==
  \A r, q \in Runners : outboxLock[r] \in Notifs /\ outboxLock[r] = outboxLock[q] => r = q

AtMost(n, k) == published[n] <= k

\* Published once and once more for each fault; whoever may still publish n has
\* a fault that accounts for it, or n has not been published at all.
Counted(n) ==
  /\ AtMost(n, 1 + Used)
  /\ sched[n] = "none" /\ apc[n] \in {"idle", "load", "publish", "outbox"} => AtMost(n, 0)
  /\ Relaying(n, "publish") \/ Firing(n, "publish") => AtMost(n, Used)
  /\ status[n] = "pending" /\ outbox[n] = "unpublished" /\ ~Relaying(n, "mark")
       => AtMost(n, Used)
  /\ status[n] = "pending" /\ sched[n] \in {"future", "due"} /\ ~Firing(n, "mark")
       => AtMost(n, Used)

OnceInv ==
  /\ EntriesClaimedOnce
  /\ \A n \in Notifs : Route(n) /\ (sched[n] # "past" => Counted(n))

-----------------------------------------------------------------------------
(* What the steps do to one notification. *)

\* A step that is not about n: its transactions stay where they are.
Apart(n) ==
  /\ sched'[n] = sched[n] /\ outbox'[n] = outbox[n]
  /\ published'[n] = published[n] /\ apc'[n] = apc[n]
  /\ faultsLeft' \in {faultsLeft, faultsLeft - 1}
  /\ \A r \in Runners : /\ (outboxLock'[r] = n) = (outboxLock[r] = n)
                        /\ outboxLock[r] = n => rpc'[r] = rpc[r]
                        /\ (rowLock'[r] = n) = (rowLock[r] = n)
                        /\ rowLock[r] = n => dpc'[r] = dpc[r]

LEMMA ApartCounted ==
  ASSUME TypeOK, PromiseStep, NEW n \in Notifs, Route(n), Counted(n), Apart(n)
  PROVE  Counted(n)'
<1>1. Used' \in {Used, Used + 1} /\ Used \in Nat /\ published[n] \in Nat
  <2>1. faultsLeft \in 0..MaxFaults /\ MaxFaults \in Nat /\ published[n] \in Nat
    BY DeploymentAssumption DEF TypeOK, BrokerTypeOK
  <2>2. faultsLeft' = faultsLeft \/ faultsLeft' = faultsLeft - 1
    BY DEF Apart
  <2>. QED
    BY <2>1, <2>2 DEF Used
<1>2. \A pc : Relaying(n, pc)' = Relaying(n, pc) /\ Firing(n, pc)' = Firing(n, pc)
  BY DEF Apart, Relaying, Firing
<1>3. status'[n] = "pending" => status[n] \in {"none", "pending"}
  BY FirstStatus
<1>4. AtMost(n, 1 + Used)' /\ (AtMost(n, Used) => AtMost(n, Used)')
  BY <1>1 DEF AtMost, Apart, Counted
<1>5. status[n] = "none" => outbox[n] = "none" /\ sched[n] = "none"
  BY DEF Route
<1>. QED
  BY <1>2, <1>3, <1>4, <1>5 DEF Counted, Apart, AtMost

\* A fault that publishes nothing pays for whatever is published again.
LEMMA FaultCounted ==
  ASSUME TypeOK, NEW n \in Notifs, Counted(n), faultsLeft' = faultsLeft - 1,
         sched'[n] = sched[n], published'[n] = published[n], apc'[n] \in {apc[n], "mark", "done"}
  PROVE  Counted(n)'
<1>1. Used' = Used + 1 /\ Used \in Nat /\ published[n] \in Nat
  <2>1. faultsLeft \in 0..MaxFaults /\ MaxFaults \in Nat /\ published[n] \in Nat
    BY DeploymentAssumption DEF TypeOK, BrokerTypeOK
  <2>. QED
    BY <2>1 DEF Used
<1>2. AtMost(n, Used)' /\ AtMost(n, 1 + Used)'
  BY <1>1 DEF AtMost, Counted
<1>3. sched'[n] = "none" /\ apc'[n] \in {"idle", "load", "publish", "outbox"} => AtMost(n, 0)'
  BY DEF AtMost, Counted
<1>. QED
  BY <1>2, <1>3 DEF Counted

-----------------------------------------------------------------------------
(* Each notification keeps to its route. *)

\* A step that writes neither the schedule, the entry nor the handler's place.
LEMMA RouteUntouched ==
  ASSUME TypeOK, PromiseStep, NEW n \in Notifs, Route(n), UNCHANGED <<sched, outbox, apc>>,
         \A r \in Runners : outboxLock'[r] # n \/ outboxLock[r] = n
  PROVE  Route(n)'
BY FirstStatus DEF Route

LEMMA ApiKeepsRoute ==
  ASSUME TypeOK, PromiseStep, NEW n \in Notifs, Route(n), ApiNext,
         UNCHANGED <<runnerVars, workerVars>>
  PROVE  Route(n)'
<1>0. status'[n] = "none" => status[n] = "none"
  BY FirstStatus
<1> USE DEF TypeOK, StoreTypeOK, storeVars, lockVars, ApiGoto
<1>1. ASSUME NEW m \in Notifs, CreateNotifications(m) PROVE Route(n)'
  <2>1. CASE m = n
    BY <1>1, <2>1 DEF CreateNotifications, InsertNotification, Route, Schedules
  <2>2. CASE m # n
    BY <1>0, <1>1, <2>2 DEF CreateNotifications, InsertNotification, Route, Schedules
  <2>. QED
    BY <2>1, <2>2
<1>2. ASSUME NEW m \in Notifs,
             LoadCreated(m) \/ PublishCreated(m) \/ MarkQueuedWithRetry(m)
      PROVE  Route(n)'
  BY <1>0, <1>2 DEF LoadCreated, PublishCreated, MarkQueuedWithRetry, Route
<1>3. ASSUME NEW m \in Notifs, EnqueueCreated(m) \/ CreateCallFails(m) PROVE Route(n)'
  BY <1>0, <1>3 DEF EnqueueCreated, CreateCallFails, EnqueueOutbox, Route
<1>4. ASSUME NEW m \in Notifs, CancelNotification(m) PROVE Route(n)'
  BY <1>4, RouteUntouched DEF CancelNotification
<1>5. ASSUME ApiLosesConnection PROVE Route(n)'
  BY <1>5, RouteUntouched DEF ApiLosesConnection
<1>. QED
  BY <1>1, <1>2, <1>3, <1>4, <1>5 DEF ApiNext, HandleCreated

LEMMA RunnerKeepsRoute ==
  ASSUME TypeOK, PromiseStep, NEW n \in Notifs, Route(n), RunnerNext,
         UNCHANGED <<apiVars, workerVars>>
  PROVE  Route(n)'
<1>0. status'[n] = "none" => status[n] = "none"
  BY FirstStatus
<1>1. UNCHANGED apc
  BY DEF apiVars
<1>2. None # n
  BY DeploymentAssumption
<1> USE DEF TypeOK, StoreTypeOK, storeVars, lockVars, ReleaseOutboxLock
<1>3. ASSUME NEW r \in Runners, ClaimOutboxEntry(r) PROVE Route(n)'
  BY <1>0, <1>1, <1>3 DEF ClaimOutboxEntry, ClaimOutboxBatch, Route
<1>4. ASSUME NEW r \in Runners, CommitOutboxEntry(r) \/ DrainOutboxEntry(r) \/ RelayCallFails(r)
      PROVE  Route(n)'
  <2>1. outbox' = outbox \/ outbox' = [outbox EXCEPT ![outboxLock[r]] = "published"]
    BY <1>4 DEF CommitOutboxEntry, DrainOutboxEntry, RelayCallFails, MarkOutboxPublished
  <2>2. UNCHANGED sched /\ outboxLock' = [outboxLock EXCEPT ![r] = None]
    BY <1>4 DEF CommitOutboxEntry, DrainOutboxEntry, RelayCallFails
  <2>. QED
    BY <1>0, <1>1, <1>2, <2>1, <2>2 DEF Route
<1>5. ASSUME NEW r \in Runners, PublishOutboxEntry(r) \/ RunnerCrash(r) PROVE Route(n)'
  BY <1>1, <1>2, <1>5, RouteUntouched DEF PublishOutboxEntry, RunnerCrash
<1>6. ASSUME NEW r \in Runners, DueStep(r) \/ DueCallFails(r) PROVE Route(n)'
  BY <1>1, <1>6, RouteUntouched DEF DueStep, ClaimDue, PublishDue, CommitDue, DueCallFails
<1>7. ASSUME NEW r \in Runners, RunnerLosesConnection(r) \/ RunnerStart(r) PROVE Route(n)'
  BY <1>1, <1>7, RouteUntouched DEF RunnerLosesConnection, RunnerStart
<1>8. ASSUME NEW m \in Notifs, ScheduleFallsDue(m) PROVE Route(n)'
  BY <1>0, <1>1, <1>8 DEF ScheduleFallsDue, Route
<1>. QED
  BY <1>3, <1>4, <1>5, <1>6, <1>7, <1>8 DEF RunnerNext, RelayStep

LEMMA RouteKept ==
  ASSUME TypeOK, PromiseStep, NEW n \in Notifs, Route(n), [Next]_vars
  PROVE  Route(n)'
<1>1. CASE WorkerNext /\ UNCHANGED <<apiVars, runnerVars>>
  BY <1>1, WorkerSpares, RouteUntouched DEF lockVars, TypeOK, StoreTypeOK
<1>2. CASE UNCHANGED vars
  BY <1>2, RouteUntouched DEF vars, storeVars, apiVars
<1>. QED
  BY <1>1, <1>2, ApiKeepsRoute, RunnerKeepsRoute DEF Next

\* Skipping locked entries keeps each with one transaction.
LEMMA EntriesKept ==
  ASSUME TypeOK, EntriesClaimedOnce, [Next]_vars
  PROVE  EntriesClaimedOnce'
<1>1. ASSUME \A r \in Runners : outboxLock'[r] \in {outboxLock[r], None} PROVE EntriesClaimedOnce'
  BY <1>1, DeploymentAssumption DEF EntriesClaimedOnce
<1>2. ASSUME NEW r \in Runners, ClaimOutboxEntry(r) PROVE EntriesClaimedOnce'
  BY <1>2 DEF ClaimOutboxEntry, ClaimOutboxBatch, EntriesClaimedOnce, TypeOK, StoreTypeOK
<1>3. CASE UNCHANGED outboxLock
  BY <1>1, <1>3
<1>4. CASE ApiNext
  BY <1>3, <1>4
  DEF ApiNext, HandleCreated, CreateNotifications, LoadCreated, PublishCreated,
      MarkQueuedWithRetry, EnqueueCreated, CreateCallFails, CancelNotification,
      ApiLosesConnection, storeVars, lockVars
<1>5. ASSUME NEW r \in Runners, RelayStep(r) \/ RelayCallFails(r) \/ RunnerCrash(r)
      PROVE  EntriesClaimedOnce'
  <2>1. ClaimOutboxEntry(r) \/ UNCHANGED outboxLock
          \/ outboxLock' = [outboxLock EXCEPT ![r] = None]
    BY <1>5
    DEF RelayStep, RelayCallFails, RunnerCrash, PublishOutboxEntry, CommitOutboxEntry,
        DrainOutboxEntry, ReleaseOutboxLock
  <2>. QED
    BY <1>1, <1>2, <2>1 DEF TypeOK, StoreTypeOK
<1>6. ASSUME NEW r \in Runners,
             DueStep(r) \/ DueCallFails(r) \/ RunnerLosesConnection(r) \/ RunnerStart(r)
      PROVE  EntriesClaimedOnce'
  BY <1>3, <1>6
  DEF DueStep, ClaimDue, PublishDue, CommitDue, DueCallFails, RunnerLosesConnection,
      RunnerStart, storeVars
<1>7. ASSUME NEW m \in Notifs, ScheduleFallsDue(m) PROVE EntriesClaimedOnce'
  BY <1>3, <1>7 DEF ScheduleFallsDue, lockVars
<1>8. CASE RunnerNext
  BY <1>5, <1>6, <1>7, <1>8 DEF RunnerNext
<1>9. CASE WorkerNext /\ UNCHANGED <<apiVars, runnerVars>>
  BY <1>3, <1>9, WorkerSpares DEF lockVars
<1>10. CASE UNCHANGED vars
  BY <1>3, <1>10 DEF vars, storeVars
<1>. QED
  BY <1>4, <1>8, <1>9, <1>10 DEF Next

-----------------------------------------------------------------------------
(* Each notification stays within its count. *)

\* A publish that a fault already accounts for leaves every later one allowed.
LEMMA OwedCounted ==
  ASSUME TypeOK, NEW n \in Notifs, NoFault, published'[n] = published[n], AtMost(n, Used),
         sched'[n] = "none" /\ apc'[n] \in {"idle", "load", "publish", "outbox"} => AtMost(n, 0)
  PROVE  Counted(n)'
<1>1. Used' = Used /\ Used \in Nat /\ published[n] \in Nat
  <2>1. faultsLeft \in 0..MaxFaults /\ MaxFaults \in Nat /\ published[n] \in Nat
    BY DeploymentAssumption DEF TypeOK, BrokerTypeOK
  <2>. QED
    BY <2>1 DEF Used, NoFault
<1>2. AtMost(n, Used)' /\ AtMost(n, 1 + Used)'
  BY <1>1 DEF AtMost
<1>3. sched'[n] = "none" /\ apc'[n] \in {"idle", "load", "publish", "outbox"} => AtMost(n, 0)'
  BY DEF AtMost
<1>. QED
  BY <1>2, <1>3 DEF Counted

\* A publish that was owed, and after which n is in no claim that may publish it.
LEMMA PublishedCounted ==
  ASSUME TypeOK, NEW n \in Notifs, AtMost(n, Used), NoFault, published'[n] = published[n] + 1,
         sched'[n] = "none" => apc'[n] \notin {"idle", "load", "publish", "outbox"},
         ~Relaying(n, "publish")', ~Firing(n, "publish")',
         outbox'[n] = "unpublished" => Relaying(n, "mark")',
         sched'[n] \in {"future", "due"} => Firing(n, "mark")'
  PROVE  Counted(n)'
<1>1. Used' = Used /\ Used \in Nat /\ published[n] \in Nat
  <2>1. faultsLeft \in 0..MaxFaults /\ MaxFaults \in Nat /\ published[n] \in Nat
    BY DeploymentAssumption DEF TypeOK, BrokerTypeOK
  <2>. QED
    BY <2>1 DEF Used, NoFault
<1>2. AtMost(n, 1 + Used)'
  BY <1>1 DEF AtMost
<1>. QED
  BY <1>2 DEF Counted

\* After a commit n is in no claim and no longer open to one.
LEMMA CommittedCounted ==
  ASSUME NEW n \in Notifs, Counted(n), NoFault, published'[n] = published[n],
         sched'[n] = "none" => apc'[n] \notin {"idle", "load", "publish", "outbox"},
         ~Relaying(n, "publish")', ~Firing(n, "publish")',
         status'[n] = "pending" => outbox'[n] # "unpublished" /\ sched'[n] \notin {"future", "due"}
  PROVE  Counted(n)'
<1>1. AtMost(n, 1 + Used)'
  BY DEF Counted, AtMost, Used, NoFault
<1>. QED
  BY <1>1 DEF Counted

\* A row that is not due is in no due-time transaction.
LEMMA NotDueUnclaimed ==
  ASSUME TypeOK, ClaimedRowStaysPending, NEW n \in Notifs,
         status[n] = "none" \/ sched[n] \in {"none", "future"}
  PROVE  \A r \in Runners : rowLock[r] # n
<1>1. \A r \in Runners : rowLock[r] = n => dpc[r] \in {"publish", "mark"}
  BY DeploymentAssumption DEF TypeOK, DueLabels
<1>. QED
  BY <1>1 DEF ClaimedRowStaysPending, Due

LEMMA ApiKeepsCount ==
  ASSUME TypeOK, ClaimedRowStaysPending, PromiseStep, NEW n \in Notifs, Route(n), Counted(n),
         sched[n] # "past", ApiNext, UNCHANGED <<runnerVars, workerVars>>
  PROVE  Counted(n)'
<1>0. UNCHANGED <<rpc, dpc>>
  BY DEF runnerVars
<1>1. /\ status \in [Notifs -> Statuses] /\ sched \in [Notifs -> Schedules]
      /\ outbox \in [Notifs -> {"none", "unpublished", "published"}]
      /\ published \in [Notifs -> Nat] /\ apc \in [Notifs -> ApiLabels]
  BY DEF TypeOK, StoreTypeOK, BrokerTypeOK
<1>2. apc[n] \notin {"idle", "done"} => sched[n] = "none" /\ outbox[n] = "none"
  BY <1>1 DEF Route, Schedules
<1>3. apc[n] \in {"load", "publish", "outbox"} => AtMost(n, 0) /\ AtMost(n, Used)
  <2>1. MaxFaults \in Nat /\ faultsLeft \in 0..MaxFaults /\ published[n] \in Nat
    BY <1>1, DeploymentAssumption DEF TypeOK
  <2>2. apc[n] \in {"load", "publish", "outbox"} => AtMost(n, 0)
    BY <1>2 DEF Counted
  <2>. QED
    BY <2>1, <2>2 DEF AtMost, Used
<1>4. ASSUME NEW m \in Notifs, CreateNotifications(m) PROVE Counted(n)'
  <2>1. CASE m = n
    <3>1. status[n] = "none" /\ apc[n] = "idle" /\ sched[n] = "none" /\ AtMost(n, 0)
      BY <1>4, <2>1 DEF CreateNotifications, InsertNotification, Route, Counted
    <3>2. MaxFaults \in Nat /\ faultsLeft \in 0..MaxFaults /\ published[n] \in Nat
      BY <1>1, DeploymentAssumption DEF TypeOK
    <3>3. AtMost(n, Used)
      BY <3>1, <3>2 DEF AtMost, Used
    <3>. QED
      BY <1>4, <3>1, <3>3, OwedCounted DEF CreateNotifications, brokerVars
  <2>2. CASE m # n
    <3>1. Apart(n)
      BY <1>0, <1>1, <1>4, <2>2
      DEF CreateNotifications, InsertNotification, ApiGoto, NoFault, brokerVars, lockVars, Apart
    <3>. QED
      BY <3>1, ApartCounted
  <2>. QED
    BY <2>1, <2>2
<1>5. ASSUME NEW m \in Notifs, m # n, HandleCreated(m) PROVE Counted(n)'
  <2>1. apc'[n] = apc[n]
    BY <1>1, <1>5
    DEF HandleCreated, LoadCreated, PublishCreated, MarkQueuedWithRetry, EnqueueCreated, ApiGoto
  <2>2. outbox'[n] = outbox[n] /\ UNCHANGED <<sched, lockVars>>
    BY <1>1, <1>5
    DEF HandleCreated, LoadCreated, PublishCreated, MarkQueuedWithRetry, EnqueueCreated,
        EnqueueOutbox, storeVars, lockVars
  <2>3. published'[n] = published[n] /\ faultsLeft' \in {faultsLeft, faultsLeft - 1}
    BY <1>1, <1>5
    DEF HandleCreated, LoadCreated, PublishCreated, MarkQueuedWithRetry, EnqueueCreated,
        PublishNotification, PublishFails, PublishVanishes, brokerVars, Fault, NoFault
  <2>. QED
    BY <1>0, <2>1, <2>2, <2>3, ApartCounted DEF Apart, lockVars
<1>6. CASE LoadCreated(n) \/ EnqueueCreated(n)
  <2>1. apc[n] \in {"load", "outbox"} /\ NoFault /\ UNCHANGED published
    BY <1>6 DEF LoadCreated, EnqueueCreated, ApiGoto, brokerVars
  <2>. QED
    BY <1>3, <2>1, OwedCounted
<1>7. CASE PublishCreated(n)
  <2>1. apc[n] = "publish" /\ UNCHANGED <<sched, outbox, lockVars>>
    BY <1>7 DEF PublishCreated, ApiGoto, storeVars, lockVars
  <2>2. CASE ApiGoto(n, "publish", "mark") /\ PublishNotification(Api, n) /\ NoFault
    <3>1. published'[n] = published[n] + 1 /\ apc'[n] = "mark"
      BY <1>1, <2>2 DEF PublishNotification, ApiGoto
    <3>2. ~Relaying(n, "publish")' /\ ~Firing(n, "publish")'
      BY <1>2, <2>1, NotDueUnclaimed DEF Relaying, Firing, lockVars, Route
    <3>. QED
      BY <1>2, <1>3, <2>1, <2>2, <3>1, <3>2, PublishedCounted
  <2>3. CASE ApiGoto(n, "publish", "outbox") /\ PublishFails(Api) /\ NoFault
    BY <1>3, <2>1, <2>3, OwedCounted DEF PublishFails, brokerVars
  <2>4. CASE ApiGoto(n, "publish", "mark") /\ PublishVanishes(Api) /\ Fault("unconfirmed")
    BY <1>1, <2>1, <2>4, FaultCounted DEF PublishVanishes, ApiGoto, Fault
  <2>. QED
    BY <1>7, <2>2, <2>3, <2>4 DEF PublishCreated
<1>8. CASE MarkQueuedWithRetry(n)
  <2>1. /\ apc[n] = "mark" /\ apc'[n] = "done" /\ NoFault
        /\ UNCHANGED <<sched, outbox, lockVars, published>>
    BY <1>1, <1>8 DEF MarkQueuedWithRetry, ApiGoto, brokerVars
  <2>2. ~Relaying(n, "publish")' /\ ~Firing(n, "publish")'
    BY <1>2, <2>1, NotDueUnclaimed DEF Relaying, Firing, lockVars, Route
  <2>. QED
    BY <1>2, <2>1, <2>2, CommittedCounted
<1>9. ASSUME NEW m \in Notifs, CreateCallFails(m) PROVE Counted(n)'
  <2>1. faultsLeft' = faultsLeft - 1 /\ UNCHANGED <<sched, published>>
    BY <1>9 DEF CreateCallFails, Fault, brokerVars
  <2>2. apc' = [apc EXCEPT ![m] = "done"]
    BY <1>9 DEF CreateCallFails, ApiGoto
  <2>. QED
    BY <1>1, <2>1, <2>2, FaultCounted
<1>10. ASSUME NEW m \in Notifs, CancelNotification(m) PROVE Counted(n)'
  BY <1>0, <1>10, ApartCounted DEF CancelNotification, Apart, NoFault, lockVars, brokerVars
<1>11. CASE ApiLosesConnection
  BY <1>11, FaultCounted DEF ApiLosesConnection, Fault, storeVars
<1>. QED
  BY <1>4, <1>5, <1>6, <1>7, <1>8, <1>9, <1>10, <1>11 DEF ApiNext, HandleCreated

\* The relay: n has no due time, and at most one transaction holds its entry.
LEMMA RelayKeepsCount ==
  ASSUME TypeOK, ClaimedRowStaysPending, EntriesClaimedOnce, PromiseStep, NEW n \in Notifs,
         Route(n), Counted(n), sched[n] # "past", NEW r \in Runners, RelayStep(r),
         UNCHANGED <<apiVars, workerVars>>
  PROVE  Counted(n)'
<1>0. UNCHANGED <<apc, sched, rowLock, dpc>>
  BY DEF RelayStep, ClaimOutboxEntry, PublishOutboxEntry, CommitOutboxEntry, DrainOutboxEntry,
         apiVars
<1>1. /\ status \in [Notifs -> Statuses] /\ sched \in [Notifs -> Schedules]
      /\ outbox \in [Notifs -> {"none", "unpublished", "published"}]
      /\ outboxLock \in [Runners -> Notifs \cup {None}] /\ None \notin Notifs
      /\ rpc \in [Runners -> RelayLabels] /\ published \in [Notifs -> Nat]
      /\ \A q \in Runners : outboxLock[q] = None <=> rpc[q] \in {"idle", "down"}
  BY DeploymentAssumption DEF TypeOK, StoreTypeOK, BrokerTypeOK
<1>2. outbox[n] # "none" => apc[n] = "done" /\ sched[n] = "none"
  BY <1>1 DEF Route, Schedules
<1>3. outbox[n] # "none" => ~Firing(n, "publish")'
  BY <1>0, <1>2, NotDueUnclaimed DEF Firing
<1>4. outboxLock[r] = n => \A q \in Runners \ {r} : outboxLock[q] # n
  BY DEF EntriesClaimedOnce
<1>5. outboxLock[r] = n => outbox[n] # "none"
  BY DEF Route
<1>6. CASE ClaimOutboxEntry(r)
  <2>1. PICK m \in Notifs :
          /\ ClaimOutboxBatch(m, r)
          /\ RelayGoto(r, "idle", IF status[m] # "pending" THEN "drain" ELSE "publish")
    BY <1>6 DEF ClaimOutboxEntry
  <2>2. NoFault /\ UNCHANGED <<status, outbox, published>>
    BY <1>6 DEF ClaimOutboxEntry, brokerVars
  <2>3. CASE m # n
    <3>1. Apart(n)
      BY <1>0, <1>1, <2>1, <2>2, <2>3 DEF ClaimOutboxBatch, RelayGoto, NoFault, Apart
    <3>. QED
      BY <3>1, ApartCounted
  <2>4. CASE m = n /\ status[n] = "pending"
    <3>1. outbox[n] = "unpublished" /\ ~Relaying(n, "mark")
      BY <2>1, <2>4 DEF ClaimOutboxBatch, Relaying
    <3>2. AtMost(n, Used)
      BY <2>4, <3>1 DEF Counted
    <3>. QED
      BY <1>0, <1>2, <2>2, <3>1, <3>2, OwedCounted
  <2>5. CASE m = n /\ status[n] # "pending"
    <3>1. outbox[n] # "none" /\ ~Relaying(n, "publish")'
      BY <1>1, <2>1, <2>5 DEF ClaimOutboxBatch, RelayGoto, Relaying
    <3>. QED
      BY <1>0, <1>2, <1>3, <2>2, <2>5, <3>1, CommittedCounted
  <2>. QED
    BY <2>3, <2>4, <2>5
<1>7. CASE PublishOutboxEntry(r)
  <2>1. UNCHANGED <<status, outbox>> /\ outboxLock[r] \in Notifs
    BY <1>1, <1>7 DEF PublishOutboxEntry, RelayGoto
  <2>2. CASE RelayGoto(r, "publish", "mark") /\ PublishNotification(r, outboxLock[r])
             /\ NoFault /\ UNCHANGED outboxLock
    <3>1. CASE outboxLock[r] = n
      <4>1. Relaying(n, "publish")
        BY <2>2, <3>1 DEF Relaying, RelayGoto
      <4>2. AtMost(n, Used)
        BY <4>1 DEF Counted
      <4>3. published'[n] = published[n] + 1
        BY <1>1, <2>2, <3>1 DEF PublishNotification
      <4>4. Relaying(n, "mark")' /\ ~Relaying(n, "publish")'
        BY <1>1, <1>4, <2>2, <3>1 DEF Relaying, RelayGoto
      <4>. QED
        BY <1>0, <1>2, <1>3, <1>5, <2>2, <3>1, <4>2, <4>3, <4>4, PublishedCounted
    <3>2. CASE outboxLock[r] # n
      <4>1. Apart(n)
        BY <1>0, <1>1, <2>1, <2>2, <3>2 DEF PublishNotification, RelayGoto, NoFault, Apart
      <4>. QED
        BY <4>1, ApartCounted
    <3>. QED
      BY <3>1, <3>2
  <2>3. CASE PublishVanishes(r) /\ Fault("unconfirmed")
    BY <1>0, <2>3, FaultCounted DEF PublishVanishes, Fault
  <2>4. CASE /\ RelayGoto(r, "publish", "idle") /\ PublishFails(r)
             /\ ReleaseOutboxLock(r) /\ NoFault
    <3>1. CASE outboxLock[r] = n
      <4>1. Relaying(n, "publish")
        BY <2>4, <3>1 DEF Relaying, RelayGoto
      <4>2. AtMost(n, Used) /\ UNCHANGED published
        BY <2>4, <4>1 DEF Counted, PublishFails, brokerVars
      <4>. QED
        BY <1>0, <1>2, <1>5, <2>4, <3>1, <4>2, OwedCounted
    <3>2. CASE outboxLock[r] # n
      <4>1. Apart(n)
        BY <1>0, <1>1, <2>1, <2>4, <3>2
        DEF PublishFails, brokerVars, RelayGoto, ReleaseOutboxLock, NoFault, Apart
      <4>. QED
        BY <4>1, ApartCounted
    <3>. QED
      BY <3>1, <3>2
  <2>. QED
    BY <1>7, <2>2, <2>3, <2>4 DEF PublishOutboxEntry
<1>8. CASE CommitOutboxEntry(r) \/ DrainOutboxEntry(r)
  <2>1. /\ NoFault /\ UNCHANGED published /\ outboxLock[r] \in Notifs
        /\ rpc' = [rpc EXCEPT ![r] = "idle"] /\ outboxLock' = [outboxLock EXCEPT ![r] = None]
    BY <1>1, <1>8
    DEF CommitOutboxEntry, DrainOutboxEntry, RelayGoto, ReleaseOutboxLock, brokerVars
  <2>2. CASE outboxLock[r] = n
    <3>1. ~Relaying(n, "publish")'
      BY <1>1, <1>4, <2>1, <2>2 DEF Relaying
    <3>2. status'[n] # "pending" \/ outbox'[n] = "published"
      BY <1>1, <1>8, <2>2
      DEF CommitOutboxEntry, DrainOutboxEntry, MarkQueued, MarkQueuedFails, Update, NoRows,
          MarkOutboxPublished
    <3>. QED
      BY <1>0, <1>2, <1>3, <1>5, <2>1, <2>2, <3>1, <3>2, CommittedCounted
  <2>3. CASE outboxLock[r] # n
    <3>1. outbox'[n] = outbox[n]
      BY <1>1, <1>8, <2>3 DEF CommitOutboxEntry, DrainOutboxEntry, MarkOutboxPublished
    <3>2. Apart(n)
      BY <1>0, <1>1, <2>1, <2>3, <3>1 DEF NoFault, Apart
    <3>. QED
      BY <3>2, ApartCounted
  <2>. QED
    BY <2>2, <2>3
<1>. QED
  BY <1>6, <1>7, <1>8 DEF RelayStep

\* The due-time loop: n has no entry, and its claim is one transaction's own.
LEMMA DueKeepsCount ==
  ASSUME TypeOK, ClaimedRowStaysPending, PromiseStep, NEW n \in Notifs,
         Route(n), Counted(n), sched[n] # "past", NEW r \in Runners, DueStep(r),
         UNCHANGED <<apiVars, workerVars>>
  PROVE  Counted(n)'
<1>0. UNCHANGED <<apc, sched, outbox, outboxLock, rpc>>
  BY DEF DueStep, ClaimDue, PublishDue, CommitDue, apiVars
<1>1. /\ status \in [Notifs -> Statuses] /\ sched \in [Notifs -> Schedules]
      /\ rowLock \in [Runners -> Notifs \cup {None}] /\ None \notin Notifs
      /\ dpc \in [Runners -> DueLabels] /\ published \in [Notifs -> Nat]
      /\ \A q \in Runners : rowLock[q] = None <=> dpc[q] \in {"idle", "down"}
  BY DeploymentAssumption DEF TypeOK, StoreTypeOK, BrokerTypeOK
<1>2. Due(n) => sched[n] = "due" /\ apc[n] = "done" /\ outbox[n] = "none"
  BY DEF Route, Due
<1>3. outbox[n] = "none" => ~Relaying(n, "publish")'
  BY <1>0 DEF Route, Relaying
<1>4. rowLock[r] = n => Due(n) /\ \A q \in Runners \ {r} : rowLock[q] # n
  BY <1>1 DEF ClaimedRowStaysPending, DueLabels
<1>5. CASE ClaimDue(r)
  <2>1. PICK m \in Notifs : ClaimDueScheduled(m, r)
    BY <1>5 DEF ClaimDue
  <2>2. NoFault /\ UNCHANGED published /\ DueGoto(r, "idle", "publish")
    BY <1>5 DEF ClaimDue, brokerVars
  <2>3. CASE m # n
    <3>1. Apart(n)
      BY <1>0, <1>1, <2>1, <2>2, <2>3 DEF ClaimDueScheduled, DueGoto, NoFault, Apart
    <3>. QED
      BY <3>1, ApartCounted
  <2>4. CASE m = n
    <3>1. status[n] = "pending" /\ Due(n) /\ ~Firing(n, "mark")
      BY <2>1, <2>4 DEF ClaimDueScheduled, Firing
    <3>2. AtMost(n, Used)
      BY <1>2, <3>1 DEF Counted
    <3>. QED
      BY <1>0, <1>2, <2>2, <3>1, <3>2, OwedCounted
  <2>. QED
    BY <2>3, <2>4
<1>6. CASE PublishDue(r)
  <2>1. rowLock[r] \in Notifs
    BY <1>1, <1>6 DEF PublishDue, DueGoto
  <2>2. CASE DueGoto(r, "publish", "mark") /\ PublishNotification(r, rowLock[r])
             /\ NoFault /\ UNCHANGED rowLock
    <3>1. CASE rowLock[r] = n
      <4>1. Firing(n, "publish")
        BY <2>2, <3>1 DEF Firing, DueGoto
      <4>2. AtMost(n, Used)
        BY <4>1 DEF Counted
      <4>3. published'[n] = published[n] + 1
        BY <1>1, <2>2, <3>1 DEF PublishNotification
      <4>4. Firing(n, "mark")' /\ ~Firing(n, "publish")'
        BY <1>1, <1>4, <2>2, <3>1 DEF Firing, DueGoto
      <4>. QED
        BY <1>0, <1>2, <1>3, <1>4, <2>2, <3>1, <4>2, <4>3, <4>4, PublishedCounted
    <3>2. CASE rowLock[r] # n
      <4>1. Apart(n)
        BY <1>0, <1>1, <2>1, <2>2, <3>2 DEF PublishNotification, DueGoto, NoFault, Apart
      <4>. QED
        BY <4>1, ApartCounted
    <3>. QED
      BY <3>1, <3>2
  <2>3. CASE PublishVanishes(r) /\ Fault("unconfirmed")
    BY <1>0, <2>3, FaultCounted DEF PublishVanishes, Fault
  <2>4. CASE DueGoto(r, "publish", "idle") /\ PublishFails(r) /\ ReleaseRowLock(r) /\ NoFault
    <3>1. CASE rowLock[r] = n
      <4>1. Firing(n, "publish")
        BY <2>4, <3>1 DEF Firing, DueGoto
      <4>2. AtMost(n, Used) /\ UNCHANGED published
        BY <2>4, <4>1 DEF Counted, PublishFails, brokerVars
      <4>. QED
        BY <1>0, <1>2, <1>4, <2>4, <3>1, <4>2, OwedCounted
    <3>2. CASE rowLock[r] # n
      <4>1. Apart(n)
        BY <1>0, <1>1, <2>1, <2>4, <3>2
        DEF PublishFails, brokerVars, DueGoto, ReleaseRowLock, NoFault, Apart
      <4>. QED
        BY <4>1, ApartCounted
    <3>. QED
      BY <3>1, <3>2
  <2>. QED
    BY <1>6, <2>2, <2>3, <2>4 DEF PublishDue
<1>7. CASE CommitDue(r)
  <2>1. /\ NoFault /\ UNCHANGED published /\ rowLock[r] \in Notifs
        /\ dpc' = [dpc EXCEPT ![r] = "idle"] /\ rowLock' = [rowLock EXCEPT ![r] = None]
    BY <1>1, <1>7 DEF CommitDue, DueGoto, ReleaseRowLock, brokerVars
  <2>2. CASE rowLock[r] = n
    <3>1. ~Firing(n, "publish")'
      BY <1>1, <1>4, <2>1, <2>2 DEF Firing
    <3>2. status'[n] # "pending"
      BY <1>1, <1>7, <2>2 DEF CommitDue, MarkQueued, Update
    <3>. QED
      BY <1>0, <1>2, <1>3, <1>4, <2>1, <2>2, <3>1, <3>2, CommittedCounted
  <2>3. CASE rowLock[r] # n
    <3>1. Apart(n)
      BY <1>0, <1>1, <2>1, <2>3 DEF NoFault, Apart
    <3>. QED
      BY <3>1, ApartCounted
  <2>. QED
    BY <2>2, <2>3
<1>. QED
  BY <1>5, <1>6, <1>7 DEF DueStep

LEMMA RunnerKeepsCount ==
  ASSUME TypeOK, ClaimedRowStaysPending, EntriesClaimedOnce, PromiseStep, NEW n \in Notifs,
         Route(n), Counted(n), sched[n] # "past", RunnerNext, UNCHANGED <<apiVars, workerVars>>
  PROVE  Counted(n)'
<1>0. UNCHANGED apc
  BY DEF apiVars
<1>1. ASSUME NEW r \in Runners,
             \/ RelayCallFails(r) \/ DueCallFails(r)
             \/ RunnerLosesConnection(r) \/ RunnerCrash(r)
      PROVE  Counted(n)'
  <2>1. faultsLeft' = faultsLeft - 1 /\ UNCHANGED <<sched, published>>
    BY <1>1
    DEF RelayCallFails, DueCallFails, RunnerLosesConnection, RunnerCrash, Fault, storeVars,
        brokerVars
  <2>. QED
    BY <1>0, <2>1, FaultCounted
<1>2. ASSUME NEW r \in Runners, RunnerStart(r) PROVE Counted(n)'
  <2>1. outboxLock[r] # n /\ rowLock[r] # n
    BY <1>2, DeploymentAssumption DEF RunnerStart, RelayGoto, DueGoto, TypeOK
  <2>2. Apart(n)
    BY <1>0, <1>2, <2>1
    DEF RunnerStart, RelayGoto, DueGoto, Connect, NoFault, storeVars, Apart, TypeOK
  <2>. QED
    BY <2>2, ApartCounted
<1>3. ASSUME NEW m \in Notifs, ScheduleFallsDue(m) PROVE Counted(n)'
  <2>1. /\ sched[m] = "future" /\ sched' = [sched EXCEPT ![m] = "due"] /\ NoFault
        /\ UNCHANGED <<status, outbox, lockVars, published, rpc, dpc>>
    BY <1>3 DEF ScheduleFallsDue, brokerVars, runnerVars
  <2>2. sched'[n] = sched[n] \/ (sched[n] = "future" /\ sched'[n] = "due")
    BY <2>1 DEF TypeOK, StoreTypeOK
  <2>. QED
    BY <1>0, <2>1, <2>2 DEF Counted, AtMost, Used, Relaying, Firing, NoFault, lockVars
<1>. QED
  BY <1>1, <1>2, <1>3, RelayKeepsCount, DueKeepsCount DEF RunnerNext

\* Nothing makes a notification scheduled in the past into another one.
LEMMA PastStays ==
  ASSUME TypeOK, NEW n \in Notifs, Route(n), sched[n] = "past", [Next]_vars
  PROVE  sched'[n] = "past"
<1>1. CASE ApiNext
  BY <1>1
  DEF ApiNext, HandleCreated, CreateNotifications, InsertNotification, LoadCreated,
      PublishCreated, MarkQueuedWithRetry, EnqueueCreated, CreateCallFails,
      CancelNotification, ApiLosesConnection, storeVars, Route, TypeOK, StoreTypeOK
<1>2. CASE RunnerNext
  BY <1>2
  DEF RunnerNext, RelayStep, DueStep, ClaimOutboxEntry, PublishOutboxEntry,
      CommitOutboxEntry, DrainOutboxEntry, RelayCallFails, ClaimDue, PublishDue, CommitDue,
      DueCallFails, RunnerLosesConnection, RunnerCrash, RunnerStart, ScheduleFallsDue,
      storeVars, TypeOK, StoreTypeOK
<1>3. CASE WorkerNext /\ UNCHANGED <<apiVars, runnerVars>>
  BY <1>3, WorkerSpares
<1>4. CASE UNCHANGED vars
  BY <1>4 DEF vars, storeVars
<1>. QED
  BY <1>1, <1>2, <1>3, <1>4 DEF Next

LEMMA CountedKept ==
  ASSUME TypeOK, ClaimedRowStaysPending, EntriesClaimedOnce, PromiseStep, NEW n \in Notifs,
         Route(n), Counted(n), sched[n] # "past", [Next]_vars
  PROVE  Counted(n)'
<1>1. CASE WorkerNext /\ UNCHANGED <<apiVars, runnerVars>>
  <2>1. Apart(n)
    BY <1>1, WorkerSpares DEF Apart, lockVars
  <2>. QED
    BY <2>1, ApartCounted
<1>2. CASE UNCHANGED vars
  <2>1. Apart(n)
    BY <1>2 DEF Apart, vars, storeVars, brokerVars, apiVars, runnerVars
  <2>. QED
    BY <2>1, ApartCounted
<1>. QED
  BY <1>1, <1>2, ApiKeepsCount, RunnerKeepsCount DEF Next

\* However many scheduler replicas claim, publish and commit at once, and
\* whatever fails between these steps (background.go, CreateNotifications), a
\* notification not due at its creation is published once, and once more at
\* most for each fault.
THEOREM PublishedOnceHolds == Spec => []PublishedOnce
<1>1. Init => OnceInv
  BY DeploymentAssumption
  DEF Init, InitStore, InitBroker, InitApi, InitRunner, OnceInv, EntriesClaimedOnce, Route,
      Counted, AtMost, Used, Relaying, Firing
<1>2. TypeOK /\ KnownRows /\ AcceptedOutcome /\ ClaimedRowStaysPending /\ OnceInv /\ [Next]_vars
        => OnceInv'
  <2> SUFFICES ASSUME TypeOK, KnownRows, AcceptedOutcome, ClaimedRowStaysPending, OnceInv,
                      [Next]_vars
               PROVE  OnceInv'
    OBVIOUS
  <2>1. PromiseStep
    BY StepPromised
  <2>2. EntriesClaimedOnce'
    BY EntriesKept DEF OnceInv
  <2>3. ASSUME NEW n \in Notifs PROVE Route(n)' /\ (sched'[n] # "past" => Counted(n)')
    <3>1. Route(n)'
      BY <2>1, RouteKept DEF OnceInv
    <3>2. sched'[n] # "past" => Counted(n)'
      BY <2>1, CountedKept, PastStays DEF OnceInv
    <3>. QED
      BY <3>1, <3>2
  <2>. QED
    BY <2>2, <2>3 DEF OnceInv
<1>3. OnceInv => PublishedOnce
  BY DEF OnceInv, Counted, AtMost, Used, PublishedOnce
<1>. QED
  BY <1>1, <1>2, <1>3, TypeCorrect, RowsAndOutcome, ClaimsHold, PTL DEF Spec

-----------------------------------------------------------------------------
(* Calls to the provider.  What n may still cost is pledged when a message  *)
(* for it is published or a fault happens, and each post, each copy on the  *)
(* queue and each delivery in progress draws on that credit.  The pledges   *)
(* are counted as elements of two sets, one pair for each call still open.  *)

\* The calls a message with count r may still lead to: r, r + 1, ... MaxRetries.
Yet(r) == MaxRetries + 1 - r

\* A consumer told to stop gives a delivery it has just posted back once.
Late(c) == IF stop[c] THEN 1 ELSE 0

\* The calls the delivery c holds may still lead to, if it is one of n.
Left(c, n) ==
  CASE note[c] = n /\ wpc[c] \in {"load", "limit", "send"} -> Yet(retry[c])
    [] note[c] = n /\ wpc[c] = "post" -> Yet(retry[c]) + Late(c)
    [] note[c] = n /\ wpc[c] = "backoff" -> Yet(retry[c] + 1) + Late(c)
    [] note[c] = n /\ wpc[c] \in {"release", "requeue"} /\ c \in bus -> Yet(retry[c])
    [] OTHER -> 0

Positive == Nat \ {0}
Copies(n) ==
  {t \in (Retries \X Positive) \X Positive :
     t[1][2] <= ready[<<n, t[1][1]>>] /\ t[2] <= Yet(t[1][1])}
Held(n) == {t \in Consumers \X Positive : t[2] <= Left(t[1], n)}
Credit(n) == (MaxRetries + 1) * (published[n] + MaxFaults - faultsLeft)

Covered(n) ==
  /\ IsFiniteSet(Copies(n))
  /\ IsFiniteSet(Held(n))
  /\ posts[n] + Cardinality(Copies(n)) + Cardinality(Held(n)) <= Credit(n)

\* What a set counts after part of it goes and something else comes.
LEMMA Exchange ==
  ASSUME NEW S, NEW T, NEW Gone, NEW Come,
         IsFiniteSet(S), Gone \subseteq S, IsFiniteSet(Come),
         T \subseteq (S \ Gone) \cup Come
  PROVE  /\ IsFiniteSet(T)
         /\ Cardinality(T) \in Nat
         /\ Cardinality(T) <= Cardinality(S) - Cardinality(Gone) + Cardinality(Come)
<1>1. IsFiniteSet(Gone) /\ IsFiniteSet(S \ Gone) /\ S \cap Gone = Gone
  BY FS_Subset, FS_Difference
<1>2. Cardinality(S \ Gone) = Cardinality(S) - Cardinality(Gone)
  BY <1>1, FS_Difference
<1>3. /\ IsFiniteSet((S \ Gone) \cup Come)
      /\ Cardinality((S \ Gone) \cup Come)
           = Cardinality(S \ Gone) + Cardinality(Come) - Cardinality((S \ Gone) \cap Come)
  BY <1>1, FS_Union
<1>4. IsFiniteSet((S \ Gone) \cap Come)
  BY <1>1, FS_Intersection
<1>5. IsFiniteSet(T) /\ Cardinality(T) <= Cardinality((S \ Gone) \cup Come)
  BY <1>3, FS_Subset
<1>6. /\ Cardinality(T) \in Nat /\ Cardinality(S) \in Nat /\ Cardinality(Gone) \in Nat
      /\ Cardinality(Come) \in Nat /\ Cardinality((S \ Gone) \cap Come) \in Nat
      /\ Cardinality(S \ Gone) \in Nat /\ Cardinality((S \ Gone) \cup Come) \in Nat
  BY <1>1, <1>3, <1>4, <1>5, FS_CardinalityType
<1>. QED
  BY <1>2, <1>3, <1>5, <1>6

\* One holder's pledges number what it may still cost.
LEMMA Column ==
  ASSUME NEW a, NEW k \in Nat
  PROVE  IsFiniteSet({a} \X (1..k)) /\ Cardinality({a} \X (1..k)) = k
<1>1. IsFiniteSet(1..k) /\ Cardinality(1..k) = k
  BY FS_Interval
<1>2. IsFiniteSet({a}) /\ Cardinality({a}) = 1
  BY FS_Singleton
<1>3. /\ IsFiniteSet({a} \X (1..k))
      /\ Cardinality({a} \X (1..k)) = Cardinality({a}) * Cardinality(1..k)
  BY <1>1, <1>2, FS_Product
<1>. QED
  BY <1>1, <1>2, <1>3

LEMMA YetType ==
  ASSUME NEW r \in Retries
  PROVE  Yet(r) \in Nat /\ Yet(r) <= MaxRetries + 1 /\ 0 \in Retries /\ Yet(0) = MaxRetries + 1
BY DeploymentAssumption DEF Retries, Yet

\* A copy is put on the queue, or taken off it.
LEMMA CopyAdded ==
  ASSUME ready \in [Notifs \X Retries -> Nat], NEW n \in Notifs, NEW m \in Notifs,
         NEW r \in Retries, IsFiniteSet(Copies(n)), Enqueue(m, r)
  PROVE  /\ IsFiniteSet(Copies(n)')
         /\ Cardinality(Copies(n)')
              <= Cardinality(Copies(n)) + (IF m = n THEN Yet(r) ELSE 0)
<1>1. CASE m # n
  <2>1. Copies(n)' = Copies(n)
    BY <1>1 DEF Copies, Enqueue, Yet
  <2>. QED
    BY <1>1, <2>1, FS_CardinalityType
<1>2. CASE m = n
  <2>1. PICK j : j = ready[<<n, r>>] + 1
    OBVIOUS
  <2>2. j \in Positive /\ Yet(r) \in Nat
    BY <2>1, YetType DEF Positive
  <2>3. Copies(n)' \subseteq (Copies(n) \ {}) \cup ({<<r, j>>} \X (1..Yet(r)))
    <3> SUFFICES ASSUME NEW q \in Retries, NEW i \in Positive, NEW x \in Positive,
                        <<<<q, i>>, x>> \in Copies(n)', <<<<q, i>>, x>> \notin Copies(n)
                 PROVE  q = r /\ i = j /\ x \in 1..Yet(r)
      BY DEF Copies
    <3>1. i <= ready'[<<n, q>>] /\ x <= Yet(q) /\ ~(i <= ready[<<n, q>>])
      BY DEF Copies, Yet
    <3>2. q = r
      BY <1>2, <3>1 DEF Enqueue
    <3>. QED
      BY <1>2, <2>1, <2>2, <3>1, <3>2 DEF Enqueue, Positive
  <2>4. /\ IsFiniteSet({<<r, j>>} \X (1..Yet(r)))
        /\ Cardinality({<<r, j>>} \X (1..Yet(r))) = Yet(r)
    BY <2>2, Column
  <2>5. Cardinality({}) = 0 /\ Cardinality(Copies(n)) \in Nat
    BY FS_EmptySet, FS_CardinalityType
  <2>6. PICK Gone, Come : Gone = {} /\ Come = {<<r, j>>} \X (1..Yet(r))
    OBVIOUS
  <2>7. /\ IsFiniteSet(Copies(n)')
        /\ Cardinality(Copies(n)') <= Cardinality(Copies(n)) - Cardinality(Gone) + Cardinality(Come)
    BY <2>3, <2>4, <2>6, Exchange
  <2>. QED
    BY <1>2, <2>2, <2>4, <2>5, <2>6, <2>7
<1>. QED
  BY <1>1, <1>2

LEMMA CopyTaken ==
  ASSUME ready \in [Notifs \X Retries -> Nat], NEW n \in Notifs, NEW m \in Notifs,
         NEW r \in Retries, IsFiniteSet(Copies(n)), Dequeue(m, r)
  PROVE  /\ IsFiniteSet(Copies(n)')
         /\ Cardinality(Copies(n)')
              <= Cardinality(Copies(n)) - (IF m = n THEN Yet(r) ELSE 0)
<1>1. CASE m # n
  <2>1. Copies(n)' = Copies(n)
    BY <1>1 DEF Copies, Dequeue, Yet
  <2>. QED
    BY <1>1, <2>1, FS_CardinalityType
<1>2. CASE m = n
  <2>1. PICK j : j = ready[<<n, r>>]
    OBVIOUS
  <2>2. j \in Positive /\ Yet(r) \in Nat
    BY <1>2, <2>1, YetType DEF Positive, Dequeue
  <2>3. PICK Gone : Gone = {<<r, j>>} \X (1..Yet(r))
    OBVIOUS
  <2>4. Gone \subseteq Copies(n)
    BY <2>1, <2>2, <2>3 DEF Copies, Positive
  <2>5. Copies(n)' \subseteq (Copies(n) \ Gone) \cup {}
    <3> SUFFICES ASSUME NEW q \in Retries, NEW i \in Positive, NEW x \in Positive,
                        <<<<q, i>>, x>> \in Copies(n)'
                 PROVE  <<<<q, i>>, x>> \in Copies(n) /\ <<<<q, i>>, x>> \notin Gone
      BY DEF Copies
    <3>1. i <= ready'[<<n, q>>] /\ x <= Yet(q)
      BY DEF Copies, Yet
    <3>2. ready'[<<n, q>>] = IF q = r THEN j - 1 ELSE ready[<<n, q>>]
      BY <1>2, <2>1 DEF Dequeue
    <3>3. ready[<<n, q>>] \in Nat /\ (q = r => i < j)
      BY <2>2, <3>1, <3>2 DEF Positive
    <3>4. i <= ready[<<n, q>>]
      BY <2>1, <2>2, <3>1, <3>2, <3>3 DEF Positive
    <3>. QED
      BY <2>2, <2>3, <3>1, <3>3, <3>4 DEF Copies, Positive
  <2>6. Cardinality(Gone) = Yet(r)
    BY <2>2, <2>3, Column
  <2>7. IsFiniteSet({}) /\ Cardinality({}) = 0 /\ Cardinality(Copies(n)) \in Nat
    BY FS_EmptySet, FS_CardinalityType
  <2>8. /\ IsFiniteSet(Copies(n)')
        /\ Cardinality(Copies(n)') <= Cardinality(Copies(n)) - Cardinality(Gone) + Cardinality({})
    BY <2>4, <2>5, <2>7, Exchange
  <2>. QED
    BY <1>2, <2>2, <2>6, <2>7, <2>8
<1>. QED
  BY <1>1, <1>2

-----------------------------------------------------------------------------
(* The deliveries in progress *)

LeftIsCount == \A c \in Consumers, n \in Notifs : Left(c, n) \in Nat

LEMMA LeftType == TypeOK => LeftIsCount
<1> SUFFICES ASSUME TypeOK, NEW c \in Consumers, NEW n \in Notifs
             PROVE  Left(c, n) \in Nat
  BY DEF LeftIsCount
<1>1. /\ retry[c] \in Retries /\ MaxRetries \in Nat
      /\ wpc[c] = "backoff" => retry[c] < MaxRetries
  BY DeploymentAssumption DEF TypeOK, WorkerTypeOK
<1>2. Yet(retry[c]) \in Nat /\ (wpc[c] = "backoff" => Yet(retry[c] + 1) \in Nat)
  BY <1>1 DEF Yet, Retries
<1>3. Late(c) \in Nat
  BY DEF Late
<1>. QED
  BY <1>2, <1>3 DEF Left

\* Only c's delivery moves.
LEMMA HeldMoves ==
  ASSUME TypeOK, TypeOK', NEW n \in Notifs, NEW c \in Consumers, IsFiniteSet(Held(n)),
         \A d \in Consumers \ {c} : Left(d, n)' = Left(d, n)
  PROVE  /\ IsFiniteSet(Held(n)')
         /\ Cardinality(Held(n)') \in Nat
         /\ Cardinality(Held(n)') <= Cardinality(Held(n)) - Left(c, n) + Left(c, n)'
<1>1. Left(c, n) \in Nat /\ Left(c, n)' \in Nat
  <2>1. LeftIsCount /\ LeftIsCount'
    BY LeftType, PTL
  <2>. QED
    BY <2>1 DEF LeftIsCount
<1>2. PICK Gone : Gone = {c} \X (1..Left(c, n))
  OBVIOUS
<1>3. PICK Come : Come = {c} \X (1..Left(c, n)')
  OBVIOUS
<1>4. Gone \subseteq Held(n)
  BY <1>1, <1>2 DEF Held, Positive
<1>5. Held(n)' \subseteq (Held(n) \ Gone) \cup Come
  <2> SUFFICES ASSUME NEW d \in Consumers, NEW x \in Positive, x <= Left(d, n)'
               PROVE  <<d, x>> \in (Held(n) \ Gone) \cup Come
    BY DEF Held
  <2>1. CASE d = c
    BY <1>1, <1>3, <2>1 DEF Positive
  <2>2. CASE d # c
    BY <1>2, <2>2 DEF Held
  <2>. QED
    BY <2>1, <2>2
<1>6. /\ Cardinality(Gone) = Left(c, n)
      /\ IsFiniteSet(Come) /\ Cardinality(Come) = Left(c, n)'
  BY <1>1, <1>2, <1>3, Column
<1>7. /\ IsFiniteSet(Held(n)') /\ Cardinality(Held(n)') \in Nat
      /\ Cardinality(Held(n)') <= Cardinality(Held(n)) - Cardinality(Gone) + Cardinality(Come)
  <2>1. PICK S, T : S = Held(n) /\ T = Held(n)'
    OBVIOUS
  <2>2. /\ IsFiniteSet(S) /\ Gone \subseteq S /\ IsFiniteSet(Come)
        /\ T \subseteq (S \ Gone) \cup Come
    BY <1>4, <1>5, <1>6, <2>1
  <2>3. /\ IsFiniteSet(T) /\ Cardinality(T) \in Nat
        /\ Cardinality(T) <= Cardinality(S) - Cardinality(Gone) + Cardinality(Come)
    BY <2>2, Exchange
  <2>. QED
    BY <2>1, <2>3
<1>. QED
  BY <1>6, <1>7

\* What a delivery may still cost depends on nobody else.
LEMMA LeftDepends ==
  ASSUME NEW c, NEW n,
         wpc'[c] = wpc[c], note'[c] = note[c], retry'[c] = retry[c], stop'[c] = stop[c],
         c \in bus' <=> c \in bus
  PROVE  Left(c, n)' = Left(c, n)
BY DEF Left, Late, Yet

-----------------------------------------------------------------------------
(* The credit *)

LEMMA CreditMoves ==
  ASSUME TypeOK, TypeOK', NEW n \in Notifs
  PROVE  /\ Credit(n) \in Int /\ Credit(n)' \in Int
         /\ published'[n] = published[n] /\ NoFault => Credit(n)' = Credit(n)
         /\ published'[n] = published[n] + 1 /\ NoFault =>
              Credit(n)' = Credit(n) + MaxRetries + 1
         /\ published'[n] = published[n] /\ faultsLeft' = faultsLeft - 1 =>
              Credit(n)' = Credit(n) + MaxRetries + 1
<1>1. /\ MaxRetries \in Nat /\ MaxFaults \in Nat
      /\ published[n] \in Nat /\ published'[n] \in Nat
      /\ faultsLeft \in Int /\ faultsLeft' \in Int
  BY DeploymentAssumption DEF TypeOK, BrokerTypeOK
<1>2. PICK k : k = MaxRetries + 1
  OBVIOUS
<1>3. PICK a : a = published[n] + MaxFaults - faultsLeft
  OBVIOUS
<1>4. PICK b : b = published'[n] + MaxFaults - faultsLeft'
  OBVIOUS
<1>5. Credit(n) = k * a /\ Credit(n)' = k * b
  BY <1>2, <1>3, <1>4 DEF Credit
<1>6. k \in Nat /\ a \in Int /\ b \in Int
  BY <1>1, <1>2, <1>3, <1>4
<1>7. k * a \in Int /\ k * b \in Int /\ (b = a + 1 => k * b = k * a + k)
  BY <1>6
<1>8. /\ published'[n] = published[n] /\ NoFault => a = b
      /\ published'[n] = published[n] + 1 /\ NoFault => b = a + 1
      /\ published'[n] = published[n] /\ faultsLeft' = faultsLeft - 1 => b = a + 1
  BY <1>1, <1>3, <1>4 DEF NoFault
<1>. QED
  BY <1>1, <1>2, <1>5, <1>7, <1>8

\* A step that leaves the queue alone, posts nothing and takes no call back.
LEMMA NothingSpent ==
  ASSUME TypeOK, TypeOK', NEW n \in Notifs, Covered(n),
         UNCHANGED <<ready, published, workerVars>>,
         NoFault \/ faultsLeft' = faultsLeft - 1,
         \A c \in Consumers : c \in bus' <=> c \in bus
  PROVE  Covered(n)'
<1>1. \A c \in Consumers : Left(c, n)' = Left(c, n)
  BY LeftDepends DEF workerVars
<1>2. Held(n)' = Held(n) /\ Copies(n)' = Copies(n)
  BY <1>1 DEF Held, Copies, Yet
<1>3. /\ Credit(n) \in Int /\ Credit(n)' \in Int
      /\ Credit(n)' = Credit(n) \/ Credit(n)' = Credit(n) + MaxRetries + 1
  BY CreditMoves
<1>4. Cardinality(Copies(n)) \in Nat /\ Cardinality(Held(n)) \in Nat
  BY FS_CardinalityType DEF Covered
<1>5. posts[n] \in Nat /\ posts' = posts /\ MaxRetries \in Nat
  BY DeploymentAssumption DEF TypeOK, WorkerTypeOK, workerVars
<1>. QED
  BY <1>2, <1>3, <1>4, <1>5 DEF Covered

\* A message published pays for the calls it may lead to.
LEMMA PublishPays ==
  ASSUME TypeOK, TypeOK', NEW n \in Notifs, Covered(n), NEW m \in Notifs, NEW p,
         PublishNotification(p, m), NoFault, UNCHANGED workerVars
  PROVE  Covered(n)'
<1>1. \A c \in Consumers : Left(c, n)' = Left(c, n)
  BY LeftDepends DEF workerVars, PublishNotification
<1>2. Held(n)' = Held(n)
  BY <1>1 DEF Held
<1>3. 0 \in Retries /\ Yet(0) = MaxRetries + 1 /\ MaxRetries \in Nat
  BY YetType, DeploymentAssumption DEF Retries
<1>4. /\ IsFiniteSet(Copies(n)')
      /\ Cardinality(Copies(n)') <= Cardinality(Copies(n)) + (IF m = n THEN Yet(0) ELSE 0)
  BY <1>3, CopyAdded DEF Covered, TypeOK, BrokerTypeOK, PublishNotification
<1>5. published'[n] = IF m = n THEN published[n] + 1 ELSE published[n]
  BY DEF PublishNotification, TypeOK, BrokerTypeOK
<1>6. Credit(n) \in Int /\ Credit(n)' = Credit(n) + (IF m = n THEN MaxRetries + 1 ELSE 0)
  BY <1>3, <1>5, CreditMoves
<1>7. /\ Cardinality(Copies(n)) \in Nat /\ Cardinality(Copies(n)') \in Nat
      /\ Cardinality(Held(n)) \in Nat
  BY <1>4, FS_CardinalityType DEF Covered
<1>8. posts[n] \in Nat /\ posts' = posts
  BY DEF TypeOK, WorkerTypeOK, workerVars
<1>9. posts[n] + Cardinality(Copies(n)) + Cardinality(Held(n)) <= Credit(n)
  BY DEF Covered
<1>10. posts'[n] + Cardinality(Copies(n)') + Cardinality(Held(n)') <= Credit(n)'
  <2>1. CASE m = n
    BY <1>2, <1>3, <1>4, <1>6, <1>7, <1>8, <1>9, <2>1
  <2>2. CASE m # n
    BY <1>2, <1>4, <1>6, <1>7, <1>8, <1>9, <2>2
  <2>. QED
    BY <2>1, <2>2
<1>. QED
  BY <1>2, <1>4, <1>10 DEF Covered

-----------------------------------------------------------------------------
(* What each step spends *)

\* Only c moves: what it posts, puts on the queue and may still cost is within
\* what it could cost before and what the step earns.
LEMMA Balanced ==
  ASSUME TypeOK, TypeOK', NEW n \in Notifs, Covered(n), NEW c \in Consumers,
         \A d \in Consumers \ {c} :
           /\ wpc'[d] = wpc[d] /\ note'[d] = note[d]
           /\ retry'[d] = retry[d] /\ stop'[d] = stop[d]
           /\ d \in bus' <=> d \in bus,
         NEW k \in Int,
         IsFiniteSet(Copies(n)'),
         Cardinality(Copies(n)') <= Cardinality(Copies(n)) + k,
         posts'[n] + k + Left(c, n)' + Credit(n) <= posts[n] + Left(c, n) + Credit(n)'
  PROVE  Covered(n)'
<1>1. \A d \in Consumers \ {c} : Left(d, n)' = Left(d, n)
  BY LeftDepends
<1>2. /\ IsFiniteSet(Held(n)') /\ Cardinality(Held(n)') \in Nat
      /\ Cardinality(Held(n)') <= Cardinality(Held(n)) - Left(c, n) + Left(c, n)'
  BY <1>1, HeldMoves DEF Covered
<1>3. /\ Cardinality(Copies(n)) \in Nat /\ Cardinality(Copies(n)') \in Nat
      /\ Cardinality(Held(n)) \in Nat
  BY FS_CardinalityType DEF Covered
<1>4. Credit(n) \in Int /\ Credit(n)' \in Int
  BY CreditMoves
<1>5. LeftIsCount /\ LeftIsCount'
  BY LeftType, PTL
<1>6. Left(c, n) \in Nat /\ Left(c, n)' \in Nat
  BY <1>5 DEF LeftIsCount
<1>7. posts[n] \in Nat /\ posts'[n] \in Nat
  BY DEF TypeOK, WorkerTypeOK
<1>8. posts[n] + Cardinality(Copies(n)) + Cardinality(Held(n)) <= Credit(n)
  BY DEF Covered
<1>9. posts'[n] + Cardinality(Copies(n)') + Cardinality(Held(n)') <= Credit(n)'
  BY <1>2, <1>3, <1>4, <1>6, <1>7, <1>8
<1>. QED
  BY <1>2, <1>9 DEF Covered

\* c goes on without posting or touching the queue.
LEMMA NothingOwed ==
  ASSUME TypeOK, TypeOK', NEW n \in Notifs, Covered(n), NEW c \in Consumers,
         \A d \in Consumers \ {c} :
           /\ wpc'[d] = wpc[d] /\ note'[d] = note[d]
           /\ retry'[d] = retry[d] /\ stop'[d] = stop[d]
           /\ d \in bus' <=> d \in bus,
         UNCHANGED <<ready, published, posts>>,
         NoFault \/ faultsLeft' = faultsLeft - 1,
         Left(c, n)' <= Left(c, n)
  PROVE  Covered(n)'
<1>1. /\ Credit(n) \in Int /\ Credit(n)' \in Int /\ MaxRetries \in Nat
      /\ Credit(n)' = Credit(n) \/ Credit(n)' = Credit(n) + MaxRetries + 1
  BY CreditMoves, DeploymentAssumption
<1>2. Copies(n)' = Copies(n)
  BY DEF Copies, Yet
<1>3. IsFiniteSet(Copies(n)') /\ Cardinality(Copies(n)') <= Cardinality(Copies(n)) + 0
  BY <1>2, FS_CardinalityType DEF Covered
<1>4. LeftIsCount /\ LeftIsCount'
  BY LeftType, PTL
<1>5. /\ Left(c, n) \in Nat /\ Left(c, n)' \in Nat /\ posts[n] \in Nat
      /\ posts'[n] = posts[n]
  BY <1>4 DEF LeftIsCount, TypeOK, WorkerTypeOK
<1>6. posts'[n] + 0 + Left(c, n)' + Credit(n) <= posts[n] + Left(c, n) + Credit(n)'
  BY <1>1, <1>5
<1>. QED
  BY <1>3, <1>6, Balanced

\* A delivery taken from the queue may cost what the message could.
LEMMA ReceiveKeepsCredit ==
  ASSUME TypeOK, TypeOK', NEW n \in Notifs, Covered(n), NEW c \in Consumers, Receive(c)
  PROVE  Covered(n)'
<1>1. PICK m \in Notifs, r \in Retries :
        Dequeue(m, r) /\ note' = [note EXCEPT ![c] = m] /\ retry' = [retry EXCEPT ![c] = r]
  BY DEF Receive
<1>2. /\ wpc[c] = "idle" /\ wpc' = [wpc EXCEPT ![c] = "load"]
      /\ UNCHANGED <<bus, published, stop, posts>> /\ NoFault
  BY DEF Receive, Goto, providerVars
<1>3. /\ wpc \in [Consumers -> WorkerLabels] /\ note \in [Consumers -> Notifs \cup {None}]
      /\ retry \in [Consumers -> Retries] /\ ready \in [Notifs \X Retries -> Nat]
      /\ posts[n] \in Nat
  BY DEF TypeOK, WorkerTypeOK, BrokerTypeOK
<1>4. PICK k : k = IF m = n THEN 0 - Yet(r) ELSE 0
  OBVIOUS
<1>5. Yet(r) \in Nat /\ k \in Int
  BY <1>4, YetType
<1>6. Left(c, n) = 0
  BY <1>2 DEF Left
<1>7. wpc'[c] = "load" /\ note'[c] = m /\ retry'[c] = r
  BY <1>1, <1>2, <1>3
<1>8. Left(c, n)' = IF m = n THEN Yet(r) ELSE 0
  BY <1>7 DEF Left, Yet
<1>9. /\ IsFiniteSet(Copies(n)')
      /\ Cardinality(Copies(n)') <= Cardinality(Copies(n)) - (IF m = n THEN Yet(r) ELSE 0)
  BY <1>1, <1>3, CopyTaken DEF Covered
<1>10. Cardinality(Copies(n)) \in Nat /\ Cardinality(Copies(n)') \in Nat
  BY <1>9, FS_CardinalityType DEF Covered
<1>11. Cardinality(Copies(n)') <= Cardinality(Copies(n)) + k
  BY <1>4, <1>5, <1>9, <1>10
<1>12. Credit(n) \in Int /\ Credit(n)' = Credit(n)
  BY <1>2, CreditMoves
<1>13. posts'[n] + k + Left(c, n)' + Credit(n) <= posts[n] + Left(c, n) + Credit(n)'
  BY <1>2, <1>3, <1>4, <1>5, <1>6, <1>8, <1>12
<1>. QED
  BY <1>1, <1>2, <1>3, <1>5, <1>9, <1>11, <1>13, Balanced

\* A post is one of the calls the delivery could lead to.
LEMMA PostKeepsCredit ==
  ASSUME TypeOK, TypeOK', NEW n \in Notifs, Covered(n), NEW c \in Consumers,
         PostAccepted(c) \/ PostRejected(c) \/ PostTransient(c)
  PROVE  Covered(n)'
<1>1. /\ wpc \in [Consumers -> WorkerLabels] /\ note[c] \in Notifs \cup {None}
      /\ retry[c] \in Retries /\ posts \in [Notifs -> Nat]
      /\ MaxRetries \in Nat
  BY DeploymentAssumption DEF TypeOK, WorkerTypeOK
<1>2. /\ wpc[c] = "post" /\ Sent(note[c]) /\ NoFault
      /\ UNCHANGED <<note, retry, stop, ready, bus, published>>
  BY DEF PostAccepted, PostRejected, PostTransient, Goto, heldVars, brokerVars
<1>3. PICK l : wpc' = [wpc EXCEPT ![c] = l] /\ (l = "backoff" => retry[c] < MaxRetries)
               /\ l \in {"deliver", "fail", "backoff"}
  <2>1. CASE PostAccepted(c)
    BY <2>1 DEF PostAccepted, Goto
  <2>2. CASE PostRejected(c)
    BY <2>2 DEF PostRejected, Goto
  <2>3. CASE PostTransient(c)
    <3>1. CASE retry[c] >= MaxRetries
      BY <2>3, <3>1 DEF PostTransient, Goto
    <3>2. CASE ~(retry[c] >= MaxRetries)
      <4>1. wpc' = [wpc EXCEPT ![c] = "backoff"]
        BY <2>3, <3>2 DEF PostTransient, Goto
      <4>2. retry[c] < MaxRetries
        BY <1>1, <3>2 DEF Retries
      <4>. QED
        BY <4>1, <4>2
    <3>. QED
      BY <3>1, <3>2
  <2>. QED
    BY <2>1, <2>2, <2>3
<1>4. wpc'[c] = l
  BY <1>1, <1>3
<1>5. Credit(n) \in Int /\ Credit(n)' = Credit(n)
  BY <1>2, CreditMoves
<1>6. Copies(n)' = Copies(n)
  BY <1>2 DEF Copies, Yet
<1>7. IsFiniteSet(Copies(n)') /\ Cardinality(Copies(n)') <= Cardinality(Copies(n)) + 0
  BY <1>6, FS_CardinalityType DEF Covered
<1>8. posts'[n] + Left(c, n)' <= posts[n] + Left(c, n)
  <2>1. CASE note[c] = n
    <3>1. posts'[n] = posts[n] + 1
      BY <1>1, <1>2, <2>1 DEF Sent
    <3>2. Left(c, n) = Yet(retry[c]) + Late(c)
      BY <1>2, <2>1 DEF Left
    <3>3. Left(c, n)' = IF l = "backoff" THEN Yet(retry[c] + 1) + Late(c) ELSE 0
      BY <1>2, <1>3, <1>4, <2>1 DEF Left, Yet, Late
    <3>. QED
      BY <1>1, <3>1, <3>2, <3>3 DEF Yet, Late, Retries
  <2>2. CASE note[c] # n
    <3>1. posts'[n] = posts[n]
      BY <1>1, <1>2, <2>2 DEF Sent
    <3>2. Left(c, n) = 0 /\ Left(c, n)' = 0
      BY <1>2, <2>2 DEF Left
    <3>. QED
      BY <1>1, <3>1, <3>2
  <2>. QED
    BY <2>1, <2>2
<1>9. LeftIsCount /\ LeftIsCount'
  BY LeftType, PTL
<1>10. Left(c, n) \in Nat /\ Left(c, n)' \in Nat /\ posts[n] \in Nat /\ posts'[n] \in Nat
  BY <1>9 DEF LeftIsCount, TypeOK, WorkerTypeOK
<1>11. posts'[n] + 0 + Left(c, n)' + Credit(n) <= posts[n] + Left(c, n) + Credit(n)'
  BY <1>5, <1>8, <1>10
<1>. QED
  BY <1>1, <1>2, <1>3, <1>7, <1>11, Balanced

\* A handler's calls that neither post nor publish leave it with no more to do.
LEMMA CallsKeepCredit ==
  ASSUME TypeOK, TypeOK', NEW n \in Notifs, Covered(n), NEW c \in Consumers,
         \/ LoadNotification(c) \/ WaitForRate(c) \/ SendingStep(c) \/ DeliverStep(c)
         \/ FailStep(c) \/ EmitStatus(c) \/ ReleaseStep(c) \/ CallFailure(c)
         \/ ConsumeReturns(c) \/ WorkerStart(c)
  PROVE  Covered(n)'
<1>1. /\ wpc \in [Consumers -> WorkerLabels] /\ note[c] \in Notifs \cup {None}
      /\ retry[c] \in Retries /\ MaxRetries \in Nat /\ stop \in [Consumers -> BOOLEAN]
      /\ ~Busy(c) => note[c] = None
      /\ None \notin Notifs
  BY DeploymentAssumption DEF TypeOK, WorkerTypeOK
<1>2. /\ UNCHANGED <<note, retry, ready, published, posts>>
      /\ NoFault \/ faultsLeft' = faultsLeft - 1
      /\ \A d \in Consumers \ {c} : /\ wpc'[d] = wpc[d] /\ stop'[d] = stop[d]
                                    /\ d \in bus' <=> d \in bus
  <2> USE <1>1 DEF Goto, heldVars, providerVars, brokerVars, CallFails, Fault, NoFault
  <2>1. CASE LoadNotification(c) \/ WaitForRate(c) \/ SendingStep(c) \/ DeliverStep(c)
    BY <2>1 DEF LoadNotification, WaitForRate, SendingStep, DeliverStep
  <2>2. CASE FailStep(c) \/ EmitStatus(c) \/ ReleaseStep(c)
    BY <2>2 DEF FailStep, EmitStatus, PublishStatus, ReleaseStep
  <2>3. CASE CallFailure(c)
    BY <2>3 DEF CallFailure, LoadFails, RateLimitFails, SendingFails, DeliverFails
  <2>4. CASE ConsumeReturns(c) \/ WorkerStart(c)
    BY <2>4 DEF ConsumeReturns, WorkerStart, Connect
  <2>. QED
    BY <2>1, <2>2, <2>3, <2>4
<1>3. Left(c, n)' <= Left(c, n)
  <2>0. Yet(retry[c]) \in Nat /\ Late(c) \in Nat
    BY <1>1, YetType DEF Late
  <2>1. CASE LoadNotification(c) \/ WaitForRate(c) \/ LoadFails(c)
    BY <1>1, <2>0, <2>1
    DEF LoadNotification, WaitForRate, LoadFails, Goto, heldVars, Left, Yet
  <2>2. CASE RateLimitFails(c) \/ ReleaseStep(c)
    BY <1>1, <2>0, <2>2
    DEF RateLimitFails, ReleaseStep, Goto, heldVars, brokerVars, Left, Yet
  <2>3. CASE SendingStep(c) \/ SendingFails(c)
    BY <1>1, <2>0, <2>3
    DEF SendingStep, SendingFails, Goto, heldVars, brokerVars, Left, Yet, Late
  <2>4. CASE DeliverStep(c) \/ DeliverFails(c) \/ FailStep(c) \/ EmitStatus(c)
    BY <1>1, <2>0, <2>4
    DEF DeliverStep, DeliverFails, FailStep, EmitStatus, Goto, heldVars, Left
  <2>5. CASE ConsumeReturns(c) \/ WorkerStart(c)
    BY <1>1, <2>0, <2>5 DEF ConsumeReturns, WorkerStart, Goto, heldVars, Busy, Left
  <2>. QED
    BY <2>1, <2>2, <2>3, <2>4, <2>5 DEF CallFailure, ConsumerStep
<1>. QED
  BY <1>2, <1>3, NothingOwed

\* A message sent again, or put back, takes the delivery's place.
LEMMA RequeueKeepsCredit ==
  ASSUME TypeOK, TypeOK', NEW n \in Notifs, Covered(n), NEW c \in Consumers,
         Republish(c) \/ Settle(c)
  PROVE  Covered(n)'
<1>1. /\ wpc \in [Consumers -> WorkerLabels] /\ note \in [Consumers -> Notifs \cup {None}]
      /\ retry \in [Consumers -> Retries] /\ MaxRetries \in Nat
      /\ ready \in [Notifs \X Retries -> Nat] /\ posts[n] \in Nat
      /\ wpc[c] \in {"backoff", "requeue"} => note[c] \in Notifs
      /\ wpc[c] = "backoff" => retry[c] + 1 \in Retries
      /\ None \notin Notifs
  BY DeploymentAssumption DEF TypeOK, WorkerTypeOK, BrokerTypeOK, Busy, Retries
<1>2. Yet(retry[c]) \in Nat /\ Late(c) \in Nat /\ (wpc[c] = "backoff" => Yet(retry[c] + 1) \in Nat)
  BY <1>1, YetType DEF Late
<1>3. /\ UNCHANGED <<published, posts, bus, stop>> /\ NoFault
      /\ \A d \in Consumers \ {c} : /\ wpc'[d] = wpc[d] /\ note'[d] = note[d]
                                    /\ retry'[d] = retry[d]
  <2>1. CASE Republish(c)
    BY <1>1, <2>1
    DEF Republish, RepublishDelivery, PublishFails, Goto, heldVars, providerVars, brokerVars
  <2>2. CASE Settle(c)
    BY <1>1, <2>2 DEF Settle, providerVars
  <2>. QED
    BY <2>1, <2>2
<1>4. Credit(n) \in Int /\ Credit(n)' = Credit(n)
  BY <1>3, CreditMoves
\* r: the count of the message put on the queue.
<1>5. ASSUME NEW r \in Retries, note[c] \in Notifs, Enqueue(note[c], r),
             Left(c, n)' = 0, note[c] = n => Yet(r) <= Left(c, n)
      PROVE  Covered(n)'
  <2>1. PICK k : k = IF note[c] = n THEN Yet(r) ELSE 0
    OBVIOUS
  <2>2. /\ IsFiniteSet(Copies(n)')
        /\ Cardinality(Copies(n)') <= Cardinality(Copies(n)) + k
    BY <1>1, <1>5, <2>1, CopyAdded DEF Covered
  <2>3. LeftIsCount
    BY LeftType
  <2>4. Left(c, n) \in Nat /\ k \in Int /\ k <= Left(c, n)
    BY <1>5, <2>1, <2>3, YetType DEF LeftIsCount
  <2>5. posts'[n] + k + Left(c, n)' + Credit(n) <= posts[n] + Left(c, n) + Credit(n)'
    BY <1>1, <1>3, <1>4, <1>5, <2>4
  <2>. QED
    BY <1>3, <2>2, <2>4, <2>5, Balanced
<1>6. CASE Republish(c)
  <2>1. UNCHANGED <<note, retry>> /\ wpc[c] = "backoff"
    BY <1>6 DEF Republish, heldVars, Goto
  <2>2. CASE Goto(c, "backoff", "ack") /\ RepublishDelivery(c, note[c], retry[c])
    <3>1. Enqueue(note[c], retry[c] + 1)
      BY <2>2 DEF RepublishDelivery
    <3>2. Left(c, n)' = 0
      BY <1>1, <2>2 DEF Goto, Left
    <3>3. note[c] = n => Left(c, n) = Yet(retry[c] + 1) + Late(c)
      BY <2>1 DEF Left
    <3>. QED
      BY <1>1, <1>2, <1>5, <2>1, <3>1, <3>2, <3>3
  <2>3. CASE Goto(c, "backoff", "release") /\ (c \notin bus \/ stop[c]) /\ UNCHANGED ready
    <3>1. wpc'[c] = "release"
      BY <1>1, <2>3 DEF Goto
    <3>2. Left(c, n)' = IF note[c] = n /\ c \in bus THEN Yet(retry[c]) ELSE 0
      BY <1>3, <2>1, <3>1 DEF Left, Yet
    <3>3. Left(c, n) = IF note[c] = n THEN Yet(retry[c] + 1) + Late(c) ELSE 0
      BY <2>1 DEF Left
    <3>4. Left(c, n)' <= Left(c, n)
      BY <1>1, <1>2, <2>1, <2>3, <3>2, <3>3 DEF Yet, Late, Retries
    <3>. QED
      BY <1>3, <2>1, <2>3, <3>4, NothingOwed
  <2>. QED
    BY <1>6, <2>2, <2>3 DEF Republish, PublishFails, brokerVars
<1>7. CASE Settle(c)
  <2>1. wpc'[c] = "idle" /\ note'[c] = None
    BY <1>1, <1>7 DEF Settle
  <2>2. Left(c, n)' = 0
    BY <2>1 DEF Left
  <2>3. CASE c \in bus /\ wpc[c] = "requeue" /\ Enqueue(note[c], retry[c])
    <3>1. note[c] = n => Left(c, n) = Yet(retry[c])
      BY <2>3 DEF Left
    <3>. QED
      BY <1>1, <1>2, <1>5, <2>2, <2>3, <3>1
  <2>4. CASE UNCHANGED ready
    <3>1. LeftIsCount
      BY LeftType
    <3>2. Left(c, n)' <= Left(c, n)
      BY <2>2, <3>1 DEF LeftIsCount
    <3>. QED
      BY <1>3, <2>4, <3>2, NothingOwed
  <2>. QED
    BY <1>7, <2>3, <2>4 DEF Settle
<1>. QED
  BY <1>6, <1>7

\* A delivery the broker takes back is paid for by the fault that lost it, one
\* that is requeued for want of a publish channel by the fault that closed it.
LEMMA FaultKeepsCredit ==
  ASSUME TypeOK, TypeOK', NEW n \in Notifs, Covered(n), NEW c \in Consumers, WorkerFault(c)
  PROVE  Covered(n)'
<1>1. /\ wpc \in [Consumers -> WorkerLabels] /\ note \in [Consumers -> Notifs \cup {None}]
      /\ retry \in [Consumers -> Retries] /\ stop \in [Consumers -> BOOLEAN]
      /\ ready \in [Notifs \X Retries -> Nat] /\ posts[n] \in Nat /\ MaxRetries \in Nat
      /\ Busy(c) => note[c] \in Notifs
      /\ None \notin Notifs
  BY DeploymentAssumption DEF TypeOK, WorkerTypeOK, BrokerTypeOK
<1>2. /\ UNCHANGED <<published, posts>> /\ faultsLeft' = faultsLeft - 1
      /\ \A d \in Consumers \ {c} : /\ wpc'[d] = wpc[d] /\ note'[d] = note[d]
                                    /\ retry'[d] = retry[d] /\ stop'[d] = stop[d]
                                    /\ d \in bus' <=> d \in bus
  BY <1>1
  DEF WorkerFault, WorkerLosesConnection, PublishChannelFails, WorkerCrash, Shutdown, Fault, Goto,
      heldVars, providerVars, brokerVars
<1>3. Credit(n) \in Int /\ Credit(n)' = Credit(n) + MaxRetries + 1
  BY <1>2, CreditMoves
<1>4. LeftIsCount /\ LeftIsCount'
  BY LeftType, PTL
<1>5. Left(c, n) \in Nat /\ Left(c, n)' \in Nat
  BY <1>4 DEF LeftIsCount
<1>6. CASE Shutdown(c)
  <2>1. Copies(n)' = Copies(n)
    BY <1>6 DEF Shutdown, brokerVars, Copies, Yet
  <2>2. IsFiniteSet(Copies(n)') /\ Cardinality(Copies(n)') <= Cardinality(Copies(n)) + 0
    BY <2>1, FS_CardinalityType DEF Covered
  <2>3. /\ UNCHANGED <<wpc, note, retry, bus>> /\ ~stop[c] /\ stop'[c] = TRUE
    BY <1>1, <1>6 DEF Shutdown, brokerVars
  <2>4. Left(c, n)' <= Left(c, n) + 1
    <3>1. Late(c) = 0 /\ Late(c)' = 1
      BY <2>3 DEF Late
    <3>2. /\ Yet(retry[c]) \in Int /\ Yet(retry[c])' = Yet(retry[c])
          /\ Yet(retry[c] + 1) \in Int /\ Yet(retry[c] + 1)' = Yet(retry[c] + 1)
      BY <1>1, <2>3 DEF Yet, Retries
    <3>. QED
      BY <2>3, <3>1, <3>2 DEF Left
  <2>5. posts'[n] + 0 + Left(c, n)' + Credit(n) <= posts[n] + Left(c, n) + Credit(n)'
    BY <1>1, <1>2, <1>3, <1>5, <2>4
  <2>. QED
    BY <1>2, <2>2, <2>5, Balanced
<1>7. CASE PublishChannelFails(c)
  <2>1. Copies(n)' = Copies(n)
    BY <1>7 DEF PublishChannelFails, brokerVars, Copies, Yet
  <2>2. IsFiniteSet(Copies(n)') /\ Cardinality(Copies(n)') <= Cardinality(Copies(n)) + 0
    BY <2>1, FS_CardinalityType DEF Covered
  <2>3. /\ UNCHANGED <<note, retry, stop, bus>>
        /\ \/ wpc[c] = "backoff" /\ wpc'[c] = "release"
           \/ wpc'[c] = "ack"
    BY <1>1, <1>7 DEF PublishChannelFails, Goto, heldVars, brokerVars
  <2>4. Left(c, n)' <= Left(c, n) + 1
    <3>1. CASE wpc'[c] = "ack"
      <4>1. Left(c, n)' = 0
        BY <3>1 DEF Left
      <4>. QED
        BY <1>5, <4>1
    <3>2. CASE wpc[c] = "backoff" /\ wpc'[c] = "release" /\ note[c] = n
      <4>1. Left(c, n) = Yet(retry[c] + 1) + Late(c)
        BY <3>2 DEF Left
      <4>2. Left(c, n)' \in {0, Yet(retry[c])}
        BY <2>3, <3>2 DEF Left, Yet
      <4>. QED
        BY <1>1, <1>5, <4>1, <4>2 DEF Yet, Late, Retries
    <3>3. CASE note[c] # n
      BY <1>5, <2>3, <3>3 DEF Left
    <3>. QED
      BY <2>3, <3>1, <3>2, <3>3
  <2>5. posts'[n] + 0 + Left(c, n)' + Credit(n) <= posts[n] + Left(c, n) + Credit(n)'
    BY <1>1, <1>2, <1>3, <1>5, <2>4
  <2>. QED
    BY <1>2, <2>2, <2>5, Balanced
<1>8. CASE WorkerLosesConnection(c) \/ WorkerCrash(c)
  <2>1. GiveBack(c)
    BY <1>8 DEF WorkerLosesConnection, WorkerCrash
  <2>2. Left(c, n)' <= Left(c, n)
    <3>1. CASE WorkerCrash(c)
      <4>1. note'[c] = None
        BY <1>1, <3>1 DEF WorkerCrash
      <4>2. Left(c, n)' = 0
        BY <1>1, <4>1 DEF Left
      <4>. QED
        BY <1>5, <4>2
    <3>2. CASE WorkerLosesConnection(c)
      <4>1. /\ UNCHANGED <<note, retry, stop>> /\ bus' = bus \ {c}
            /\ wpc'[c] = wpc[c] \/ wpc'[c] = "ack"
        BY <1>1, <3>2 DEF WorkerLosesConnection, Goto, heldVars
      <4>2. Left(c, n)' = Left(c, n) \/ Left(c, n)' = 0
        BY <4>1 DEF Left, Late, Yet
      <4>. QED
        BY <1>5, <4>2
    <3>. QED
      BY <1>8, <3>1, <3>2
  <2>3. PICK k : k = IF Busy(c) /\ c \in bus /\ note[c] = n THEN Yet(retry[c]) ELSE 0
    OBVIOUS
  <2>4. k \in Int /\ k <= MaxRetries + 1
    BY <1>1, <2>3, YetType
  <2>5. IsFiniteSet(Copies(n)') /\ Cardinality(Copies(n)') <= Cardinality(Copies(n)) + k
    <3>1. CASE Busy(c) /\ c \in bus
      BY <1>1, <2>1, <2>3, <3>1, CopyAdded DEF GiveBack, Covered
    <3>2. CASE ~(Busy(c) /\ c \in bus)
      <4>1. Copies(n)' = Copies(n)
        BY <2>1, <3>2 DEF GiveBack, Copies, Yet
      <4>. QED
        BY <2>3, <3>2, <4>1, FS_CardinalityType DEF Covered
    <3>. QED
      BY <3>1, <3>2
  <2>6. posts'[n] + k + Left(c, n)' + Credit(n) <= posts[n] + Left(c, n) + Credit(n)'
    BY <1>1, <1>2, <1>3, <1>5, <2>2, <2>4
  <2>. QED
    BY <1>2, <2>4, <2>5, <2>6, Balanced
<1>. QED
  BY <1>6, <1>7, <1>8 DEF WorkerFault

LEMMA WorkerKeepsCredit ==
  ASSUME TypeOK, TypeOK', NEW n \in Notifs, Covered(n), WorkerNext
  PROVE  Covered(n)'
BY ReceiveKeepsCredit, PostKeepsCredit, CallsKeepCredit, RequeueKeepsCredit, FaultKeepsCredit
DEF WorkerNext, ConsumerStep

\* The API and the schedulers only publish and fail.
LEMMA OthersKeepCredit ==
  ASSUME TypeOK, TypeOK', NEW n \in Notifs, Covered(n), UNCHANGED workerVars,
         ApiNext \/ RunnerNext
  PROVE  Covered(n)'
<1>0. Api \notin Consumers /\ Runners \cap Consumers = {}
  BY DeploymentAssumption
<1>1. ASSUME UNCHANGED <<ready, published>>, NoFault \/ faultsLeft' = faultsLeft - 1,
             \A c \in Consumers : c \in bus' <=> c \in bus
      PROVE  Covered(n)'
  BY <1>1, NothingSpent
<1> USE DEF brokerVars, Fault
<1>2. CASE ApiNext
  <2>1. ASSUME NEW m \in Notifs,
               \/ CreateNotifications(m) \/ LoadCreated(m) \/ MarkQueuedWithRetry(m)
               \/ EnqueueCreated(m) \/ CreateCallFails(m) \/ CancelNotification(m)
        PROVE  Covered(n)'
    BY <1>1, <2>1
    DEF CreateNotifications, LoadCreated, MarkQueuedWithRetry, EnqueueCreated,
        CreateCallFails, CancelNotification
  <2>2. ASSUME NEW m \in Notifs, PublishCreated(m) PROVE Covered(n)'
    BY <1>0, <1>1, <2>2, PublishPays DEF PublishCreated, PublishFails, PublishVanishes
  <2>3. CASE ApiLosesConnection
    BY <1>0, <1>1, <2>3 DEF ApiLosesConnection
  <2>. QED
    BY <1>2, <2>1, <2>2, <2>3 DEF ApiNext, HandleCreated
<1>3. CASE RunnerNext
  <2>1. ASSUME NEW r \in Runners,
               \/ ClaimOutboxEntry(r) \/ CommitOutboxEntry(r) \/ DrainOutboxEntry(r)
               \/ RelayCallFails(r) \/ ClaimDue(r) \/ CommitDue(r) \/ DueCallFails(r)
        PROVE  Covered(n)'
    BY <1>1, <2>1
    DEF ClaimOutboxEntry, CommitOutboxEntry, DrainOutboxEntry, RelayCallFails, ClaimDue,
        CommitDue, DueCallFails
  <2>2. ASSUME NEW r \in Runners, PublishOutboxEntry(r) PROVE Covered(n)'
    <3>1. outboxLock[r] \in Notifs
      BY <2>2 DEF PublishOutboxEntry, RelayGoto, TypeOK, StoreTypeOK
    <3>. QED
      BY <1>0, <1>1, <2>2, <3>1, PublishPays
      DEF PublishOutboxEntry, PublishFails, PublishVanishes
  <2>3. ASSUME NEW r \in Runners, PublishDue(r) PROVE Covered(n)'
    <3>1. rowLock[r] \in Notifs
      BY <2>3 DEF PublishDue, DueGoto, TypeOK, StoreTypeOK
    <3>. QED
      BY <1>0, <1>1, <2>3, <3>1, PublishPays DEF PublishDue, PublishFails, PublishVanishes
  <2>4. ASSUME NEW r \in Runners, RunnerLosesConnection(r) \/ RunnerCrash(r) \/ RunnerStart(r)
        PROVE  Covered(n)'
    BY <1>0, <1>1, <2>4 DEF RunnerLosesConnection, RunnerCrash, RunnerStart, Connect
  <2>5. ASSUME NEW m \in Notifs, ScheduleFallsDue(m) PROVE Covered(n)'
    BY <1>1, <2>5 DEF ScheduleFallsDue
  <2>. QED
    BY <1>3, <2>1, <2>2, <2>3, <2>4, <2>5 DEF RunnerNext, RelayStep, DueStep
<1>. QED
  BY <1>2, <1>3

\* At the start nothing is queued, held or owed.
LEMMA InitCovered ==
  ASSUME Init, NEW n \in Notifs
  PROVE  Covered(n)
<1>1. Copies(n) = {}
  BY DEF Init, InitBroker, Copies, Positive
<1>2. Held(n) = {}
  BY DEF Init, InitWorker, Held, Left, Positive
<1>3. Credit(n) = 0
  BY DeploymentAssumption DEF Init, InitBroker, Credit
<1>. QED
  BY <1>1, <1>2, <1>3, FS_EmptySet DEF Covered, Init, InitWorker

\* The provider is sent a notification at most maxWebhookRetries + 1 times for
\* each message published and each fault, however deliveries are redelivered,
\* released, retried and interleaved (handleDelivery, Consume).
THEOREM PostsBoundedHolds == Spec => []PostsBounded
<1> DEFINE AllCovered == \A n \in Notifs : Covered(n)
<1>1. Init => AllCovered
  BY InitCovered
<1>2. TypeOK /\ TypeOK' /\ AllCovered /\ [Next]_vars => AllCovered'
  <2> SUFFICES ASSUME TypeOK, TypeOK', NEW n \in Notifs, Covered(n), [Next]_vars
               PROVE  Covered(n)'
    OBVIOUS
  <2>1. CASE UNCHANGED vars
    BY <2>1, NothingSpent DEF vars, brokerVars, NoFault
  <2>2. CASE Next
    BY <2>2, WorkerKeepsCredit, OthersKeepCredit DEF Next
  <2>. QED
    BY <2>1, <2>2
<1>3. TypeOK /\ AllCovered => PostsBounded
  <2> SUFFICES ASSUME TypeOK, NEW n \in Notifs, Covered(n)
               PROVE  posts[n] <= Credit(n)
    BY DEF PostsBounded, Credit
  <2>1. /\ Cardinality(Copies(n)) \in Nat /\ Cardinality(Held(n)) \in Nat /\ posts[n] \in Nat
        /\ Credit(n) \in Int
    <3>1. (MaxRetries + 1) * (published[n] + MaxFaults - faultsLeft) \in Int
      BY DeploymentAssumption DEF TypeOK, BrokerTypeOK
    <3>. QED
      BY <3>1, FS_CardinalityType DEF Covered, TypeOK, WorkerTypeOK, Credit
  <2>. QED
    BY <2>1 DEF Covered
<1>. QED
  BY <1>1, <1>2, <1>3, TypeCorrect, PTL DEF Spec

\* The two bounds together: where nothing fails, MaxRetries + 1 calls at most.
CallsBounded ==
  \A n \in Notifs :
    sched[n] # "past" => posts[n] <= (MaxRetries + 1) * (1 + 2 * Used)

\* A notification not due at its creation is posted at most
\* maxWebhookRetries + 1 times, and twice that more for each fault, one for the
\* publish it may repeat and one for the delivery it may put back.
THEOREM CallsBoundedHolds == Spec => []CallsBounded
<1>1. TypeOK /\ PublishedOnce /\ PostsBounded => CallsBounded
  <2> SUFFICES ASSUME TypeOK, PublishedOnce, PostsBounded, NEW n \in Notifs, sched[n] # "past"
               PROVE  posts[n] <= (MaxRetries + 1) * (1 + 2 * Used)
    BY DEF CallsBounded
  <2>1. PICK k, a, d : /\ k = MaxRetries + 1
                       /\ a = published[n] + MaxFaults - faultsLeft
                       /\ d = 1 + MaxFaults - faultsLeft - published[n]
    OBVIOUS
  <2>2. /\ MaxRetries \in Nat /\ MaxFaults \in Nat /\ faultsLeft \in Int
        /\ published[n] \in Nat /\ posts[n] \in Nat
    BY DeploymentAssumption DEF TypeOK, BrokerTypeOK, WorkerTypeOK
  <2>3. k \in Nat /\ a \in Int /\ d \in Nat /\ a + d = 1 + 2 * Used
    BY <2>1, <2>2 DEF PublishedOnce, Used
  <2>4. k * d \in Nat /\ k * a \in Int /\ k * (a + d) = k * a + k * d
    BY <2>3
  <2>5. posts[n] <= k * a
    BY <2>1 DEF PostsBounded
  <2>. QED
    BY <2>1, <2>2, <2>3, <2>4, <2>5
<1>. QED
  BY <1>1, TypeCorrect, PublishedOnceHolds, PostsBoundedHolds, PTL
=============================================================================
