---------------------------- MODULE CustodyProofs ---------------------------
(***************************************************************************)
(* No accepted notification is stranded (Custody), for any number of       *)
(* processes and any retry limit, where no database call fails, no request *)
(* is aborted, no publish vanishes and no worker is told to stop or loses  *)
(* its connection or publish channel while it goes on.  Whatever crashes,  *)
(* a notification is handed from the create handler, the outbox or the     *)
(* schedule to a message and from the message to a worker and back, never  *)
(* dropped in between.                                                     *)
(***************************************************************************)
EXTENDS ToleranceProofs

\* The faults left out: with each of them some notification is stranded.
Kept ==
  Faults \cap {"db", "abort", "shutdown", "worker_conn", "publish_channel", "unconfirmed"} = {}

\* A message or a delivery answers for n, or n is over.
InHand(n) ==
  \/ Queued(n)
  \/ \E c \in Consumers : Answers(c, n)
  \/ status[n] \in Terminal

\* n has yet to be published.
Waiting(n) ==
  \/ apc[n] \in {"load", "publish", "outbox"}
  \/ outbox[n] = "unpublished"
  \/ sched[n] # "none"

\* Whoever is about to write "queued" has published n already, and an entry is
\* only closed unpublished when its row has left pending.
CustodyAt(n) ==
  /\ status[n] = "pending" => InHand(n) \/ Waiting(n)
  /\ status[n] \in {"queued", "sending"} \/ apc[n] = "mark" => InHand(n)
  /\ \A r \in Runners :
       /\ outboxLock[r] = n /\ rpc[r] = "mark" => InHand(n)
       /\ rowLock[r] = n /\ dpc[r] = "mark" => InHand(n)
       /\ outboxLock[r] = n /\ rpc[r] = "drain" => status[n] # "pending"

CustodyInv == \A n \in Notifs : CustodyAt(n)

-----------------------------------------------------------------------------
(* In hand, and so until the end. *)

LEMMA KeptTolerated == Kept => Tolerated
BY DEF Kept, Tolerated, Attached, Answered

\* Without these faults none of these steps happens.
LEMMA NoSuchFault ==
  ASSUME Kept, Settled
  PROVE  /\ ~Fault("db") /\ ~Fault("abort") /\ ~Fault("unconfirmed")
         /\ ~Fault("worker_conn") /\ ~Fault("publish_channel") /\ ~Fault("shutdown")
         /\ \A c \in Consumers : ~CallFails(c, "db") /\ ~stop[c]
BY DEF Kept, Fault, CallFails, Settled, WorkerKnows

\* A message put on the queue is one for its notification, and takes none away.
LEMMA EnqueueKeeps ==
  ASSUME ready \in [Notifs \X Retries -> Nat], NEW m \in Notifs, NEW k \in Retries, Enqueue(m, k)
  PROVE  Queued(m)' /\ \A n \in Notifs : Queued(n) => Queued(n)'
<1>1. ASSUME NEW n \in Notifs, NEW r \in Retries
      PROVE  /\ ready[<<n, r>>] > 0 => ready'[<<n, r>>] > 0
             /\ n = m /\ r = k => ready'[<<n, r>>] > 0
  <2>1. <<n, r>> \in Notifs \X Retries /\ ready[<<n, r>>] \in Nat
    OBVIOUS
  <2>. QED
    BY <2>1 DEF Enqueue
<1>. QED
  BY <1>1 DEF Queued

\* Each step of a consumer that holds n leaves n in hand: it goes on, puts the
\* message back, has sent another, or the row is terminal.
LEMMA HolderKeeps ==
  ASSUME Kept, TypeOK, KnownRows, Settled, NEW n \in Notifs, NEW c \in Consumers, Answers(c, n),
         ConsumerStep(c) \/ WorkerFault(c) \/ WorkerStart(c)
  PROVE  InHand(n)'
<1>1. /\ wpc \in [Consumers -> WorkerLabels] /\ note \in [Consumers -> Notifs \cup {None}]
      /\ retry \in [Consumers -> Retries] /\ ready \in [Notifs \X Retries -> Nat]
      /\ status \in [Notifs -> Statuses] /\ status[n] # "none"
      /\ wpc[c] = "backoff" => retry[c] < MaxRetries
  BY DEF TypeOK, WorkerTypeOK, BrokerTypeOK, StoreTypeOK, KnownRows, Answers, Busy
<1>2. note[c] = n /\ Busy(c) /\ c \in bus
  BY KeptTolerated DEF Answers, Busy, Settled, WorkerKnows, Tolerated
<1>3. /\ ~Fault("db") /\ ~Fault("unconfirmed") /\ ~Fault("worker_conn")
      /\ ~Fault("publish_channel") /\ ~Fault("shutdown")
      /\ ~CallFails(c, "db") /\ ~stop[c]
  BY NoSuchFault
<1>4. ASSUME UNCHANGED note,
             wpc'[c] \in {"load", "limit", "send", "post", "deliver", "fail", "backoff",
                          "release", "requeue"}
      PROVE  InHand(n)'
  BY <1>2, <1>4 DEF InHand, Answers
<1> USE DEF Answers, Goto, heldVars
<1>5. CASE LoadNotification(c) \/ WaitForRate(c) \/ RateLimitFails(c)
  <2>1. CASE LoadNotification(c) /\ status[n] \notin Open
    <3>1. status'[n] \in Terminal
      BY <1>1, <2>1 DEF LoadNotification, storeVars, Open, Terminal, Statuses
    <3>. QED
      BY <3>1 DEF InHand
  <2>2. CASE ~(LoadNotification(c) /\ status[n] \notin Open)
    BY <1>1, <1>2, <1>4, <1>5, <2>2 DEF LoadNotification, WaitForRate, RateLimitFails
  <2>. QED
    BY <2>1, <2>2
<1>6. CASE SendingStep(c)
  <2>1. CASE MarkSendingFails(n, None)
    <3>1. status'[n] \in Terminal
      BY <1>1, <2>1 DEF MarkSendingFails, NoRows, Terminal, Statuses
    <3>. QED
      BY <3>1 DEF InHand
  <2>2. CASE ~MarkSendingFails(n, None)
    BY <1>1, <1>2, <1>4, <1>6, <2>2 DEF SendingStep
  <2>. QED
    BY <2>1, <2>2
<1>7. CASE PostAccepted(c) \/ PostRejected(c) \/ PostTransient(c)
  BY <1>1, <1>2, <1>4, <1>7 DEF PostAccepted, PostRejected, PostTransient
<1>8. CASE DeliverStep(c)
  <2>1. status[n] \in Past
    BY <1>2, <1>8, KeptTolerated DEF DeliverStep, Settled, WorkerKnows, Tolerated
  <2>2. status'[n] \in Terminal
    BY <1>1, <1>2, <1>8, <2>1
    DEF DeliverStep, MarkDelivered, MarkDeliveredFails, Update, NoRows, Past, Terminal
  <2>. QED
    BY <2>2 DEF InHand
<1>9. CASE FailStep(c)
  <2>1. status'[n] \in Terminal
    BY <1>1, <1>2, <1>3, <1>9
    DEF FailStep, MarkFailed, MarkFailedFails, Update, NoRows, Terminal, Statuses
  <2>. QED
    BY <2>1 DEF InHand
<1>10. CASE Republish(c)
  <2>1. CASE RepublishDelivery(c, note[c], retry[c]) /\ wpc[c] = "backoff"
    <3>1. retry[c] + 1 \in Retries
      BY <1>1, <2>1, DeploymentAssumption DEF Retries
    <3>. QED
      BY <1>1, <1>2, <2>1, <3>1, EnqueueKeeps DEF RepublishDelivery, InHand
  <2>2. CASE ~(RepublishDelivery(c, note[c], retry[c]) /\ wpc[c] = "backoff")
    BY <1>1, <1>2, <1>4, <1>10, <2>2 DEF Republish
  <2>. QED
    BY <2>1, <2>2
<1>11. CASE ReleaseStep(c)
  BY <1>1, <1>2, <1>4, <1>11 DEF ReleaseStep
<1>12. CASE Settle(c)
  <2>1. Enqueue(n, retry[c])
    BY <1>2, <1>12 DEF Settle
  <2>. QED
    BY <1>1, <2>1, EnqueueKeeps DEF InHand
<1>13. CASE WorkerCrash(c)
  <2>1. Enqueue(n, retry[c])
    BY <1>2, <1>13 DEF WorkerCrash, GiveBack
  <2>. QED
    BY <1>1, <2>1, EnqueueKeeps DEF InHand
<1>14. CASE CallFailure(c)
  BY <1>3, <1>5, <1>14 DEF CallFailure, LoadFails, SendingFails, DeliverFails
<1>15. CASE Receive(c) \/ EmitStatus(c) \/ ConsumeReturns(c) \/ WorkerStart(c)
  BY <1>15 DEF Receive, EmitStatus, ConsumeReturns, WorkerStart
<1>16. CASE WorkerLosesConnection(c) \/ PublishChannelFails(c) \/ Shutdown(c)
  BY <1>3, <1>16 DEF WorkerLosesConnection, PublishChannelFails, Shutdown
<1>. QED
  BY <1>5, <1>6, <1>7, <1>8, <1>9, <1>10, <1>11, <1>12, <1>13, <1>14, <1>15, <1>16
  DEF ConsumerStep, WorkerFault

\* A consumer leaves the others' deliveries alone, and takes a message only to
\* hold it.
LEMMA WorkerLeavesInHand ==
  ASSUME TypeOK, NEW n \in Notifs, NEW c \in Consumers,
         ConsumerStep(c) \/ WorkerFault(c) \/ WorkerStart(c)
  PROVE  /\ Queued(n) => Queued(n)' \/ Answers(c, n)'
         /\ \A d \in Consumers \ {c} : Answers(d, n) => Answers(d, n)'
<1>1. /\ wpc \in [Consumers -> WorkerLabels] /\ note \in [Consumers -> Notifs \cup {None}]
      /\ retry \in [Consumers -> Retries] /\ ready \in [Notifs \X Retries -> Nat]
      /\ Busy(c) => note[c] \in Notifs
      /\ wpc[c] = "backoff" => retry[c] < MaxRetries
  BY DEF TypeOK, WorkerTypeOK, BrokerTypeOK
<1>2. \/ UNCHANGED <<wpc, note>>
      \/ /\ \E to \in WorkerLabels : wpc' = [wpc EXCEPT ![c] = to]
         /\ note' = note \/ \E m \in Notifs \cup {None} : note' = [note EXCEPT ![c] = m]
  BY DEF ConsumerStep, CallFailure, WorkerFault, Goto, heldVars, WorkerLabels, Calls, Settlements,
         Receive, LoadNotification, LoadFails, WaitForRate, RateLimitFails, SendingStep,
         SendingFails, PostAccepted, PostRejected, PostTransient, DeliverStep, DeliverFails,
         FailStep, EmitStatus, Republish, ReleaseStep, Settle, ConsumeReturns,
         WorkerLosesConnection, WorkerCrash, PublishChannelFails, Shutdown, WorkerStart
<1>3. \A d \in Consumers \ {c} : Answers(d, n) => Answers(d, n)'
  BY <1>1, <1>2 DEF Answers
<1>4. CASE Receive(c)
  <2>1. PICK m \in Notifs, k \in Retries :
          Dequeue(m, k) /\ note' = [note EXCEPT ![c] = m] /\ wpc' = [wpc EXCEPT ![c] = "load"]
    BY <1>4 DEF Receive, Goto
  <2>2. \A r \in Retries : n # m => ready'[<<n, r>>] = ready[<<n, r>>]
    BY <1>1, <2>1 DEF Dequeue
  <2>3. n # m => (Queued(n) => Queued(n)')
    BY <2>2 DEF Queued
  <2>4. n = m => Answers(c, n)'
    BY <1>1, <2>1 DEF Answers
  <2>. QED
    BY <1>3, <2>3, <2>4
<1>5. ASSUME UNCHANGED ready \/ \E m \in Notifs, k \in Retries : Enqueue(m, k)
      PROVE  Queued(n) => Queued(n)'
  BY <1>1, <1>5, EnqueueKeeps DEF Queued
<1>6. CASE Republish(c)
  <2>1. wpc[c] = "backoff" => note[c] \in Notifs /\ retry[c] + 1 \in Retries
    BY <1>1, DeploymentAssumption DEF Busy, Retries
  <2>. QED
    BY <1>3, <1>5, <1>6, <2>1 DEF Republish, RepublishDelivery, PublishFails, brokerVars, Goto
<1>7. CASE Settle(c) \/ WorkerFault(c)
  BY <1>1, <1>3, <1>5, <1>7
  DEF Settle, Settlements, WorkerFault, WorkerLosesConnection, WorkerCrash,
      PublishChannelFails, Shutdown, GiveBack, Busy, brokerVars
<1>8. ASSUME ~Receive(c), ~Republish(c), ~Settle(c), ~WorkerFault(c) PROVE UNCHANGED ready
  BY <1>8
  DEF ConsumerStep, CallFailure, brokerVars, LoadNotification, LoadFails, WaitForRate,
      RateLimitFails, SendingStep, SendingFails, PostAccepted, PostRejected, PostTransient,
      DeliverStep, DeliverFails, FailStep, EmitStatus, PublishStatus, ReleaseStep,
      ConsumeReturns, WorkerStart, Connect
<1>. QED
  BY <1>3, <1>4, <1>5, <1>6, <1>7, <1>8

\* The other processes only ever add messages.
LEMMA OthersOnlyPublish ==
  ASSUME TypeOK, ApiNext \/ RunnerNext
  PROVE  UNCHANGED ready \/ \E m \in Notifs, k \in Retries : Enqueue(m, k)
<1>0. 0 \in Retries
  BY DeploymentAssumption DEF Retries
<1>1. CASE ApiNext
  BY <1>0, <1>1
  DEF ApiNext, HandleCreated, CreateNotifications, LoadCreated, PublishCreated,
      PublishNotification, PublishFails, PublishVanishes, MarkQueuedWithRetry, EnqueueCreated,
      CreateCallFails, CancelNotification, ApiLosesConnection, brokerVars
<1>2. \A r \in Runners : /\ rpc[r] = "publish" => outboxLock[r] \in Notifs
                         /\ dpc[r] = "publish" => rowLock[r] \in Notifs
  BY DEF TypeOK, StoreTypeOK
<1>3. CASE RunnerNext
  BY <1>0, <1>2, <1>3
  DEF RunnerNext, RelayStep, DueStep, ClaimOutboxEntry, PublishOutboxEntry, RelayGoto,
      DueGoto, PublishNotification, PublishFails, PublishVanishes, CommitOutboxEntry,
      DrainOutboxEntry, RelayCallFails, ClaimDue, PublishDue, CommitDue, DueCallFails,
      RunnerLosesConnection, RunnerCrash, RunnerStart, Connect, ScheduleFallsDue, brokerVars
<1>. QED
  BY <1>1, <1>3

LEMMA InHandStays ==
  ASSUME Kept, TypeOK, KnownRows, AcceptedOutcome, Settled, [Next]_vars,
         NEW n \in Notifs, InHand(n)
  PROVE  InHand(n)'
<1>1. status[n] \in Terminal => status'[n] \in Terminal
  BY RowsStay DEF Settled
<1>2. CASE (ApiNext \/ RunnerNext) /\ UNCHANGED workerVars
  <2>1. Queued(n) => Queued(n)'
    BY <1>2, OthersOnlyPublish, EnqueueKeeps DEF Queued, TypeOK, BrokerTypeOK
  <2>2. \A c \in Consumers : Answers(c, n) => Answers(c, n)'
    BY <1>2 DEF Answers, workerVars
  <2>. QED
    BY <1>1, <2>1, <2>2 DEF InHand
<1>3. ASSUME NEW c \in Consumers, ConsumerStep(c) \/ WorkerFault(c) \/ WorkerStart(c)
      PROVE  InHand(n)'
  <2>1. CASE Answers(c, n)
    BY <1>3, <2>1, HolderKeeps
  <2>2. CASE ~Answers(c, n)
    BY <1>1, <1>3, <2>2, WorkerLeavesInHand DEF InHand
  <2>. QED
    BY <2>1, <2>2
<1>4. CASE UNCHANGED vars
  BY <1>4 DEF vars, storeVars, brokerVars, workerVars, InHand, Queued, Answers
<1>. QED
  BY <1>2, <1>3, <1>4 DEF Next, WorkerNext

-----------------------------------------------------------------------------
(* From waiting to in hand. *)

\* A step after which n is in hand, and that closes no open entry of n.
LEMMA HeldInCustody ==
  ASSUME NEW n \in Notifs, InHand(n)',
         \A r \in Runners : outboxLock'[r] = n /\ rpc'[r] = "drain" => status'[n] # "pending"
  PROVE  CustodyAt(n)'
BY DEF CustodyAt

\* A step that takes nothing from n but, perhaps, a transaction.
LEMMA LeftInCustody ==
  ASSUME NEW n \in Notifs, CustodyAt(n), InHand(n) => InHand(n)',
         Waiting(n) => Waiting(n)',
         apc'[n] = "mark" => apc[n] = "mark",
         status'[n] = "pending" => status[n] = "pending",
         status'[n] \in {"queued", "sending"} => status[n] \in {"queued", "sending"} \/ InHand(n),
         \A r \in Runners :
           /\ outboxLock'[r] = n /\ rpc'[r] \in {"mark", "drain"}
                => outboxLock[r] = n /\ rpc[r] = rpc'[r]
           /\ rowLock'[r] = n /\ dpc'[r] = "mark" => rowLock[r] = n /\ dpc[r] = "mark"
  PROVE  CustodyAt(n)'
BY DEF CustodyAt

LEMMA ApiKeepsCustody ==
  ASSUME Kept, TypeOK, KnownRows, AcceptedOutcome, Settled, ApiNext,
         UNCHANGED <<runnerVars, workerVars>>, NEW n \in Notifs, CustodyAt(n)
  PROVE  CustodyAt(n)'
<1>0. InHand(n) => InHand(n)'
  BY InHandStays DEF Next
<1>1. /\ status \in [Notifs -> Statuses] /\ sched \in [Notifs -> Schedules]
      /\ outbox \in [Notifs -> {"none", "unpublished", "published"}]
      /\ apc \in [Notifs -> ApiLabels] /\ ready \in [Notifs \X Retries -> Nat]
  BY DEF TypeOK, StoreTypeOK, BrokerTypeOK
<1>2. UNCHANGED <<rpc, dpc>>
  BY DEF runnerVars
<1>3. ASSUME NEW m \in Notifs, CreateNotifications(m) PROVE CustodyAt(n)'
  <2>1. UNCHANGED <<outbox, outboxLock, rowLock>>
    BY <1>3 DEF CreateNotifications, lockVars
  <2>2. CASE m = n
    <3>1. status[n] = "none" /\ status'[n] = "pending"
      BY <1>1, <1>3, <2>2 DEF CreateNotifications, InsertNotification
    <3>2. \A r \in Runners : outboxLock'[r] # n /\ rowLock'[r] # n
      BY <2>1, <3>1, DeploymentAssumption DEF KnownRows
    <3>3. Waiting(n)' /\ apc'[n] # "mark"
      BY <1>1, <1>3, <2>2 DEF CreateNotifications, InsertNotification, ApiGoto, Waiting
    <3>. QED
      BY <3>1, <3>2, <3>3 DEF CustodyAt
  <2>3. CASE m # n
    <3>1. status'[n] = status[n] /\ sched'[n] = sched[n] /\ apc'[n] = apc[n]
      BY <1>1, <1>3, <2>3 DEF CreateNotifications, InsertNotification, ApiGoto
    <3>. QED
      BY <1>0, <1>2, <2>1, <3>1, LeftInCustody DEF Waiting
  <2>. QED
    BY <2>2, <2>3
<1>4. ASSUME NEW m \in Notifs, HandleCreated(m), m # n PROVE CustodyAt(n)'
  <2>1. status'[n] = status[n] /\ outbox'[n] = outbox[n] /\ apc'[n] = apc[n]
    BY <1>1, <1>4
    DEF HandleCreated, LoadCreated, PublishCreated, MarkQueuedWithRetry, MarkQueued,
        MarkQueuedFails, Update, NoRows, EnqueueCreated, EnqueueOutbox, ApiGoto, storeVars
  <2>2. UNCHANGED <<sched, outboxLock, rowLock>>
    BY <1>4
    DEF HandleCreated, LoadCreated, PublishCreated, MarkQueuedWithRetry, EnqueueCreated,
        storeVars, lockVars
  <2>. QED
    BY <1>0, <1>2, <2>1, <2>2, LeftInCustody DEF Waiting
<1>5. CASE LoadCreated(n)
  BY <1>0, <1>1, <1>2, <1>5, LeftInCustody DEF LoadCreated, ApiGoto, Waiting, storeVars
<1>6. CASE PublishCreated(n)
  <2>1. UNCHANGED <<status, sched, outbox, outboxLock, rowLock>>
    BY <1>6 DEF PublishCreated, storeVars
  <2>2. CASE PublishNotification(Api, n)
    <3>1. InHand(n)'
      <4>1. 0 \in Retries
        BY DeploymentAssumption DEF Retries
      <4>. QED
        BY <1>1, <2>2, <4>1, EnqueueKeeps DEF PublishNotification, InHand
    <3>. QED
      BY <1>2, <2>1, <3>1, HeldInCustody DEF CustodyAt
  <2>3. CASE ApiGoto(n, "publish", "outbox")
    BY <1>0, <1>1, <1>2, <2>1, <2>3, LeftInCustody DEF ApiGoto, Waiting
  <2>. QED
    BY <1>6, <2>2, <2>3, NoSuchFault DEF PublishCreated
<1>7. CASE MarkQueuedWithRetry(n)
  <2>1. InHand(n)'
    BY <1>0, <1>7 DEF MarkQueuedWithRetry, ApiGoto, CustodyAt
  <2>2. UNCHANGED outboxLock /\ (status'[n] = "pending" => status[n] = "pending")
    BY <1>1, <1>7
    DEF MarkQueuedWithRetry, MarkQueued, MarkQueuedFails, Update, NoRows, lockVars
  <2>. QED
    BY <1>2, <2>1, <2>2, HeldInCustody DEF CustodyAt
<1>8. CASE EnqueueCreated(n)
  BY <1>0, <1>1, <1>2, <1>8, LeftInCustody
  DEF EnqueueCreated, EnqueueOutbox, ApiGoto, Waiting, lockVars
<1>9. ASSUME NEW m \in Notifs, CancelNotification(m) PROVE CustodyAt(n)'
  BY <1>0, <1>1, <1>2, <1>9, LeftInCustody
  DEF CancelNotification, Cancel, Update, Waiting, lockVars
<1>10. ASSUME NEW m \in Notifs, CreateCallFails(m) PROVE CustodyAt(n)'
  BY <1>10, NoSuchFault DEF CreateCallFails
<1>11. CASE ApiLosesConnection
  BY <1>0, <1>2, <1>11, LeftInCustody DEF ApiLosesConnection, Waiting, storeVars
<1>. QED
  BY <1>3, <1>4, <1>5, <1>6, <1>7, <1>8, <1>9, <1>10, <1>11 DEF ApiNext, HandleCreated

LEMMA RelayKeepsCustody ==
  ASSUME Kept, TypeOK, KnownRows, AcceptedOutcome, Settled, NEW r \in Runners, RelayStep(r),
         UNCHANGED <<apiVars, workerVars>>, NEW n \in Notifs, CustodyAt(n),
         InHand(n) => InHand(n)'
  PROVE  CustodyAt(n)'
<1>1. /\ status \in [Notifs -> Statuses] /\ None \notin Notifs
      /\ outbox \in [Notifs -> {"none", "unpublished", "published"}]
      /\ outboxLock \in [Runners -> Notifs \cup {None}] /\ rpc \in [Runners -> RelayLabels]
      /\ \A q \in Runners : outboxLock[q] = None <=> rpc[q] \in {"idle", "down"}
      /\ ready \in [Notifs \X Retries -> Nat] /\ 0 \in Retries
  BY DeploymentAssumption DEF TypeOK, StoreTypeOK, BrokerTypeOK, Retries
<1>2. UNCHANGED <<apc, sched, rowLock, dpc>>
  BY DEF RelayStep, ClaimOutboxEntry, PublishOutboxEntry, CommitOutboxEntry, DrainOutboxEntry,
         apiVars
<1>3. CASE ClaimOutboxEntry(r)
  <2>1. PICK m \in Notifs :
          /\ outboxLock' = [outboxLock EXCEPT ![r] = m]
          /\ rpc' = [rpc EXCEPT ![r] = IF status[m] # "pending" THEN "drain" ELSE "publish"]
    BY <1>3 DEF ClaimOutboxEntry, ClaimOutboxBatch, RelayGoto
  <2>2. UNCHANGED <<status, outbox>>
    BY <1>3 DEF ClaimOutboxEntry
  <2>3. \A q \in Runners :
          /\ outboxLock'[q] = n /\ rpc'[q] = "mark" => outboxLock[q] = n /\ rpc[q] = "mark"
          /\ outboxLock'[q] = n /\ rpc'[q] = "drain" => status[n] # "pending"
    BY <1>1, <2>1 DEF CustodyAt
  <2>. QED
    BY <1>2, <2>2, <2>3 DEF CustodyAt, Waiting
<1>4. CASE PublishOutboxEntry(r)
  <2>1. UNCHANGED <<status, outbox>> /\ rpc[r] = "publish" /\ outboxLock[r] \in Notifs
    BY <1>1, <1>4 DEF PublishOutboxEntry, RelayGoto
  <2>2. CASE PublishNotification(r, outboxLock[r]) /\ UNCHANGED outboxLock
             /\ rpc' = [rpc EXCEPT ![r] = "mark"]
    <3>1. CASE outboxLock[r] = n
      <4>1. InHand(n)'
        BY <1>1, <2>2, <3>1, EnqueueKeeps DEF PublishNotification, InHand
      <4>2. \A q \in Runners : outboxLock'[q] = n /\ rpc'[q] = "drain" => status'[n] # "pending"
        BY <1>1, <2>1, <2>2 DEF CustodyAt
      <4>. QED
        BY <4>1, <4>2, HeldInCustody
    <3>2. CASE outboxLock[r] # n
      BY <1>1, <1>2, <2>1, <2>2, <3>2, LeftInCustody DEF Waiting
    <3>. QED
      BY <3>1, <3>2
  <2>3. CASE rpc' = [rpc EXCEPT ![r] = "idle"] /\ ReleaseOutboxLock(r)
    BY <1>1, <1>2, <2>1, <2>3, LeftInCustody DEF Waiting, ReleaseOutboxLock
  <2>. QED
    BY <1>4, <2>2, <2>3, NoSuchFault DEF PublishOutboxEntry, RelayGoto
<1>5. CASE CommitOutboxEntry(r)
  <2>1. /\ rpc[r] = "mark" /\ rpc' = [rpc EXCEPT ![r] = "idle"]
        /\ outboxLock' = [outboxLock EXCEPT ![r] = None] /\ outboxLock[r] \in Notifs
    BY <1>1, <1>5 DEF CommitOutboxEntry, RelayGoto, ReleaseOutboxLock
  <2>2. status'[n] = "pending" => status[n] = "pending"
    BY <1>1, <1>5 DEF CommitOutboxEntry, MarkQueued, MarkQueuedFails, Update, NoRows
  <2>3. CASE outboxLock[r] = n
    <3>1. InHand(n)'
      BY <2>1, <2>3 DEF CustodyAt
    <3>2. \A q \in Runners : outboxLock'[q] = n /\ rpc'[q] = "drain" => status'[n] # "pending"
      BY <1>1, <2>1, <2>2 DEF CustodyAt
    <3>. QED
      BY <3>1, <3>2, HeldInCustody
  <2>4. CASE outboxLock[r] # n
    <3>1. status'[n] = status[n] /\ outbox'[n] = outbox[n]
      BY <1>1, <1>5, <2>4
      DEF CommitOutboxEntry, MarkQueued, MarkQueuedFails, Update, NoRows, MarkOutboxPublished
    <3>. QED
      BY <1>1, <1>2, <2>1, <3>1, LeftInCustody DEF Waiting
  <2>. QED
    BY <2>3, <2>4
<1>6. CASE DrainOutboxEntry(r)
  <2>1. /\ rpc[r] = "drain" /\ rpc' = [rpc EXCEPT ![r] = "idle"] /\ UNCHANGED status
        /\ outboxLock' = [outboxLock EXCEPT ![r] = None] /\ outboxLock[r] \in Notifs
        /\ outbox' = [outbox EXCEPT ![outboxLock[r]] = "published"]
    BY <1>1, <1>6 DEF DrainOutboxEntry, RelayGoto, ReleaseOutboxLock, MarkOutboxPublished
  <2>2. status[n] = "pending" => (Waiting(n) => Waiting(n)')
    BY <1>1, <1>2, <2>1 DEF CustodyAt, Waiting
  <2>3. \A q \in Runners : outboxLock'[q] = n /\ rpc'[q] \in {"mark", "drain"}
                             => outboxLock[q] = n /\ rpc[q] = rpc'[q]
    BY <1>1, <2>1
  <2>. QED
    BY <1>2, <2>1, <2>2, <2>3 DEF CustodyAt
<1>. QED
  BY <1>3, <1>4, <1>5, <1>6 DEF RelayStep

LEMMA DueKeepsCustody ==
  ASSUME Kept, TypeOK, KnownRows, AcceptedOutcome, Settled, NEW r \in Runners, DueStep(r),
         UNCHANGED <<apiVars, workerVars>>, NEW n \in Notifs, CustodyAt(n),
         InHand(n) => InHand(n)'
  PROVE  CustodyAt(n)'
<1>1. /\ status \in [Notifs -> Statuses] /\ None \notin Notifs
      /\ rowLock \in [Runners -> Notifs \cup {None}] /\ dpc \in [Runners -> DueLabels]
      /\ \A q \in Runners : rowLock[q] = None <=> dpc[q] \in {"idle", "down"}
      /\ ready \in [Notifs \X Retries -> Nat] /\ 0 \in Retries
  BY DeploymentAssumption DEF TypeOK, StoreTypeOK, BrokerTypeOK, Retries
<1>2. UNCHANGED <<apc, sched, outbox, outboxLock, rpc>>
  BY DEF DueStep, ClaimDue, PublishDue, CommitDue, apiVars
<1>3. CASE ClaimDue(r)
  <2>1. \E m \in Notifs : rowLock' = [rowLock EXCEPT ![r] = m]
    BY <1>3 DEF ClaimDue, ClaimDueScheduled
  <2>2. UNCHANGED status /\ dpc' = [dpc EXCEPT ![r] = "publish"]
    BY <1>3 DEF ClaimDue, DueGoto
  <2>. QED
    BY <1>1, <1>2, <2>1, <2>2, LeftInCustody DEF Waiting
<1>4. CASE PublishDue(r)
  <2>1. UNCHANGED status /\ dpc[r] = "publish" /\ rowLock[r] \in Notifs
    BY <1>1, <1>4 DEF PublishDue, DueGoto
  <2>2. CASE PublishNotification(r, rowLock[r]) /\ UNCHANGED rowLock
             /\ dpc' = [dpc EXCEPT ![r] = "mark"]
    <3>1. CASE rowLock[r] = n
      <4>1. InHand(n)'
        BY <1>1, <2>2, <3>1, EnqueueKeeps DEF PublishNotification, InHand
      <4>. QED
        BY <1>2, <2>1, <4>1, HeldInCustody DEF CustodyAt
    <3>2. CASE rowLock[r] # n
      BY <1>1, <1>2, <2>1, <2>2, <3>2, LeftInCustody DEF Waiting
    <3>. QED
      BY <3>1, <3>2
  <2>3. CASE dpc' = [dpc EXCEPT ![r] = "idle"] /\ ReleaseRowLock(r)
    BY <1>1, <1>2, <2>1, <2>3, LeftInCustody DEF Waiting, ReleaseRowLock
  <2>. QED
    BY <1>4, <2>2, <2>3, NoSuchFault DEF PublishDue, DueGoto
<1>5. CASE CommitDue(r)
  <2>1. /\ dpc[r] = "mark" /\ dpc' = [dpc EXCEPT ![r] = "idle"]
        /\ rowLock' = [rowLock EXCEPT ![r] = None] /\ rowLock[r] \in Notifs
        /\ status' = [status EXCEPT ![rowLock[r]] = "queued"]
    BY <1>1, <1>5 DEF CommitDue, DueGoto, ReleaseRowLock, MarkQueued, Update
  <2>2. CASE rowLock[r] = n
    <3>1. InHand(n)' /\ status'[n] # "pending"
      BY <1>1, <2>1, <2>2 DEF CustodyAt
    <3>. QED
      BY <3>1, HeldInCustody
  <2>3. CASE rowLock[r] # n
    BY <1>1, <1>2, <2>1, <2>3, LeftInCustody DEF Waiting
  <2>. QED
    BY <2>2, <2>3
<1>. QED
  BY <1>3, <1>4, <1>5 DEF DueStep

LEMMA RunnerKeepsCustody ==
  ASSUME Kept, TypeOK, KnownRows, AcceptedOutcome, Settled, RunnerNext,
         UNCHANGED <<apiVars, workerVars>>, NEW n \in Notifs, CustodyAt(n)
  PROVE  CustodyAt(n)'
<1>0. InHand(n) => InHand(n)'
  BY InHandStays DEF Next
<1>1. /\ sched \in [Notifs -> Schedules] /\ rpc \in [Runners -> RelayLabels]
      /\ dpc \in [Runners -> DueLabels]
  BY DEF TypeOK, StoreTypeOK
<1>2. UNCHANGED apc
  BY DEF apiVars
<1>3. ASSUME NEW r \in Runners, RelayCallFails(r) \/ DueCallFails(r) PROVE CustodyAt(n)'
  BY <1>3, NoSuchFault DEF RelayCallFails, DueCallFails
<1>4. ASSUME NEW r \in Runners, RunnerLosesConnection(r) PROVE CustodyAt(n)'
  BY <1>0, <1>2, <1>4, LeftInCustody DEF RunnerLosesConnection, Waiting, storeVars, runnerVars
<1>5. ASSUME NEW r \in Runners, RunnerCrash(r) \/ RunnerStart(r) PROVE CustodyAt(n)'
  <2>1. /\ UNCHANGED <<status, sched, outbox>>
        /\ \A q \in Runners :
             /\ outboxLock'[q] = n /\ rpc'[q] \in {"mark", "drain"}
                  => outboxLock[q] = n /\ rpc[q] = rpc'[q]
             /\ rowLock'[q] = n /\ dpc'[q] = "mark" => rowLock[q] = n /\ dpc[q] = "mark"
    BY <1>1, <1>5
    DEF RunnerCrash, RunnerStart, RelayGoto, DueGoto, ReleaseOutboxLock, ReleaseRowLock,
        storeVars, TypeOK, StoreTypeOK
  <2>. QED
    BY <1>0, <1>2, <2>1, LeftInCustody DEF Waiting
<1>6. ASSUME NEW m \in Notifs, ScheduleFallsDue(m) PROVE CustodyAt(n)'
  BY <1>0, <1>1, <1>2, <1>6, LeftInCustody
  DEF ScheduleFallsDue, Waiting, lockVars, runnerVars
<1>. QED
  BY <1>0, <1>3, <1>4, <1>5, <1>6, RelayKeepsCustody, DueKeepsCustody DEF RunnerNext

\* A worker only moves the row of a delivery it answers for.
LEMMA WorkerMovesItsOwn ==
  ASSUME TypeOK, KnownRows, NEW n \in Notifs, WorkerNext, status'[n] # status[n]
  PROVE  InHand(n) /\ status[n] # "none"
<1>1. PICK c \in Consumers : ConsumerStep(c) \/ WorkerFault(c) \/ WorkerStart(c)
  BY DEF WorkerNext
<1>2. CASE ReleaseStep(c) \/ SendingStep(c) \/ SendingFails(c) \/ DeliverStep(c)
           \/ DeliverFails(c) \/ FailStep(c)
  <2>1. wpc[c] \in {"send", "deliver", "fail", "release"}
    BY <1>2
    DEF ReleaseStep, SendingStep, SendingFails, DeliverStep, DeliverFails, FailStep, Goto
  <2>2. note[c] = n
    BY <1>2
    DEF ReleaseStep, SendingStep, SendingFails, DeliverStep, DeliverFails, FailStep,
        ReleaseSendingToQueued, MarkSending, MarkSendingFails, MarkDelivered,
        MarkDeliveredFails, MarkFailed, MarkFailedFails, Update, NoRows, TypeOK, StoreTypeOK
  <2>3. status[n] # "none"
    BY <2>1, <2>2 DEF KnownRows, Busy
  <2>. QED
    BY <2>1, <2>2, <2>3 DEF InHand, Answers
<1>3. CASE UNCHANGED status
  BY <1>3
<1>. QED
  BY <1>1, <1>2, <1>3
  DEF ConsumerStep, CallFailure, WorkerFault, Receive, LoadNotification, LoadFails,
      WaitForRate, RateLimitFails, PostAccepted, PostRejected, PostTransient,
      EmitStatus, Republish, Settle, ConsumeReturns, WorkerLosesConnection,
      WorkerCrash, PublishChannelFails, Shutdown, WorkerStart, storeVars

LEMMA WorkerKeepsCustody ==
  ASSUME Kept, TypeOK, KnownRows, AcceptedOutcome, Settled, WorkerNext,
         UNCHANGED <<apiVars, runnerVars>>, NEW n \in Notifs, CustodyAt(n)
  PROVE  CustodyAt(n)'
<1>1. InHand(n) => InHand(n)'
  BY InHandStays DEF Next
<1>2. UNCHANGED <<sched, outbox, outboxLock, rowLock, apc, rpc, dpc>>
  BY WorkerSpares DEF lockVars
<1>3. PromiseStep
  BY StepPromised DEF Next
<1>4. status'[n] = "pending" => status[n] = "pending"
  BY <1>3, FirstStatus, WorkerMovesItsOwn
<1>. QED
  BY <1>1, <1>2, <1>4, WorkerMovesItsOwn, LeftInCustody DEF Waiting

\* README "at-least-once": whatever crashes, however many replicas and workers
\* share the work and however often a message is redelivered, a notification
\* that is not terminal still has someone who will take it further.
THEOREM CustodyHolds == ASSUME Kept PROVE Spec => []Custody
<1>1. Init => CustodyInv
  BY DeploymentAssumption
  DEF Init, InitStore, InitBroker, InitApi, InitRunner, InitWorker, CustodyInv, CustodyAt
<1>2. TypeOK /\ KnownRows /\ AcceptedOutcome /\ Settled /\ CustodyInv /\ [Next]_vars => CustodyInv'
  <2> SUFFICES ASSUME TypeOK, KnownRows, AcceptedOutcome, Settled, CustodyInv, [Next]_vars,
                      NEW n \in Notifs
               PROVE  CustodyAt(n)'
    BY DEF CustodyInv
  <2>1. CustodyAt(n)
    BY DEF CustodyInv
  <2>2. CASE UNCHANGED vars
    BY <2>1, <2>2
    DEF vars, storeVars, brokerVars, apiVars, runnerVars, workerVars, CustodyAt, InHand,
        Waiting, Queued, Answers
  <2>. QED
    BY <2>1, <2>2, ApiKeepsCustody, RunnerKeepsCustody, WorkerKeepsCustody DEF Next
<1>3. CustodyInv => Custody
  BY DEF CustodyInv, CustodyAt, InHand, Waiting, Custody, HasCustodian, Open, Terminal
<1>. QED
  BY <1>1, <1>2, <1>3, TypeCorrect, RowsAndOutcome, SettledHolds, PTL DEF Spec
=============================================================================
