------------------------- MODULE NotifyStreamProofs -------------------------
(***************************************************************************)
(* What TLAPS proves of NotifyStream for every set of notifications,       *)
(* schedulers and consumers, every retry limit and every choice of faults: *)
(* type correctness, that a claimed row stays its transaction's own, and   *)
(* that the system implements Lifecycle.                                   *)
(***************************************************************************)
EXTENDS NotifyStream, TLAPS

-----------------------------------------------------------------------------
(* Type correctness.  TypeOK is inductive as it stands, because it ties a  *)
(* transaction's or a delivery's program counter to the row it names.      *)

\* What the guarded UPDATEs write is a status.
LEMMA StatusWrites ==
  ASSUME status \in [Notifs -> Statuses], NEW n, NEW p
  PROVE  /\ MarkQueued(n, p) \/ MarkQueuedFails(n, p) => status' \in [Notifs -> Statuses]
         /\ MarkSending(n, p) \/ MarkSendingFails(n, p) => status' \in [Notifs -> Statuses]
         /\ MarkDelivered(n, p) \/ MarkDeliveredFails(n, p) => status' \in [Notifs -> Statuses]
         /\ MarkFailed(n, p) \/ MarkFailedFails(n, p) => status' \in [Notifs -> Statuses]
         /\ ReleaseSendingToQueued(n, p) => status' \in [Notifs -> Statuses]
         /\ Cancel(n, p) => status' \in [Notifs -> Statuses]
BY DEF MarkQueued, MarkQueuedFails, MarkSending, MarkSendingFails, MarkDelivered,
       MarkDeliveredFails, MarkFailed, MarkFailedFails, ReleaseSendingToQueued,
       Cancel, Update, NoRows, Statuses

\* The queue stays a bag of messages, whatever is put on it or taken off it.
LEMMA QueueWrites ==
  ASSUME ready \in [Notifs \X Retries -> Nat], NEW n \in Notifs, NEW r \in Retries,
         Enqueue(n, r) \/ Dequeue(n, r)
  PROVE  ready' \in [Notifs \X Retries -> Nat]
<1>1. ready[<<n, r>>] \in Nat
  OBVIOUS
<1>. QED
  BY <1>1 DEF Enqueue, Dequeue

\* A first copy has count 0, and publishing keeps the broker's types.
LEMMA PublishWrites ==
  ASSUME BrokerTypeOK, NEW p, NEW n \in Notifs, PublishNotification(p, n)
  PROVE  BrokerTypeOK'
<1>1. 0 \in Retries
  BY DeploymentAssumption DEF Retries
<1>2. ready' \in [Notifs \X Retries -> Nat]
  BY <1>1, QueueWrites DEF PublishNotification, BrokerTypeOK
<1>3. published' \in [Notifs -> Nat]
  <2>1. published[n] + 1 \in Nat
    BY DEF BrokerTypeOK
  <2>. QED
    BY <2>1 DEF PublishNotification, BrokerTypeOK
<1>. QED
  BY <1>2, <1>3 DEF PublishNotification, BrokerTypeOK

LEMMA InitTypeOK == Init => TypeOK
BY DeploymentAssumption
DEF Init, InitStore, InitBroker, InitApi, InitRunner, InitWorker, TypeOK,
    StoreTypeOK, BrokerTypeOK, WorkerTypeOK, Statuses, Schedules, ApiLabels,
    RelayLabels, DueLabels, WorkerLabels, Calls, Settlements, Retries, Busy,
    Process, Outcomes

\* Each of the API's actions keeps the types.
LEMMA ApiTypeOK ==
  ASSUME TypeOK, ApiNext, UNCHANGED <<runnerVars, workerVars>> PROVE TypeOK'
<1> USE DeploymentAssumption
    DEF TypeOK, StoreTypeOK, BrokerTypeOK, WorkerTypeOK, runnerVars, workerVars,
        storeVars, lockVars, brokerVars, apiVars, Busy, Fault, NoFault, ApiGoto, ApiLabels
<1>1. ASSUME NEW n \in Notifs, CreateNotifications(n) PROVE TypeOK'
  BY <1>1 DEF CreateNotifications, InsertNotification, Statuses, Schedules
<1>2. ASSUME NEW n \in Notifs, LoadCreated(n) PROVE TypeOK'
  BY <1>2 DEF LoadCreated
<1>3. ASSUME NEW n \in Notifs, PublishCreated(n) PROVE TypeOK'
  <2>1. CASE PublishNotification(Api, n)
    <3>1. BrokerTypeOK'
      BY <2>1, PublishWrites
    <3>. QED
      BY <1>3, <2>1, <3>1 DEF PublishCreated, PublishNotification, PublishFails, PublishVanishes
  <2>2. CASE PublishFails(Api) \/ PublishVanishes(Api)
    BY <1>3, <2>2 DEF PublishCreated, PublishNotification, PublishFails, PublishVanishes
  <2>. QED
    BY <1>3, <2>1, <2>2 DEF PublishCreated
<1>4. ASSUME NEW n \in Notifs, MarkQueuedWithRetry(n) PROVE TypeOK'
  BY <1>4, StatusWrites DEF MarkQueuedWithRetry
<1>5. ASSUME NEW n \in Notifs, EnqueueCreated(n) PROVE TypeOK'
  BY <1>5 DEF EnqueueCreated, EnqueueOutbox
<1>6. ASSUME NEW n \in Notifs, CreateCallFails(n) PROVE TypeOK'
  BY <1>6, StatusWrites DEF CreateCallFails, EnqueueOutbox
<1>7. ASSUME NEW n \in Notifs, CancelNotification(n) PROVE TypeOK'
  BY <1>7, StatusWrites DEF CancelNotification
<1>8. ASSUME ApiLosesConnection PROVE TypeOK'
  BY <1>8 DEF ApiLosesConnection
<1>. QED
  BY <1>1, <1>2, <1>3, <1>4, <1>5, <1>6, <1>7, <1>8 DEF ApiNext, HandleCreated

\* Each of a scheduler's actions keeps the types.
LEMMA RunnerTypeOK ==
  ASSUME TypeOK, RunnerNext, UNCHANGED <<apiVars, workerVars>> PROVE TypeOK'
<1> USE DeploymentAssumption
    DEF TypeOK, StoreTypeOK, BrokerTypeOK, WorkerTypeOK, runnerVars, workerVars,
        storeVars, lockVars, brokerVars, apiVars, Busy, Fault, NoFault,
        RelayGoto, DueGoto, ReleaseOutboxLock, ReleaseRowLock, RelayLabels, DueLabels
<1>1. ASSUME NEW r \in Runners, ClaimOutboxEntry(r) PROVE TypeOK'
  BY <1>1 DEF ClaimOutboxEntry, ClaimOutboxBatch
<1>2. ASSUME NEW r \in Runners, PublishOutboxEntry(r) PROVE TypeOK'
  <2>1. CASE rpc[r] = "publish" /\ PublishNotification(r, outboxLock[r])
    <3>1. outboxLock[r] \in Notifs
      BY <2>1
    <3>2. BrokerTypeOK'
      BY <2>1, <3>1, PublishWrites
    <3>. QED
      BY <1>2, <2>1, <3>2 DEF PublishOutboxEntry, PublishNotification, PublishFails, PublishVanishes
  <2>2. CASE PublishFails(r) \/ PublishVanishes(r)
    BY <1>2, <2>2 DEF PublishOutboxEntry, PublishNotification, PublishFails, PublishVanishes
  <2>. QED
    BY <1>2, <2>1, <2>2 DEF PublishOutboxEntry
<1>3. ASSUME NEW r \in Runners, CommitOutboxEntry(r) PROVE TypeOK'
  BY <1>3, StatusWrites DEF CommitOutboxEntry, MarkOutboxPublished
<1>4. ASSUME NEW r \in Runners, DrainOutboxEntry(r) PROVE TypeOK'
  BY <1>4 DEF DrainOutboxEntry, MarkOutboxPublished
<1>5. ASSUME NEW r \in Runners, RelayCallFails(r) PROVE TypeOK'
  BY <1>5, StatusWrites DEF RelayCallFails, MarkOutboxPublished
<1>6. ASSUME NEW r \in Runners, ClaimDue(r) PROVE TypeOK'
  BY <1>6 DEF ClaimDue, ClaimDueScheduled
<1>7. ASSUME NEW r \in Runners, PublishDue(r) PROVE TypeOK'
  <2>1. CASE dpc[r] = "publish" /\ PublishNotification(r, rowLock[r])
    <3>1. rowLock[r] \in Notifs
      BY <2>1
    <3>2. BrokerTypeOK'
      BY <2>1, <3>1, PublishWrites
    <3>. QED
      BY <1>7, <2>1, <3>2 DEF PublishDue, PublishNotification, PublishFails, PublishVanishes
  <2>2. CASE PublishFails(r) \/ PublishVanishes(r)
    BY <1>7, <2>2 DEF PublishDue, PublishNotification, PublishFails, PublishVanishes
  <2>. QED
    BY <1>7, <2>1, <2>2 DEF PublishDue
<1>8. ASSUME NEW r \in Runners, CommitDue(r) PROVE TypeOK'
  BY <1>8, StatusWrites DEF CommitDue
<1>9. ASSUME NEW r \in Runners, DueCallFails(r) PROVE TypeOK'
  BY <1>9, StatusWrites DEF DueCallFails
<1>10. ASSUME NEW r \in Runners, RunnerLosesConnection(r) PROVE TypeOK'
  BY <1>10 DEF RunnerLosesConnection
<1>11. ASSUME NEW r \in Runners, RunnerCrash(r) PROVE TypeOK'
  BY <1>11 DEF RunnerCrash
<1>12. ASSUME NEW r \in Runners, RunnerStart(r) PROVE TypeOK'
  BY <1>12 DEF RunnerStart, Connect, Process
<1>13. ASSUME NEW n \in Notifs, ScheduleFallsDue(n) PROVE TypeOK'
  BY <1>13 DEF ScheduleFallsDue, Schedules
<1>. QED
  BY <1>1, <1>2, <1>3, <1>4, <1>5, <1>6, <1>7, <1>8, <1>9, <1>10, <1>11, <1>12, <1>13
  DEF RunnerNext, RelayStep, DueStep

\* Each of a consumer's actions keeps the types.
LEMMA WorkerTypeOKStep ==
  ASSUME TypeOK, WorkerNext, UNCHANGED <<apiVars, runnerVars>> PROVE TypeOK'
<1> USE DeploymentAssumption
    DEF TypeOK, StoreTypeOK, BrokerTypeOK, WorkerTypeOK, runnerVars, workerVars,
        storeVars, lockVars, brokerVars, apiVars, heldVars, providerVars, Busy,
        Fault, NoFault, CallFails, Goto, WorkerLabels, Calls, Settlements
<1>1. ASSUME NEW c \in Consumers, Receive(c) PROVE TypeOK'
  BY <1>1, QueueWrites DEF Receive
<1>2. ASSUME NEW c \in Consumers, LoadNotification(c) PROVE TypeOK'
  BY <1>2 DEF LoadNotification
<1>3. ASSUME NEW c \in Consumers, LoadFails(c) PROVE TypeOK'
  BY <1>3 DEF LoadFails
<1>4. ASSUME NEW c \in Consumers, WaitForRate(c) PROVE TypeOK'
  BY <1>4 DEF WaitForRate
<1>5. ASSUME NEW c \in Consumers, RateLimitFails(c) PROVE TypeOK'
  BY <1>5 DEF RateLimitFails
<1>6. ASSUME NEW c \in Consumers, SendingStep(c) PROVE TypeOK'
  BY <1>6, StatusWrites DEF SendingStep
<1>7. ASSUME NEW c \in Consumers, SendingFails(c) PROVE TypeOK'
  BY <1>7, StatusWrites DEF SendingFails
<1>8. ASSUME NEW c \in Consumers, PostAccepted(c) PROVE TypeOK'
  BY <1>8 DEF PostAccepted, Sent
<1>9. ASSUME NEW c \in Consumers, PostRejected(c) PROVE TypeOK'
  BY <1>9 DEF PostRejected, Sent
<1>10. ASSUME NEW c \in Consumers, PostTransient(c) PROVE TypeOK'
  <2>1. posts' \in [Notifs -> Nat] /\ accepted' \subseteq Notifs
    BY <1>10 DEF PostTransient, Sent
  <2>2. ~(retry[c] >= MaxRetries) => retry[c] < MaxRetries
    BY DEF Retries
  <2>. QED
    BY <1>10, <2>1, <2>2 DEF PostTransient
<1>11. ASSUME NEW c \in Consumers, DeliverStep(c) PROVE TypeOK'
  BY <1>11, StatusWrites DEF DeliverStep
<1>12. ASSUME NEW c \in Consumers, DeliverFails(c) PROVE TypeOK'
  BY <1>12, StatusWrites DEF DeliverFails
<1>13. ASSUME NEW c \in Consumers, FailStep(c) PROVE TypeOK'
  BY <1>13, StatusWrites DEF FailStep
<1>14. ASSUME NEW c \in Consumers, EmitStatus(c) PROVE TypeOK'
  BY <1>14 DEF EmitStatus, PublishStatus, Outcomes
<1>15. ASSUME NEW c \in Consumers, Republish(c) PROVE TypeOK'
  <2>1. CASE wpc[c] = "backoff" /\ RepublishDelivery(c, note[c], retry[c])
    <3>1. note[c] \in Notifs /\ retry[c] + 1 \in Retries
      BY <2>1 DEF Retries
    <3>2. ready' \in [Notifs \X Retries -> Nat]
      BY <2>1, <3>1, QueueWrites DEF RepublishDelivery
    <3>. QED
      BY <1>15, <2>1, <3>2 DEF Republish, RepublishDelivery, PublishFails
  <2>2. CASE UNCHANGED brokerVars
    BY <1>15, <2>2 DEF Republish
  <2>. QED
    BY <1>15, <2>1, <2>2 DEF Republish, PublishFails
<1>16. ASSUME NEW c \in Consumers, ReleaseStep(c) PROVE TypeOK'
  BY <1>16, StatusWrites DEF ReleaseStep
<1>17. ASSUME NEW c \in Consumers, Settle(c) PROVE TypeOK'
  <2>1. ready' \in [Notifs \X Retries -> Nat] /\ dlq' \subseteq Notifs
    <3>1. note[c] \in Notifs /\ retry[c] \in Retries
      BY <1>17 DEF Settle
    <3>. QED
      BY <1>17, <3>1, QueueWrites DEF Settle
  <2>2. retry' \in [Consumers -> Retries]
    BY <1>17 DEF Settle, Retries
  <2>. QED
    BY <1>17, <2>1, <2>2 DEF Settle
<1>18. ASSUME NEW c \in Consumers, ConsumeReturns(c) PROVE TypeOK'
  BY <1>18 DEF ConsumeReturns
<1>19. ASSUME NEW c \in Consumers, WorkerLosesConnection(c) PROVE TypeOK'
  <2>1. ready' \in [Notifs \X Retries -> Nat]
    BY <1>19, QueueWrites DEF WorkerLosesConnection, GiveBack
  <2>. QED
    BY <1>19, <2>1 DEF WorkerLosesConnection
<1>20. ASSUME NEW c \in Consumers, WorkerCrash(c) PROVE TypeOK'
  <2>1. ready' \in [Notifs \X Retries -> Nat]
    BY <1>20, QueueWrites DEF WorkerCrash, GiveBack
  <2>2. retry' \in [Consumers -> Retries]
    BY <1>20 DEF WorkerCrash, Retries
  <2>. QED
    BY <1>20, <2>1, <2>2 DEF WorkerCrash
<1>21. ASSUME NEW c \in Consumers, Shutdown(c) PROVE TypeOK'
  BY <1>21 DEF Shutdown
<1>22. ASSUME NEW c \in Consumers, WorkerStart(c) PROVE TypeOK'
  BY <1>22 DEF WorkerStart, Connect, Process
<1>23. ASSUME NEW c \in Consumers, PublishChannelFails(c) PROVE TypeOK'
  BY <1>23 DEF PublishChannelFails
<1>. QED
  BY <1>1, <1>2, <1>3, <1>4, <1>5, <1>6, <1>7, <1>8, <1>9, <1>10, <1>11, <1>12, <1>13,
     <1>14, <1>15, <1>16, <1>17, <1>18, <1>19, <1>20, <1>21, <1>22, <1>23
  DEF WorkerNext, ConsumerStep, CallFailure, WorkerFault

\* Type correctness of the whole system: in every reachable state each variable
\* has its type and every transaction and delivery in progress names a row.
THEOREM TypeCorrect == Spec => []TypeOK
<1>1. TypeOK /\ [Next]_vars => TypeOK'
  <2> SUFFICES ASSUME TypeOK, [Next]_vars PROVE TypeOK'
    OBVIOUS
  <2>1. CASE UNCHANGED vars
    BY <2>1 DEF vars, storeVars, brokerVars, apiVars, runnerVars, workerVars, TypeOK,
                StoreTypeOK, BrokerTypeOK, WorkerTypeOK, Busy
  <2>. QED
    BY <2>1, ApiTypeOK, RunnerTypeOK, WorkerTypeOKStep DEF Next
<1>. QED
  BY <1>1, InitTypeOK, PTL DEF Spec

-----------------------------------------------------------------------------
(* Row locks.  A guarded UPDATE waits for the transaction that claimed its *)
(* row, so whatever others do a claimed row is as its claimer found it.    *)

\* An UPDATE issued outside any due-time transaction leaves claimed rows alone.
LEMMA UpdateSparesClaimed ==
  ASSUME status \in [Notifs -> Statuses], NEW n, NEW from, NEW to, NEW q \in Runners,
         rowLock[q] \in Notifs, Update(n, None, from, to) \/ NoRows(n, None, from)
  PROVE  status'[rowLock[q]] = status[rowLock[q]]
<1>1. q \in Runners \ {None}
  BY DeploymentAssumption DEF Process
<1>2. rowLock[q] # n
  BY <1>1 DEF Update, NoRows, RowFree
<1>. QED
  BY <1>2 DEF Update, NoRows

LEMMA WritesSpareClaimed ==
  ASSUME status \in [Notifs -> Statuses], NEW n, NEW q \in Runners, rowLock[q] \in Notifs,
         \/ MarkQueued(n, None) \/ MarkQueuedFails(n, None)
         \/ MarkSending(n, None) \/ MarkSendingFails(n, None)
         \/ MarkDelivered(n, None) \/ MarkDeliveredFails(n, None)
         \/ MarkFailed(n, None) \/ MarkFailedFails(n, None)
         \/ ReleaseSendingToQueued(n, None) \/ Cancel(n, None)
  PROVE  status'[rowLock[q]] = status[rowLock[q]]
<1>1. PICK from, to : Update(n, None, from, to) \/ NoRows(n, None, from)
  BY DEF MarkQueued, MarkQueuedFails, MarkSending, MarkSendingFails, MarkDelivered,
         MarkDeliveredFails, MarkFailed, MarkFailedFails, ReleaseSendingToQueued, Cancel
<1>. QED
  BY <1>1, UpdateSparesClaimed

\* A step that touches neither the claims nor a claimed row keeps the invariant.
LEMMA ClaimsKept ==
  ASSUME TypeOK, ClaimedRowStaysPending, UNCHANGED <<rowLock, dpc, sched>>,
         \A q \in Runners : dpc[q] \in {"publish", "mark"}
                              => status'[rowLock[q]] = status[rowLock[q]]
  PROVE  ClaimedRowStaysPending'
BY DEF ClaimedRowStaysPending, Due

LEMMA ApiKeepsClaims ==
  ASSUME TypeOK, ClaimedRowStaysPending, ApiNext, UNCHANGED <<runnerVars, workerVars>>
  PROVE  ClaimedRowStaysPending'
<1> USE DEF TypeOK, StoreTypeOK, runnerVars, storeVars, lockVars
<1>1. ASSUME NEW n \in Notifs, CreateNotifications(n) PROVE ClaimedRowStaysPending'
  BY <1>1 DEF CreateNotifications, InsertNotification, ClaimedRowStaysPending, Due
<1>2. ASSUME NEW n \in Notifs, LoadCreated(n) \/ PublishCreated(n) \/ EnqueueCreated(n)
      PROVE ClaimedRowStaysPending'
  BY <1>2, ClaimsKept DEF LoadCreated, PublishCreated, EnqueueCreated
<1>3. ASSUME NEW n \in Notifs, MarkQueuedWithRetry(n) PROVE ClaimedRowStaysPending'
  BY <1>3, ClaimsKept, WritesSpareClaimed DEF MarkQueuedWithRetry
<1>4. ASSUME NEW n \in Notifs, CreateCallFails(n) PROVE ClaimedRowStaysPending'
  BY <1>4, ClaimsKept, WritesSpareClaimed DEF CreateCallFails
<1>5. ASSUME NEW n \in Notifs, CancelNotification(n) PROVE ClaimedRowStaysPending'
  BY <1>5, ClaimsKept, WritesSpareClaimed DEF CancelNotification
<1>6. ASSUME ApiLosesConnection PROVE ClaimedRowStaysPending'
  BY <1>6, ClaimsKept DEF ApiLosesConnection
<1>. QED
  BY <1>1, <1>2, <1>3, <1>4, <1>5, <1>6 DEF ApiNext, HandleCreated

LEMMA RunnerKeepsClaims ==
  ASSUME TypeOK, ClaimedRowStaysPending, RunnerNext, UNCHANGED <<apiVars, workerVars>>
  PROVE  ClaimedRowStaysPending'
<1> USE DEF TypeOK, StoreTypeOK, runnerVars, storeVars, lockVars
<1>1. ASSUME NEW r \in Runners, ClaimOutboxEntry(r) \/ PublishOutboxEntry(r)
                                  \/ DrainOutboxEntry(r) \/ RunnerLosesConnection(r)
      PROVE ClaimedRowStaysPending'
  BY <1>1, ClaimsKept
  DEF ClaimOutboxEntry, PublishOutboxEntry, DrainOutboxEntry, RunnerLosesConnection
<1>2. ASSUME NEW r \in Runners, CommitOutboxEntry(r) PROVE ClaimedRowStaysPending'
  BY <1>2, ClaimsKept, WritesSpareClaimed DEF CommitOutboxEntry
<1>3. ASSUME NEW r \in Runners, RelayCallFails(r) PROVE ClaimedRowStaysPending'
  BY <1>3, ClaimsKept, WritesSpareClaimed DEF RelayCallFails
<1>4. ASSUME NEW r \in Runners, ClaimDue(r) PROVE ClaimedRowStaysPending'
  BY <1>4, DeploymentAssumption
  DEF ClaimDue, ClaimDueScheduled, DueGoto, ClaimedRowStaysPending, Due
<1>5. ASSUME NEW r \in Runners, PublishDue(r) PROVE ClaimedRowStaysPending'
  BY <1>5, DeploymentAssumption
  DEF PublishDue, DueGoto, ReleaseRowLock, ClaimedRowStaysPending, Due
<1>6. ASSUME NEW r \in Runners, CommitDue(r) \/ DueCallFails(r)
      PROVE ClaimedRowStaysPending'
  BY <1>6, DeploymentAssumption
  DEF CommitDue, DueCallFails, DueGoto, ReleaseRowLock, MarkQueued, Update,
      ClaimedRowStaysPending, Due
<1>7. ASSUME NEW r \in Runners, RunnerCrash(r) \/ RunnerStart(r)
      PROVE ClaimedRowStaysPending'
  BY <1>7, DeploymentAssumption
  DEF RunnerCrash, RunnerStart, DueGoto, ReleaseRowLock, ClaimedRowStaysPending, Due
<1>8. ASSUME NEW n \in Notifs, ScheduleFallsDue(n) PROVE ClaimedRowStaysPending'
  BY <1>8 DEF ScheduleFallsDue, ClaimedRowStaysPending, Due
<1>. QED
  BY <1>1, <1>2, <1>3, <1>4, <1>5, <1>6, <1>7, <1>8 DEF RunnerNext, RelayStep, DueStep

LEMMA WorkerKeepsClaims ==
  ASSUME TypeOK, ClaimedRowStaysPending, WorkerNext, UNCHANGED <<apiVars, runnerVars>>
  PROVE  ClaimedRowStaysPending'
<1> USE DEF TypeOK, StoreTypeOK, runnerVars, storeVars, lockVars
<1>1. ASSUME NEW c \in Consumers, UNCHANGED storeVars PROVE ClaimedRowStaysPending'
  BY <1>1, ClaimsKept
<1>2. ASSUME NEW c \in Consumers, SendingStep(c) \/ SendingFails(c)
      PROVE ClaimedRowStaysPending'
  BY <1>2, ClaimsKept, WritesSpareClaimed DEF SendingStep, SendingFails
<1>3. ASSUME NEW c \in Consumers, DeliverStep(c) \/ DeliverFails(c)
      PROVE ClaimedRowStaysPending'
  BY <1>3, ClaimsKept, WritesSpareClaimed DEF DeliverStep, DeliverFails
<1>4. ASSUME NEW c \in Consumers, FailStep(c) PROVE ClaimedRowStaysPending'
  BY <1>4, ClaimsKept, WritesSpareClaimed DEF FailStep
<1>5. ASSUME NEW c \in Consumers, ReleaseStep(c) PROVE ClaimedRowStaysPending'
  BY <1>5, ClaimsKept, WritesSpareClaimed DEF ReleaseStep
<1>6. ASSUME NEW c \in Consumers, ConsumerStep(c) \/ WorkerFault(c) \/ WorkerStart(c)
      PROVE \/ UNCHANGED storeVars \/ SendingStep(c) \/ SendingFails(c) \/ DeliverStep(c)
            \/ DeliverFails(c) \/ FailStep(c) \/ ReleaseStep(c)
  BY <1>6
  DEF ConsumerStep, CallFailure, WorkerFault, Receive, LoadNotification, LoadFails,
      WaitForRate, RateLimitFails, PostAccepted, PostRejected, PostTransient,
      EmitStatus, Republish, Settle, ConsumeReturns, WorkerLosesConnection,
      WorkerCrash, PublishChannelFails, Shutdown, WorkerStart
<1>. QED
  BY <1>1, <1>2, <1>3, <1>4, <1>5, <1>6 DEF WorkerNext

\* Locking: the row a due-time transaction claimed is pending, due and its own
\* until the transaction ends, for any number of replicas and any faults.
THEOREM ClaimsHold == Spec => []ClaimedRowStaysPending
<1>1. Init => ClaimedRowStaysPending
  BY DEF Init, InitRunner, ClaimedRowStaysPending
<1>2. TypeOK /\ ClaimedRowStaysPending /\ [Next]_vars => ClaimedRowStaysPending'
  <2> SUFFICES ASSUME TypeOK, ClaimedRowStaysPending, [Next]_vars
               PROVE  ClaimedRowStaysPending'
    OBVIOUS
  <2>1. CASE UNCHANGED vars
    BY <2>1 DEF vars, storeVars, runnerVars, ClaimedRowStaysPending, Due
  <2>. QED
    BY <2>1, ApiKeepsClaims, RunnerKeepsClaims, WorkerKeepsClaims DEF Next
<1>. QED
  BY <1>1, <1>2, TypeCorrect, PTL DEF Spec

-----------------------------------------------------------------------------
(* Refinement.  A message, a handler, an outbox entry or a transaction only *)
(* ever concerns a row that exists, and a worker that is about to mark a    *)
(* notification delivered holds the provider's acceptance of it.            *)

\* Whatever refers to a notification refers to one that was created.
KnownRows ==
  /\ \A n \in Notifs, r \in Retries : ready[<<n, r>>] > 0 => status[n] # "none"
  /\ \A c \in Consumers : Busy(c) => status[note[c]] # "none"
  /\ \A n \in Notifs : apc[n] # "idle" => status[n] # "none"
  /\ \A n \in Notifs : outbox[n] # "none" => status[n] # "none"
  /\ \A r \in Runners : outboxLock[r] # None => status[outboxLock[r]] # "none"
  /\ \A r \in Runners : rowLock[r] # None => status[rowLock[r]] # "none"

\* What a worker that got a 2xx knows while it records and announces it.
AcceptedOutcome ==
  \A c \in Consumers :
    /\ wpc[c] = "deliver" => note[c] \in accepted
    /\ wpc[c] = "emitDelivered" => status[note[c]] = "delivered"

PromiseStep == [Promise!Next]_(Promise!vars)

\* Each guarded UPDATE but MarkDelivered is a step of Lifecycle or none.
LEMMA MovesArePromised ==
  ASSUME TypeOK, NEW n \in Notifs, NEW p, UNCHANGED <<accepted, events>>,
         \/ UNCHANGED status
         \/ MarkQueued(n, p) \/ MarkQueuedFails(n, p)
         \/ MarkSending(n, p) \/ MarkSendingFails(n, p)
         \/ MarkDeliveredFails(n, p)
         \/ MarkFailed(n, p) \/ MarkFailedFails(n, p)
         \/ ReleaseSendingToQueued(n, p) \/ Cancel(n, p)
  PROVE  PromiseStep
<1> USE DEF PromiseStep, Promise!Next, Promise!vars, Promise!Move, Update, NoRows
<1>1. CASE \/ UNCHANGED status \/ MarkQueuedFails(n, p) \/ MarkSendingFails(n, p)
           \/ MarkDeliveredFails(n, p) \/ MarkFailedFails(n, p)
  BY <1>1 DEF MarkQueuedFails, MarkSendingFails, MarkDeliveredFails, MarkFailedFails
<1>2. CASE MarkQueued(n, p)
  BY <1>2 DEF MarkQueued, Promise!Queue
<1>3. CASE MarkSending(n, p)
  <2>1. CASE status[n] = "sending"
    BY <1>3, <2>1 DEF MarkSending, TypeOK, StoreTypeOK
  <2>2. CASE status[n] # "sending"
    BY <1>3, <2>2 DEF MarkSending, Promise!Send
  <2>. QED
    BY <2>1, <2>2
<1>4. CASE MarkFailed(n, p)
  BY <1>4 DEF MarkFailed, Promise!Fail
<1>5. CASE ReleaseSendingToQueued(n, p)
  BY <1>5 DEF ReleaseSendingToQueued, Promise!Release
<1>6. CASE Cancel(n, p)
  BY <1>6 DEF Cancel, Promise!Cancel
<1>. QED
  BY <1>1, <1>2, <1>3, <1>4, <1>5, <1>6

\* The API only creates, queues and cancels.
LEMMA ApiPromised ==
  ASSUME TypeOK, ApiNext, UNCHANGED <<runnerVars, workerVars>>
  PROVE  PromiseStep
<1> USE DEF workerVars, storeVars, brokerVars, PublishNotification, PublishFails, PublishVanishes
<1>1. ASSUME NEW n \in Notifs, CreateNotifications(n) PROVE PromiseStep
  BY <1>1 DEF CreateNotifications, InsertNotification, PromiseStep, Promise!Next,
              Promise!vars, Promise!Create, Promise!Move
<1>2. ASSUME NEW n \in Notifs, HandleCreated(n) PROVE PromiseStep
  BY <1>2, MovesArePromised
  DEF HandleCreated, LoadCreated, PublishCreated, MarkQueuedWithRetry, EnqueueCreated
<1>3. ASSUME NEW n \in Notifs, CreateCallFails(n) \/ CancelNotification(n) PROVE PromiseStep
  BY <1>3, MovesArePromised DEF CreateCallFails, CancelNotification
<1>4. ASSUME ApiLosesConnection PROVE PromiseStep
  BY <1>4 DEF ApiLosesConnection, PromiseStep, Promise!vars
<1>. QED
  BY <1>1, <1>2, <1>3, <1>4 DEF ApiNext

\* A scheduler only queues.
LEMMA RunnerPromised ==
  ASSUME TypeOK, RunnerNext, UNCHANGED <<apiVars, workerVars>>
  PROVE  PromiseStep
<1> USE DEF workerVars, storeVars, brokerVars
<1>1. ASSUME NEW r \in Runners, CommitOutboxEntry(r) \/ RelayCallFails(r) PROVE PromiseStep
  <2>1. outboxLock[r] \in Notifs
    BY <1>1 DEF CommitOutboxEntry, RelayCallFails, RelayGoto, TypeOK, StoreTypeOK
  <2>. QED
    BY <1>1, <2>1, MovesArePromised DEF CommitOutboxEntry, RelayCallFails
<1>2. ASSUME NEW r \in Runners, CommitDue(r) \/ DueCallFails(r) PROVE PromiseStep
  <2>1. rowLock[r] \in Notifs
    BY <1>2 DEF CommitDue, DueCallFails, DueGoto, TypeOK, StoreTypeOK
  <2>. QED
    BY <1>2, <2>1, MovesArePromised DEF CommitDue, DueCallFails
<1>3. ASSUME UNCHANGED <<status, events>> PROVE PromiseStep
  BY <1>3 DEF PromiseStep, Promise!vars
<1>4. ASSUME NEW r \in Runners, RelayStep(r) \/ DueStep(r)
      PROVE UNCHANGED <<status, events>> \/ CommitOutboxEntry(r) \/ CommitDue(r)
  BY <1>4
  DEF RelayStep, DueStep, ClaimOutboxEntry, PublishOutboxEntry, DrainOutboxEntry, ClaimDue,
      PublishDue, PublishNotification, PublishFails, PublishVanishes
<1>5. ASSUME NEW r \in Runners, RunnerLosesConnection(r) \/ RunnerCrash(r) \/ RunnerStart(r)
      PROVE UNCHANGED <<status, events>>
  BY <1>5 DEF RunnerLosesConnection, RunnerCrash, RunnerStart, Connect
<1>6. ASSUME NEW n \in Notifs, ScheduleFallsDue(n) PROVE UNCHANGED <<status, events>>
  BY <1>6 DEF ScheduleFallsDue
<1>. QED
  BY <1>1, <1>2, <1>3, <1>4, <1>5, <1>6 DEF RunnerNext

\* A worker sends, records what the provider said, and announces it in that order.
LEMMA WorkerPromised ==
  ASSUME TypeOK, KnownRows, AcceptedOutcome, WorkerNext, UNCHANGED <<apiVars, runnerVars>>
  PROVE  PromiseStep
<1> USE DEF storeVars, brokerVars, providerVars
<1>1. ASSUME UNCHANGED <<status, accepted, events>> PROVE PromiseStep
  BY <1>1 DEF PromiseStep, Promise!vars
<1>2. ASSUME NEW c \in Consumers,
             SendingStep(c) \/ SendingFails(c) \/ FailStep(c) \/ ReleaseStep(c)
      PROVE  PromiseStep
  <2>1. note[c] \in Notifs
    BY <1>2 DEF SendingStep, SendingFails, FailStep, ReleaseStep, Goto, TypeOK,
                WorkerTypeOK, Busy
  <2>. QED
    BY <1>2, <2>1, MovesArePromised DEF SendingStep, SendingFails, FailStep, ReleaseStep
<1>3. ASSUME NEW c \in Consumers, DeliverStep(c) \/ DeliverFails(c) PROVE PromiseStep
  <2>1. wpc[c] = "deliver" /\ note[c] \in Notifs /\ note[c] \in accepted
    BY <1>3 DEF DeliverStep, DeliverFails, Goto, TypeOK, WorkerTypeOK, Busy, AcceptedOutcome
  <2>2. CASE MarkDelivered(note[c], None)
    BY <1>3, <2>1, <2>2
    DEF DeliverStep, DeliverFails, MarkDelivered, Update, PromiseStep, Promise!Next,
        Promise!vars, Promise!Deliver, Promise!Move
  <2>3. CASE ~MarkDelivered(note[c], None)
    BY <1>3, <2>1, <2>3, MovesArePromised DEF DeliverStep, DeliverFails
  <2>. QED
    BY <2>2, <2>3
<1>4. ASSUME NEW c \in Consumers, PostAccepted(c) \/ PostTransient(c) PROVE PromiseStep
  <2>1. note[c] \in Notifs /\ status[note[c]] # "none"
    BY <1>4 DEF PostAccepted, PostTransient, Goto, TypeOK, WorkerTypeOK, Busy, KnownRows
  <2>. QED
    BY <1>4, <2>1 DEF PostAccepted, PostTransient, PromiseStep, Promise!Next,
                      Promise!vars, Promise!Accept
<1>5. ASSUME NEW c \in Consumers, EmitStatus(c) PROVE PromiseStep
  <2>1. note[c] \in Notifs /\ status[note[c]] # "none"
    BY <1>5 DEF EmitStatus, Goto, TypeOK, WorkerTypeOK, Busy, KnownRows
  <2>2. wpc[c] = "emitDelivered" => status[note[c]] = "delivered"
    BY DEF AcceptedOutcome
  <2>. QED
    BY <1>5, <2>1, <2>2
    DEF EmitStatus, Goto, PublishStatus, PromiseStep, Promise!Next, Promise!vars,
        Promise!AnnounceDelivered, Promise!AnnounceFailed
<1>6. ASSUME NEW c \in Consumers, ConsumerStep(c) \/ WorkerFault(c) \/ WorkerStart(c)
      PROVE \/ UNCHANGED <<status, accepted, events>>
            \/ SendingStep(c) \/ SendingFails(c) \/ FailStep(c) \/ ReleaseStep(c)
            \/ DeliverStep(c) \/ DeliverFails(c) \/ PostAccepted(c) \/ PostTransient(c)
            \/ EmitStatus(c)
  BY <1>6
  DEF ConsumerStep, CallFailure, WorkerFault, Receive, LoadNotification, LoadFails,
      WaitForRate, RateLimitFails, PostRejected, Republish, RepublishDelivery,
      PublishFails, Settle, ConsumeReturns, WorkerLosesConnection, WorkerCrash,
      PublishChannelFails, Shutdown, WorkerStart, Connect
<1>. QED
  BY <1>1, <1>2, <1>3, <1>4, <1>5, <1>6 DEF WorkerNext

LEMMA StepPromised ==
  ASSUME TypeOK, KnownRows, AcceptedOutcome, [Next]_vars PROVE PromiseStep
<1>1. CASE UNCHANGED vars
  BY <1>1 DEF vars, storeVars, brokerVars, workerVars, PromiseStep, Promise!vars
<1>. QED
  BY <1>1, ApiPromised, RunnerPromised, WorkerPromised DEF Next

\* Lifecycle never takes back that a row exists, that it is delivered, or that
\* the provider accepted it: what KnownRows and AcceptedOutcome rest on.
LEMMA PromiseMonotone ==
  ASSUME TypeOK, PromiseStep
  PROVE  /\ \A n \in Notifs : status[n] # "none" => status'[n] # "none"
         /\ \A n \in Notifs : status[n] = "delivered" => status'[n] = "delivered"
         /\ accepted \subseteq accepted'
BY DEF PromiseStep, Promise!Next, Promise!vars, Promise!Create, Promise!Queue,
       Promise!Send, Promise!Release, Promise!Cancel, Promise!Fail, Promise!Accept,
       Promise!Deliver, Promise!AnnounceDelivered, Promise!AnnounceFailed,
       Promise!Move, TypeOK, StoreTypeOK

\* A row that exists stays, and pending is only the first status.
LEMMA FirstStatus ==
  ASSUME TypeOK, PromiseStep, NEW n \in Notifs
  PROVE  /\ status'[n] = "none" => status[n] = "none"
         /\ status'[n] = "pending" => status[n] \in {"none", "pending"}
<1>1. status'[n] = "none" => status[n] = "none"
  BY PromiseMonotone
<1>2. status'[n] = "pending" => status[n] \in {"none", "pending"}
  BY DEF PromiseStep, Promise!Next, Promise!vars, Promise!Create, Promise!Queue,
         Promise!Send, Promise!Release, Promise!Cancel, Promise!Fail, Promise!Accept,
         Promise!Deliver, Promise!AnnounceDelivered, Promise!AnnounceFailed,
         Promise!Move, TypeOK, StoreTypeOK
<1>. QED
  BY <1>1, <1>2

\* What a worker leaves alone.
LEMMA WorkerSpares ==
  ASSUME WorkerNext, UNCHANGED <<apiVars, runnerVars>>
  PROVE  /\ UNCHANGED <<sched, outbox, lockVars, published, apc, rpc, dpc>>
         /\ faultsLeft' \in {faultsLeft, faultsLeft - 1}
<1>1. PICK c \in Consumers : ConsumerStep(c) \/ WorkerFault(c) \/ WorkerStart(c)
  BY DEF WorkerNext
<1>2. UNCHANGED <<sched, outbox, lockVars>>
  BY <1>1
  DEF ConsumerStep, CallFailure, WorkerFault, storeVars, lockVars, Receive, LoadNotification,
      LoadFails, WaitForRate, RateLimitFails, SendingStep, SendingFails, PostAccepted,
      PostRejected, PostTransient, DeliverStep, DeliverFails, FailStep, EmitStatus,
      Republish, ReleaseStep, Settle, ConsumeReturns, WorkerLosesConnection, WorkerCrash,
      PublishChannelFails, Shutdown, WorkerStart
<1>3. UNCHANGED published
  BY <1>1
  DEF ConsumerStep, CallFailure, WorkerFault, brokerVars, Receive, LoadNotification,
      LoadFails, WaitForRate, RateLimitFails, SendingStep, SendingFails, PostAccepted,
      PostRejected, PostTransient, DeliverStep, DeliverFails, FailStep, EmitStatus,
      PublishStatus, Republish, RepublishDelivery, PublishFails, ReleaseStep, Settle,
      ConsumeReturns, WorkerLosesConnection, WorkerCrash, PublishChannelFails, Shutdown,
      WorkerStart, Connect
<1>4. faultsLeft' \in {faultsLeft, faultsLeft - 1}
  BY <1>1
  DEF ConsumerStep, CallFailure, WorkerFault, Fault, NoFault, CallFails, Receive,
      LoadNotification, LoadFails, WaitForRate, RateLimitFails, SendingStep, SendingFails,
      PostAccepted, PostRejected, PostTransient, DeliverStep, DeliverFails, FailStep,
      EmitStatus, Republish, ReleaseStep, Settle, ConsumeReturns, WorkerLosesConnection,
      WorkerCrash, PublishChannelFails, Shutdown, WorkerStart
<1>. QED
  BY <1>2, <1>3, <1>4 DEF apiVars, runnerVars

\* A step that moves no reference and forgets no row keeps KnownRows.
LEMMA ApiKeepsRows ==
  ASSUME TypeOK, KnownRows, PromiseStep, ApiNext, UNCHANGED <<runnerVars, workerVars>>
  PROVE  KnownRows'
<1>0. \A n \in Notifs : status[n] # "none" => status'[n] # "none"
  BY PromiseMonotone
<1> USE <1>0, DeploymentAssumption
    DEF KnownRows, TypeOK, StoreTypeOK, BrokerTypeOK, WorkerTypeOK, workerVars, runnerVars,
        storeVars, lockVars, brokerVars, Busy, ApiGoto
<1>1. ASSUME NEW n \in Notifs, CreateNotifications(n) PROVE KnownRows'
  <2>1. status'[n] # "none"
    BY <1>1 DEF CreateNotifications, InsertNotification
  <2>. QED
    BY <1>1, <2>1 DEF CreateNotifications
<1>2. ASSUME NEW n \in Notifs, HandleCreated(n) PROVE KnownRows'
  <2>1. status[n] # "none"
    BY <1>2 DEF HandleCreated, LoadCreated, PublishCreated, MarkQueuedWithRetry, EnqueueCreated
  <2>2. CASE LoadCreated(n) \/ MarkQueuedWithRetry(n) \/ EnqueueCreated(n)
    BY <2>1, <2>2 DEF LoadCreated, MarkQueuedWithRetry, EnqueueCreated, EnqueueOutbox
  <2>3. CASE PublishCreated(n)
    <3>1. ready' = ready \/ ready' = [ready EXCEPT ![<<n, 0>>] = @ + 1]
      BY <2>3 DEF PublishCreated, PublishNotification, PublishFails, PublishVanishes, Enqueue
    <3>2. \A m \in Notifs, r \in Retries : ready'[<<m, r>>] > 0 => m = n \/ ready[<<m, r>>] > 0
      BY <3>1
    <3>. QED
      BY <2>1, <2>3, <3>2 DEF PublishCreated
  <2>. QED
    BY <1>2, <2>2, <2>3 DEF HandleCreated
<1>3. ASSUME NEW n \in Notifs, CreateCallFails(n) PROVE KnownRows'
  BY <1>3 DEF CreateCallFails, EnqueueOutbox
<1>4. ASSUME NEW n \in Notifs, CancelNotification(n) PROVE KnownRows'
  BY <1>4 DEF CancelNotification
<1>5. ASSUME ApiLosesConnection PROVE KnownRows'
  BY <1>5 DEF ApiLosesConnection
<1>. QED
  BY <1>1, <1>2, <1>3, <1>4, <1>5 DEF ApiNext

LEMMA RunnerKeepsRows ==
  ASSUME TypeOK, KnownRows, PromiseStep, RunnerNext, UNCHANGED <<apiVars, workerVars>>
  PROVE  KnownRows'
<1>0. \A n \in Notifs : status[n] # "none" => status'[n] # "none"
  BY PromiseMonotone
<1> USE <1>0, DeploymentAssumption
    DEF KnownRows, TypeOK, StoreTypeOK, BrokerTypeOK, WorkerTypeOK, workerVars, runnerVars,
        apiVars, storeVars, lockVars, brokerVars, Busy, RelayGoto, DueGoto,
        ReleaseOutboxLock, ReleaseRowLock
<1>1. ASSUME NEW r \in Runners, ClaimOutboxEntry(r) \/ ClaimDue(r) PROVE KnownRows'
  BY <1>1 DEF ClaimOutboxEntry, ClaimOutboxBatch, ClaimDue, ClaimDueScheduled
<1>2. ASSUME NEW n \in Notifs, NEW p, PublishNotification(p, n), status[n] # "none"
      PROVE  \A m \in Notifs, r \in Retries : ready'[<<m, r>>] > 0 => status'[m] # "none"
  BY <1>2 DEF PublishNotification, Enqueue
<1>3. ASSUME NEW r \in Runners, PublishOutboxEntry(r) PROVE KnownRows'
  <2>1. outboxLock[r] \in Notifs /\ status[outboxLock[r]] # "none"
    BY <1>3 DEF PublishOutboxEntry
  <2>2. \A m \in Notifs, k \in Retries : ready'[<<m, k>>] > 0 => status'[m] # "none"
    BY <1>2, <1>3, <2>1 DEF PublishOutboxEntry, PublishFails, PublishVanishes
  <2>. QED
    BY <1>3, <2>2 DEF PublishOutboxEntry
<1>4. ASSUME NEW r \in Runners, PublishDue(r) PROVE KnownRows'
  <2>1. rowLock[r] \in Notifs /\ status[rowLock[r]] # "none"
    BY <1>4 DEF PublishDue
  <2>2. \A m \in Notifs, k \in Retries : ready'[<<m, k>>] > 0 => status'[m] # "none"
    BY <1>2, <1>4, <2>1 DEF PublishDue, PublishFails, PublishVanishes
  <2>. QED
    BY <1>4, <2>2 DEF PublishDue
<1>5. ASSUME NEW r \in Runners, CommitOutboxEntry(r) \/ DrainOutboxEntry(r) \/ RelayCallFails(r)
      PROVE  KnownRows'
  BY <1>5 DEF CommitOutboxEntry, DrainOutboxEntry, RelayCallFails, MarkOutboxPublished
<1>6. ASSUME NEW r \in Runners, CommitDue(r) \/ DueCallFails(r) PROVE KnownRows'
  <2>1. rowLock' = [rowLock EXCEPT ![r] = None] /\ UNCHANGED <<outbox, outboxLock, ready>>
    BY <1>6 DEF CommitDue, DueCallFails
  <2>. QED
    BY <2>1
<1>7. ASSUME NEW r \in Runners, RunnerLosesConnection(r) \/ RunnerStart(r) PROVE KnownRows'
  BY <1>7 DEF RunnerLosesConnection, RunnerStart, Connect
<1>8. ASSUME NEW r \in Runners, RunnerCrash(r) PROVE KnownRows'
  BY <1>8 DEF RunnerCrash
<1>9. ASSUME NEW n \in Notifs, ScheduleFallsDue(n) PROVE KnownRows'
  BY <1>9 DEF ScheduleFallsDue
<1>. QED
  BY <1>1, <1>3, <1>4, <1>5, <1>6, <1>7, <1>8, <1>9 DEF RunnerNext, RelayStep, DueStep

LEMMA WorkerKeepsRows ==
  ASSUME TypeOK, KnownRows, PromiseStep, WorkerNext, UNCHANGED <<apiVars, runnerVars>>
  PROVE  KnownRows'
<1>0. \A n \in Notifs : status[n] # "none" => status'[n] # "none"
  BY PromiseMonotone
<1> USE <1>0, DeploymentAssumption
    DEF KnownRows, TypeOK, StoreTypeOK, BrokerTypeOK, WorkerTypeOK, runnerVars,
        apiVars, storeVars, lockVars, brokerVars, heldVars, providerVars, Busy, Goto
<1>1. ASSUME NEW n \in Notifs, NEW r \in Retries, Enqueue(n, r), status[n] # "none"
      PROVE  \A m \in Notifs, k \in Retries : ready'[<<m, k>>] > 0 => status'[m] # "none"
  BY <1>1 DEF Enqueue
<1>2. ASSUME NEW c \in Consumers, Receive(c) PROVE KnownRows'
  <2>1. PICK n \in Notifs, r \in Retries : Dequeue(n, r) /\ note' = [note EXCEPT ![c] = n]
    BY <1>2 DEF Receive
  <2>2. status[n] # "none"
    BY <2>1 DEF Dequeue
  <2>3. \A m \in Notifs, k \in Retries : ready'[<<m, k>>] > 0 => status'[m] # "none"
    <3>1. \A m \in Notifs, k \in Retries : ready'[<<m, k>>] > 0 => ready[<<m, k>>] > 0
      BY <2>1 DEF Dequeue
    <3>. QED
      BY <3>1
  <2>. QED
    BY <1>2, <2>1, <2>2, <2>3 DEF Receive
<1>3. ASSUME NEW c \in Consumers, UNCHANGED <<outbox, lockVars, ready, note>>,
             \A d \in Consumers : Busy(d)' => Busy(d)
      PROVE  KnownRows'
  BY <1>3
<1>4. ASSUME NEW c \in Consumers,
             \/ LoadNotification(c) \/ WaitForRate(c) \/ SendingStep(c) \/ PostAccepted(c)
             \/ PostRejected(c) \/ PostTransient(c) \/ DeliverStep(c) \/ FailStep(c)
             \/ EmitStatus(c) \/ ReleaseStep(c) \/ CallFailure(c)
      PROVE  UNCHANGED <<outbox, lockVars, ready, note>> /\ \A d \in Consumers : Busy(d)' => Busy(d)
  BY <1>4
  DEF LoadNotification, WaitForRate, SendingStep, PostAccepted, PostRejected, PostTransient,
      DeliverStep, FailStep, EmitStatus, PublishStatus, ReleaseStep, CallFailure, LoadFails,
      RateLimitFails, SendingFails, DeliverFails
<1>5. ASSUME NEW c \in Consumers,
             ConsumeReturns(c) \/ Shutdown(c) \/ PublishChannelFails(c) \/ WorkerStart(c)
      PROVE  UNCHANGED <<outbox, lockVars, ready, note>> /\ \A d \in Consumers : Busy(d)' => Busy(d)
  BY <1>5 DEF ConsumeReturns, Shutdown, PublishChannelFails, WorkerStart, Connect
<1>6. ASSUME NEW c \in Consumers, Republish(c) PROVE KnownRows'
  <2>1. note[c] \in Notifs /\ status[note[c]] # "none"
    BY <1>6 DEF Republish
  <2>2. \A m \in Notifs, k \in Retries : ready'[<<m, k>>] > 0 => status'[m] # "none"
    <3>1. CASE wpc[c] = "backoff" /\ RepublishDelivery(c, note[c], retry[c])
      <4>1. retry[c] + 1 \in Retries
        BY <3>1 DEF Retries
      <4>. QED
        BY <1>1, <2>1, <3>1, <4>1 DEF RepublishDelivery
    <3>2. CASE UNCHANGED ready
      BY <3>2
    <3>. QED
      BY <1>6, <3>1, <3>2 DEF Republish, PublishFails
  <2>. QED
    BY <1>6, <2>2 DEF Republish
<1>7. ASSUME NEW c \in Consumers, Settle(c) PROVE KnownRows'
  <2>1. note[c] \in Notifs /\ status[note[c]] # "none" /\ retry[c] \in Retries
    BY <1>7 DEF Settle, Settlements
  <2>2. \A m \in Notifs, k \in Retries : ready'[<<m, k>>] > 0 => status'[m] # "none"
    BY <1>1, <1>7, <2>1 DEF Settle
  <2>. QED
    BY <1>7, <2>2 DEF Settle
<1>8. ASSUME NEW c \in Consumers, GiveBack(c)
      PROVE  \A m \in Notifs, k \in Retries : ready'[<<m, k>>] > 0 => status'[m] # "none"
  BY <1>1, <1>8 DEF GiveBack
<1>9. ASSUME NEW c \in Consumers, WorkerLosesConnection(c) \/ WorkerCrash(c) PROVE KnownRows'
  <2>1. \A m \in Notifs, k \in Retries : ready'[<<m, k>>] > 0 => status'[m] # "none"
    BY <1>8, <1>9 DEF WorkerLosesConnection, WorkerCrash
  <2>. QED
    BY <1>9, <2>1 DEF WorkerLosesConnection, WorkerCrash
<1>. QED
  BY <1>2, <1>3, <1>4, <1>5, <1>6, <1>7, <1>9
  DEF WorkerNext, ConsumerStep, WorkerFault

\* Only the consumer itself moves to "deliver" and "emitDelivered", and what it
\* knew there no one takes back.
LEMMA OutcomeKept ==
  ASSUME TypeOK, AcceptedOutcome, PromiseStep, [Next]_vars
  PROVE  AcceptedOutcome'
<1>0. /\ \A n \in Notifs : status[n] = "delivered" => status'[n] = "delivered"
      /\ accepted \subseteq accepted'
  BY PromiseMonotone
<1> USE <1>0 DEF AcceptedOutcome, TypeOK, WorkerTypeOK, StoreTypeOK, Busy, Goto, workerVars,
                 heldVars, providerVars
<1>1. ASSUME NEW c \in Consumers, PostAccepted(c) PROVE AcceptedOutcome'
  BY <1>1 DEF PostAccepted
<1>2. ASSUME NEW c \in Consumers, DeliverStep(c) PROVE AcceptedOutcome'
  BY <1>2 DEF DeliverStep, MarkDelivered, Update
<1>3. ASSUME \A d \in Consumers :
               wpc'[d] \in {"deliver", "emitDelivered"} => wpc'[d] = wpc[d] /\ note'[d] = note[d]
      PROVE  AcceptedOutcome'
  BY <1>3
<1>4. ASSUME NEW c \in Consumers, ConsumerStep(c) \/ WorkerFault(c) \/ WorkerStart(c)
      PROVE  \/ PostAccepted(c) \/ DeliverStep(c)
             \/ \A d \in Consumers :
                  wpc'[d] \in {"deliver", "emitDelivered"} => wpc'[d] = wpc[d] /\ note'[d] = note[d]
  <2>1. CASE Receive(c) \/ LoadNotification(c) \/ WaitForRate(c) \/ SendingStep(c) \/ CallFailure(c)
    BY <2>1 DEF Receive, LoadNotification, WaitForRate, SendingStep, CallFailure, LoadFails,
                RateLimitFails, SendingFails, DeliverFails
  <2>2. CASE PostRejected(c) \/ PostTransient(c) \/ FailStep(c) \/ EmitStatus(c)
             \/ Republish(c) \/ ReleaseStep(c)
    BY <2>2 DEF PostRejected, PostTransient, FailStep, EmitStatus, Republish, ReleaseStep
  <2>3. CASE Settle(c) \/ ConsumeReturns(c) \/ WorkerFault(c) \/ WorkerStart(c)
    BY <2>3 DEF Settle, ConsumeReturns, WorkerFault, WorkerLosesConnection, WorkerCrash,
                PublishChannelFails, Shutdown, WorkerStart
  <2>. QED
    BY <1>4, <2>1, <2>2, <2>3 DEF ConsumerStep
<1>. QED
  BY <1>1, <1>2, <1>3, <1>4 DEF Next, WorkerNext, vars

\* What the refinement rests on holds in every reachable state.
LEMMA RowsAndOutcome == Spec => [](KnownRows /\ AcceptedOutcome)
<1>1. Init => KnownRows /\ AcceptedOutcome
  BY DeploymentAssumption
  DEF Init, InitStore, InitBroker, InitApi, InitRunner, InitWorker, KnownRows,
      AcceptedOutcome, Busy
<1>2. TypeOK /\ KnownRows /\ AcceptedOutcome /\ [Next]_vars => KnownRows' /\ AcceptedOutcome'
  <2> SUFFICES ASSUME TypeOK, KnownRows, AcceptedOutcome, [Next]_vars
               PROVE  KnownRows' /\ AcceptedOutcome'
    OBVIOUS
  <2>1. PromiseStep
    BY StepPromised
  <2>2. CASE UNCHANGED vars
    BY <2>2, <2>1, OutcomeKept
    DEF vars, storeVars, brokerVars, apiVars, workerVars, KnownRows, Busy
  <2>3. CASE Next
    BY <2>1, <2>3, ApiKeepsRows, RunnerKeepsRows, WorkerKeepsRows, OutcomeKept DEF Next
  <2>. QED
    BY <2>2, <2>3
<1>. QED
  BY <1>1, <1>2, TypeCorrect, PTL DEF Spec

\* Refinement: for every number of processes and under every fault, what a
\* client sees of a notification is a behaviour of Lifecycle.
THEOREM LifecycleHolds == Spec => LifecycleImplemented
<1>1. Init => Promise!Init
  BY DEF Init, InitStore, InitBroker, InitWorker, Promise!Init
<1>2. TypeOK /\ KnownRows /\ AcceptedOutcome /\ [Next]_vars => [Promise!Next]_(Promise!vars)
  BY StepPromised DEF PromiseStep
<1>. QED
  BY <1>1, <1>2, TypeCorrect, RowsAndOutcome, PTL DEF Spec, LifecycleImplemented, Promise!Spec
=============================================================================
