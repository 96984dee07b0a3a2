--------------------------- MODULE ToleranceProofs ---------------------------
(***************************************************************************)
(* What TLAPS proves of NotifyStream where some faults are left out, each  *)
(* theorem with exactly those that make it false (one such fault is        *)
(* enough, TLC shows): an acknowledgement, a dead letter and an            *)
(* announcement are each about a notification that needs no one's          *)
(* attention, and a confirmed cancellation is respected, whatever crashes, *)
(* whatever else fails and however many workers there are.                 *)
(***************************************************************************)
EXTENDS NotifyStreamProofs

\* No worker goes on after it was told to stop, or without its connection or the
\* channel it publishes on.
Attached == Faults \cap {"shutdown", "worker_conn", "publish_channel"} = {}

\* A worker's call to the database has the result it returns.
Answered == Faults \cap {"db", "shutdown"} = {}

Tolerated == Attached /\ Answered

\* Where a row may be once a worker has been allowed to send it.
Past == {"sending", "delivered", "failed"}

\* What each consumer knows of the row it works on.  Without a connection it has
\* nothing left to do but settle, and without a release a row that is being
\* sent cannot be queued, and so not cancelled, again.
WorkerKnows ==
  \A c \in Consumers :
    /\ "shutdown" \notin Faults => ~stop[c]
    /\ Attached =>
         /\ c \in bus \/ wpc[c] \in {"idle", "down", "ack"}
         /\ wpc[c] # "release"
         /\ wpc[c] \in {"post", "deliver", "backoff"} => status[note[c]] \in Past
    /\ Answered =>
         (wpc[c] \in {"emitDelivered", "emitFailed"} => status[note[c]] \in Terminal)
    /\ Tolerated =>
         /\ wpc[c] = "ack" => status[note[c]] \in Past \cup Terminal
         /\ wpc[c] = "drop" => status[note[c]] \in Terminal

Settled ==
  /\ WorkerKnows
  /\ Tolerated => DeadLettersSettled
  /\ Answered => AnnouncedIsSettled

-----------------------------------------------------------------------------
(* Rows do not go back *)

\* No UPDATE but ReleaseSendingToQueued queues a row that is being sent.
LEMMA WritesKeepSending ==
  ASSUME status \in [Notifs -> Statuses], NEW n, NEW p,
         \/ UNCHANGED status
         \/ MarkQueued(n, p) \/ MarkQueuedFails(n, p)
         \/ MarkSending(n, p) \/ MarkSendingFails(n, p)
         \/ MarkDelivered(n, p) \/ MarkDeliveredFails(n, p)
         \/ MarkFailed(n, p) \/ MarkFailedFails(n, p) \/ Cancel(n, p)
  PROVE  \A m \in Notifs : status[m] = "sending" => status'[m] # "queued"
BY DEF MarkQueued, MarkQueuedFails, MarkSending, MarkSendingFails, MarkDelivered,
       MarkDeliveredFails, MarkFailed, MarkFailedFails, Cancel, Update, NoRows

LEMMA StepKeepsSending ==
  ASSUME TypeOK, \A c \in Consumers : wpc[c] # "release", [Next]_vars
  PROVE  \A m \in Notifs : status[m] = "sending" => status'[m] # "queued"
<1> DEFINE Kept == \A m \in Notifs : status[m] = "sending" => status'[m] # "queued"
<1> USE DEF TypeOK, StoreTypeOK, storeVars
<1>1. CASE UNCHANGED vars
  BY <1>1, WritesKeepSending DEF vars
<1>2. CASE ApiNext
  <2>1. ASSUME NEW n \in Notifs, CreateNotifications(n) PROVE Kept
    BY <2>1 DEF CreateNotifications, InsertNotification
  <2>2. ASSUME NEW n \in Notifs, HandleCreated(n) PROVE Kept
    BY <2>2, WritesKeepSending
    DEF HandleCreated, LoadCreated, PublishCreated, MarkQueuedWithRetry, EnqueueCreated
  <2>3. ASSUME NEW n \in Notifs, CreateCallFails(n) \/ CancelNotification(n) PROVE Kept
    BY <2>3, WritesKeepSending DEF CreateCallFails, CancelNotification
  <2>4. ASSUME ApiLosesConnection PROVE Kept
    BY <2>4, WritesKeepSending DEF ApiLosesConnection
  <2>. QED
    BY <1>2, <2>1, <2>2, <2>3, <2>4 DEF ApiNext
<1>3. CASE RunnerNext
  <2>1. ASSUME NEW r \in Runners, RelayStep(r) \/ RelayCallFails(r) PROVE Kept
    BY <2>1, WritesKeepSending
    DEF RelayStep, ClaimOutboxEntry, PublishOutboxEntry, CommitOutboxEntry,
        DrainOutboxEntry, RelayCallFails
  <2>2. ASSUME NEW r \in Runners, DueStep(r) \/ DueCallFails(r) PROVE Kept
    BY <2>2, WritesKeepSending DEF DueStep, ClaimDue, PublishDue, CommitDue, DueCallFails
  <2>3. ASSUME NEW r \in Runners, RunnerLosesConnection(r) \/ RunnerCrash(r) \/ RunnerStart(r)
        PROVE  Kept
    BY <2>3, WritesKeepSending DEF RunnerLosesConnection, RunnerCrash, RunnerStart
  <2>4. ASSUME NEW n \in Notifs, ScheduleFallsDue(n) PROVE Kept
    BY <2>4, WritesKeepSending DEF ScheduleFallsDue
  <2>. QED
    BY <1>3, <2>1, <2>2, <2>3, <2>4 DEF RunnerNext
<1>4. CASE WorkerNext
  <2>1. ASSUME NEW c \in Consumers,
               SendingStep(c) \/ SendingFails(c) \/ DeliverStep(c) \/ DeliverFails(c) \/ FailStep(c)
        PROVE  Kept
    BY <2>1, WritesKeepSending DEF SendingStep, SendingFails, DeliverStep, DeliverFails, FailStep
  <2>2. ASSUME NEW c \in Consumers, ReleaseStep(c) PROVE FALSE
    BY <2>2 DEF ReleaseStep, Goto
  <2>3. ASSUME NEW c \in Consumers, ConsumerStep(c) \/ WorkerFault(c) \/ WorkerStart(c)
        PROVE  \/ UNCHANGED status \/ ReleaseStep(c) \/ SendingStep(c) \/ SendingFails(c)
               \/ DeliverStep(c) \/ DeliverFails(c) \/ FailStep(c)
    BY <2>3
    DEF ConsumerStep, CallFailure, WorkerFault, Receive, LoadNotification, LoadFails,
        WaitForRate, RateLimitFails, PostAccepted, PostRejected, PostTransient,
        EmitStatus, Republish, Settle, ConsumeReturns, WorkerLosesConnection,
        WorkerCrash, PublishChannelFails, Shutdown, WorkerStart
  <2>. QED
    BY <1>4, <2>1, <2>2, <2>3, WritesKeepSending DEF WorkerNext
<1>. QED
  BY <1>1, <1>2, <1>3, <1>4 DEF Next

\* What a consumer knows of a row stays true whoever moves the row.
LEMMA RowsStay ==
  ASSUME TypeOK, KnownRows, AcceptedOutcome, WorkerKnows, [Next]_vars
  PROVE  \A n \in Notifs : /\ Attached /\ status[n] \in Past => status'[n] \in Past
                           /\ status[n] \in Terminal => status'[n] \in Terminal
<1>1. PromiseStep
  BY StepPromised
<1>2. Attached => \A m \in Notifs : status[m] = "sending" => status'[m] # "queued"
  BY StepKeepsSending DEF WorkerKnows
<1>. QED
  BY <1>1, <1>2
  DEF PromiseStep, Promise!Next, Promise!vars, Promise!Create, Promise!Queue,
      Promise!Send, Promise!Release, Promise!Cancel, Promise!Fail, Promise!Accept,
      Promise!Deliver, Promise!AnnounceDelivered, Promise!AnnounceFailed,
      Promise!Move, TypeOK, StoreTypeOK, Past, Terminal

-----------------------------------------------------------------------------
(* What each consumer knows *)

\* A step that moves no delivery and takes no worker's connection.
LEMMA OthersKeepKnowledge ==
  ASSUME TypeOK, KnownRows, AcceptedOutcome, Settled, [Next]_vars,
         UNCHANGED <<wpc, note, stop, dlq, events>>,
         \A c \in Consumers : c \in bus => c \in bus'
  PROVE  Settled'
<1>1. \A n \in Notifs : /\ Attached /\ status[n] \in Past => status'[n] \in Past
                        /\ status[n] \in Terminal => status'[n] \in Terminal
  BY RowsStay DEF Settled
<1>2. \A c \in Consumers : wpc[c] \notin {"idle", "down"} => note[c] \in Notifs
  BY DEF TypeOK, WorkerTypeOK, Busy
<1>3. WorkerKnows'
  BY <1>1, <1>2 DEF Settled, WorkerKnows, Tolerated
<1>4. dlq \subseteq Notifs
  BY DEF TypeOK, BrokerTypeOK
<1>. QED
  BY <1>1, <1>3, <1>4 DEF Settled, DeadLettersSettled, AnnouncedIsSettled

LEMMA ApiKeepsKnowledge ==
  ASSUME TypeOK, KnownRows, AcceptedOutcome, Settled, ApiNext,
         UNCHANGED <<runnerVars, workerVars>>
  PROVE  Settled'
<1>1. UNCHANGED <<wpc, note, stop>>
  BY DEF workerVars
<1>2. Api \notin Consumers
  BY DeploymentAssumption
<1>3. UNCHANGED <<dlq, events>> /\ \A c \in Consumers : c \in bus => c \in bus'
  <2> USE <1>2 DEF brokerVars, PublishNotification, PublishFails, PublishVanishes
  <2>1. ASSUME NEW n \in Notifs, HandleCreated(n)
        PROVE  UNCHANGED <<dlq, events>> /\ \A c \in Consumers : c \in bus => c \in bus'
    BY <2>1 DEF HandleCreated, LoadCreated, PublishCreated, MarkQueuedWithRetry, EnqueueCreated
  <2>2. ASSUME NEW n \in Notifs,
               CreateNotifications(n) \/ CreateCallFails(n) \/ CancelNotification(n)
        PROVE  UNCHANGED <<dlq, events>> /\ \A c \in Consumers : c \in bus => c \in bus'
    BY <2>2 DEF CreateNotifications, CreateCallFails, CancelNotification
  <2>3. ASSUME ApiLosesConnection
        PROVE  UNCHANGED <<dlq, events>> /\ \A c \in Consumers : c \in bus => c \in bus'
    BY <2>3 DEF ApiLosesConnection
  <2>. QED
    BY <2>1, <2>2, <2>3 DEF ApiNext
<1>. QED
  BY <1>1, <1>3, OthersKeepKnowledge DEF Next

LEMMA RunnerKeepsKnowledge ==
  ASSUME TypeOK, KnownRows, AcceptedOutcome, Settled, RunnerNext,
         UNCHANGED <<apiVars, workerVars>>
  PROVE  Settled'
<1>1. UNCHANGED <<wpc, note, stop>>
  BY DEF workerVars
<1>2. Runners \cap Consumers = {}
  BY DeploymentAssumption
<1>3. UNCHANGED <<dlq, events>> /\ \A c \in Consumers : c \in bus => c \in bus'
  <2> USE <1>2 DEF brokerVars, PublishNotification, PublishFails, PublishVanishes
  <2>1. ASSUME NEW r \in Runners, RelayStep(r) \/ RelayCallFails(r)
        PROVE  UNCHANGED <<dlq, events>> /\ \A c \in Consumers : c \in bus => c \in bus'
    BY <2>1 DEF RelayStep, ClaimOutboxEntry, PublishOutboxEntry, CommitOutboxEntry,
                DrainOutboxEntry, RelayCallFails
  <2>2. ASSUME NEW r \in Runners, DueStep(r) \/ DueCallFails(r)
        PROVE  UNCHANGED <<dlq, events>> /\ \A c \in Consumers : c \in bus => c \in bus'
    BY <2>2 DEF DueStep, ClaimDue, PublishDue, CommitDue, DueCallFails
  <2>3. ASSUME NEW r \in Runners, RunnerLosesConnection(r) \/ RunnerCrash(r) \/ RunnerStart(r)
        PROVE  UNCHANGED <<dlq, events>> /\ \A c \in Consumers : c \in bus => c \in bus'
    BY <2>3 DEF RunnerLosesConnection, RunnerCrash, RunnerStart, Connect
  <2>4. ASSUME NEW n \in Notifs, ScheduleFallsDue(n)
        PROVE  UNCHANGED <<dlq, events>> /\ \A c \in Consumers : c \in bus => c \in bus'
    BY <2>4 DEF ScheduleFallsDue
  <2>. QED
    BY <2>1, <2>2, <2>3, <2>4 DEF RunnerNext
<1>. QED
  BY <1>1, <1>3, OthersKeepKnowledge DEF Next

\* A consumer's own step: each call's result settles what the next one needs.
LEMMA WorkerKeepsKnowledge ==
  ASSUME TypeOK, KnownRows, AcceptedOutcome, Settled, WorkerNext,
         UNCHANGED <<apiVars, runnerVars>>
  PROVE  Settled'
<1>0. PICK c \in Consumers : ConsumerStep(c) \/ WorkerFault(c) \/ WorkerStart(c)
  BY DEF WorkerNext
<1>1. \A n \in Notifs : /\ Attached /\ status[n] \in Past => status'[n] \in Past
                        /\ status[n] \in Terminal => status'[n] \in Terminal
  BY RowsStay DEF Settled, Next
<1>2. /\ wpc \in [Consumers -> WorkerLabels] /\ note \in [Consumers -> Notifs \cup {None}]
      /\ stop \in [Consumers -> BOOLEAN] /\ dlq \subseteq Notifs
      /\ status \in [Notifs -> Statuses]
      /\ \A d \in Consumers : wpc[d] \notin {"idle", "down"} =>
                                note[d] \in Notifs /\ status[note[d]] # "none"
  BY DEF TypeOK, WorkerTypeOK, BrokerTypeOK, StoreTypeOK, Busy, KnownRows
<1>3. \A d \in Consumers :
        /\ Attached => /\ ~Fault("worker_conn") /\ ~Fault("publish_channel")
                       /\ ~Fault("shutdown") /\ ~stop[d]
        /\ Answered => /\ ~CallFails(d, "db") /\ ~Fault("db") /\ ~Fault("shutdown")
                       /\ ~stop[d]
  BY DEF Attached, Answered, CallFails, Fault, Settled, WorkerKnows
<1>4. WorkerKnows /\ (Tolerated <=> Attached /\ Answered)
  BY DEF Settled, Tolerated
\* It is enough to look at c, and at what c adds to the dead letters and the events.
<1>5. ASSUME \A d \in Consumers \ {c} : wpc'[d] = wpc[d] /\ note'[d] = note[d] /\ stop'[d] = stop[d]
                                          /\ (d \in bus => d \in bus'),
             "shutdown" \notin Faults => ~stop'[c],
             Attached =>
               /\ c \in bus' \/ wpc'[c] \in {"idle", "down", "ack"}
               /\ wpc'[c] # "release"
               /\ wpc'[c] \in {"post", "deliver", "backoff"} => status'[note'[c]] \in Past,
             Answered =>
               (wpc'[c] \in {"emitDelivered", "emitFailed"} => status'[note'[c]] \in Terminal),
             Tolerated =>
               /\ wpc'[c] = "ack" => status'[note'[c]] \in Past \cup Terminal
               /\ wpc'[c] = "drop" => status'[note'[c]] \in Terminal,
             Tolerated => \A n \in dlq' \ dlq : status'[n] \in Terminal,
             Answered => \A n \in Notifs, o \in Outcomes :
               <<n, o>> \in events' => <<n, o>> \in events \/ status'[n] \in Terminal
      PROVE  Settled'
  <2>1. WorkerKnows'
    <3> SUFFICES ASSUME NEW d \in Consumers, d # c
                 PROVE  /\ "shutdown" \notin Faults => ~stop'[d]
                        /\ Attached =>
                             /\ d \in bus' \/ wpc'[d] \in {"idle", "down", "ack"}
                             /\ wpc'[d] # "release"
                             /\ wpc'[d] \in {"post", "deliver", "backoff"}
                                  => status'[note'[d]] \in Past
                        /\ Answered =>
                             (wpc'[d] \in {"emitDelivered", "emitFailed"}
                                => status'[note'[d]] \in Terminal)
                        /\ Tolerated =>
                             /\ wpc'[d] = "ack" => status'[note'[d]] \in Past \cup Terminal
                             /\ wpc'[d] = "drop" => status'[note'[d]] \in Terminal
      BY <1>5 DEF WorkerKnows
    <3>1. wpc'[d] = wpc[d] /\ note'[d] = note[d] /\ stop'[d] = stop[d] /\ (d \in bus => d \in bus')
      BY <1>5
    <3>. QED
      BY <3>1, <1>1, <1>2, <1>4 DEF WorkerKnows
  <2>2. Tolerated => DeadLettersSettled'
    BY <1>1, <1>2, <1>5 DEF DeadLettersSettled, Settled
  <2>3. Answered => AnnouncedIsSettled'
    BY <1>1, <1>5 DEF AnnouncedIsSettled, Settled
  <2>. QED
    BY <2>1, <2>2, <2>3 DEF Settled
<1> USE DEF Goto, heldVars, providerVars, brokerVars, storeVars, Past, Terminal
<1>6. CASE Receive(c)
  BY <1>2, <1>4, <1>5, <1>6 DEF Receive, WorkerKnows
<1>7. CASE LoadNotification(c)
  BY <1>2, <1>4, <1>5, <1>7 DEF LoadNotification, WorkerKnows, Open, Statuses
<1>8. CASE WaitForRate(c) \/ RateLimitFails(c)
  BY <1>2, <1>4, <1>5, <1>8 DEF WaitForRate, RateLimitFails, WorkerKnows
<1>9. CASE SendingStep(c)
  <2>1. CASE MarkSending(note[c], None) /\ wpc[c] = "send" /\ wpc' = [wpc EXCEPT ![c] = "post"]
    BY <1>2, <1>4, <1>5, <1>9, <2>1 DEF SendingStep, MarkSending, Update, WorkerKnows
  <2>2. CASE MarkSendingFails(note[c], None) /\ wpc[c] = "send" /\ wpc' = [wpc EXCEPT ![c] = "ack"]
    BY <1>2, <1>4, <1>5, <1>9, <2>2 DEF SendingStep, MarkSendingFails, NoRows, WorkerKnows, Statuses
  <2>. QED
    BY <1>9, <2>1, <2>2 DEF SendingStep
<1>10. CASE PostAccepted(c) \/ PostRejected(c) \/ PostTransient(c)
  BY <1>2, <1>4, <1>5, <1>10 DEF PostAccepted, PostRejected, PostTransient, WorkerKnows
<1>11. CASE DeliverStep(c)
  <2>1. CASE MarkDelivered(note[c], None) /\ wpc[c] = "deliver"
             /\ wpc' = [wpc EXCEPT ![c] = "emitDelivered"]
    BY <1>2, <1>4, <1>5, <1>11, <2>1 DEF DeliverStep, MarkDelivered, Update, WorkerKnows
  <2>2. CASE MarkDeliveredFails(note[c], None) /\ wpc[c] = "deliver" /\ wpc' = [wpc EXCEPT ![c] = "drop"]
    BY <1>2, <1>4, <1>5, <1>11, <2>2 DEF DeliverStep, MarkDeliveredFails, NoRows, WorkerKnows
  <2>. QED
    BY <1>11, <2>1, <2>2 DEF DeliverStep
<1>12. CASE FailStep(c)
  <2>1. CASE MarkFailed(note[c], None)
    BY <1>2, <1>3, <1>4, <1>5, <1>12, <2>1 DEF FailStep, MarkFailed, Update, WorkerKnows
  <2>2. CASE MarkFailedFails(note[c], None)
    BY <1>2, <1>3, <1>4, <1>5, <1>12, <2>2 DEF FailStep, MarkFailedFails, NoRows, WorkerKnows, Statuses
  <2>3. CASE CallFails(c, "db")
    BY <1>2, <1>3, <1>4, <1>5, <1>12, <2>3 DEF FailStep, WorkerKnows
  <2>. QED
    BY <1>12, <2>1, <2>2, <2>3 DEF FailStep
<1>13. CASE EmitStatus(c)
  BY <1>2, <1>4, <1>5, <1>13 DEF EmitStatus, PublishStatus, WorkerKnows
<1>14. CASE Republish(c)
  BY <1>2, <1>3, <1>4, <1>5, <1>14 DEF Republish, RepublishDelivery, PublishFails, WorkerKnows
<1>15. CASE ReleaseStep(c) \/ CallFailure(c) \/ Shutdown(c)
  <2>1. CASE ReleaseStep(c)
    BY <1>2, <1>3, <1>4, <1>5, <2>1 DEF ReleaseStep, WorkerKnows
  <2>2. CASE LoadFails(c)
    BY <1>2, <1>3, <1>4, <1>5, <2>2 DEF LoadFails, WorkerKnows
  <2>3. CASE SendingFails(c)
    BY <1>2, <1>3, <1>4, <1>5, <2>3 DEF SendingFails, WorkerKnows
  <2>4. CASE DeliverFails(c)
    BY <1>2, <1>3, <1>4, <1>5, <2>4 DEF DeliverFails, WorkerKnows
  <2>5. CASE Shutdown(c)
    BY <1>2, <1>3, <1>4, <1>5, <2>5 DEF Shutdown, Fault, Attached, Answered, WorkerKnows
  <2>. QED
    BY <1>8, <1>15, <2>1, <2>2, <2>3, <2>4, <2>5 DEF CallFailure
<1>16. CASE Settle(c)
  BY <1>2, <1>4, <1>5, <1>16 DEF Settle, WorkerKnows
<1>17. CASE ConsumeReturns(c)
  BY <1>2, <1>4, <1>5, <1>17 DEF ConsumeReturns, WorkerKnows
<1>18. CASE WorkerLosesConnection(c)
  BY <1>2, <1>3, <1>4, <1>5, <1>18 DEF WorkerLosesConnection, WorkerKnows
<1>19. CASE WorkerCrash(c)
  BY <1>2, <1>4, <1>5, <1>19 DEF WorkerCrash, WorkerKnows
<1>20. CASE WorkerStart(c)
  BY <1>2, <1>4, <1>5, <1>20 DEF WorkerStart, Connect, WorkerKnows
<1>21. CASE PublishChannelFails(c)
  BY <1>2, <1>3, <1>4, <1>5, <1>21 DEF PublishChannelFails, WorkerKnows
<1>. QED
  BY <1>0, <1>6, <1>7, <1>8, <1>9, <1>10, <1>11, <1>12, <1>13, <1>14, <1>15, <1>16, <1>17,
     <1>18, <1>19, <1>20, <1>21
  DEF ConsumerStep, CallFailure, WorkerFault

-----------------------------------------------------------------------------
(* The theorems *)

LEMMA SettledHolds == Spec => []Settled
<1>1. Init => Settled
  BY DEF Init, InitBroker, InitWorker, Settled, WorkerKnows, DeadLettersSettled, AnnouncedIsSettled
<1>2. TypeOK /\ KnownRows /\ AcceptedOutcome /\ Settled /\ [Next]_vars => Settled'
  <2> SUFFICES ASSUME TypeOK, KnownRows, AcceptedOutcome, Settled, [Next]_vars PROVE Settled'
    OBVIOUS
  <2>1. CASE UNCHANGED vars
    BY <2>1, OthersKeepKnowledge DEF vars, brokerVars, workerVars
  <2>. QED
    BY <2>1, ApiKeepsKnowledge, RunnerKeepsKnowledge, WorkerKeepsKnowledge DEF Next
<1>. QED
  BY <1>1, <1>2, TypeCorrect, RowsAndOutcome, PTL DEF Spec

\* handleDelivery returns nil only once the row is past pending and queued: for
\* any number of workers, and although a message may have been redelivered,
\* published twice or lost, no acknowledged notification is left to be sent.
THEOREM AckSettledHolds == ASSUME Tolerated PROVE Spec => []AckSettled
<1>1. Settled => AckSettled
  BY DEF Settled, WorkerKnows, AckSettled, Past, Terminal
<1>. QED
  BY <1>1, SettledHolds, PTL

\* Nothing in the dead-letter queue, which no component reads, is still to be
\* sent: the only Nack without requeue left is that of a late MarkDelivered.
THEOREM DeadLettersSettledHolds == ASSUME Tolerated PROVE Spec => []DeadLettersSettled
<1>1. Settled => DeadLettersSettled
  BY DEF Settled
<1>. QED
  BY <1>1, SettledHolds, PTL

\* An announced outcome is final, although handleDelivery does not look at what
\* MarkFailed returned before it announces the failure.
THEOREM AnnouncedIsSettledHolds == ASSUME Answered PROVE Spec => []AnnouncedIsSettled
<1>1. Settled => AnnouncedIsSettled
  BY DEF Settled
<1>. QED
  BY <1>1, SettledHolds, PTL

\* A confirmed cancellation is respected by every worker, also by those that
\* hold another copy of the message.
THEOREM NoPostAfterCancelHolds == ASSUME Attached PROVE Spec => NoPostAfterCancel
<1>1. TypeOK /\ Settled /\ [Next]_vars
        => [\A n \in Notifs : status[n] = "cancelled" => posts'[n] = posts[n]]_vars
  <2> SUFFICES ASSUME TypeOK, Settled, Next, NEW n \in Notifs, status[n] = "cancelled"
               PROVE  posts'[n] = posts[n]
    OBVIOUS
  <2>1. CASE UNCHANGED workerVars
    BY <2>1 DEF workerVars
  <2>2. ASSUME NEW c \in Consumers, PostAccepted(c) \/ PostRejected(c) \/ PostTransient(c)
        PROVE  posts'[n] = posts[n]
    <3>1. wpc[c] = "post" /\ status[note[c]] # "cancelled"
      BY <2>2 DEF PostAccepted, PostRejected, PostTransient, Goto, Settled, WorkerKnows, Past
    <3>2. posts' = [posts EXCEPT ![note[c]] = @ + 1] /\ posts \in [Notifs -> Nat]
      BY <2>2 DEF PostAccepted, PostRejected, PostTransient, Sent, TypeOK, WorkerTypeOK
    <3>. QED
      BY <3>1, <3>2
  <2>3. ASSUME NEW c \in Consumers, ConsumerStep(c) \/ WorkerFault(c) \/ WorkerStart(c)
        PROVE  UNCHANGED posts \/ PostAccepted(c) \/ PostRejected(c) \/ PostTransient(c)
    BY <2>3
    DEF ConsumerStep, CallFailure, WorkerFault, Receive, LoadNotification, LoadFails,
        WaitForRate, RateLimitFails, SendingStep, SendingFails, DeliverStep, DeliverFails,
        FailStep, EmitStatus, Republish, ReleaseStep, Settle, ConsumeReturns,
        WorkerLosesConnection, WorkerCrash, PublishChannelFails, Shutdown, WorkerStart, providerVars
  <2>. QED
    BY <2>1, <2>2, <2>3 DEF Next, WorkerNext
<1>. QED
  BY <1>1, TypeCorrect, SettledHolds, PTL DEF Spec, NoPostAfterCancel
=============================================================================
