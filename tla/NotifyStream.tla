---------------------------- MODULE NotifyStream ----------------------------
(***************************************************************************)
(* The deployment: the API, the scheduler replicas and the workers over    *)
(* one database and one broker, and what must hold of them together.       *)
(***************************************************************************)
EXTENDS ApiServer, Runner, Worker

vars == <<faultsLeft, storeVars, brokerVars, apiVars, runnerVars, workerVars>>

Init ==
  /\ faultsLeft = MaxFaults
  /\ InitStore
  /\ InitBroker
  /\ InitApi
  /\ InitRunner
  /\ InitWorker

Next ==
  \/ ApiNext /\ UNCHANGED <<runnerVars, workerVars>>
  \/ RunnerNext /\ UNCHANGED <<apiVars, workerVars>>
  \/ WorkerNext /\ UNCHANGED <<apiVars, runnerVars>>

Spec == Init /\ [][Next]_vars

\* A live process keeps running: a handler past its commit returns, the two
\* tickers keep firing, a consumer keeps consuming, and time passes.  Nobody
\* has to send a request, restart a process or produce a fault.
Fairness ==
  /\ \A n \in Notifs : /\ WF_vars(HandleCreated(n) /\ UNCHANGED <<runnerVars, workerVars>>)
                       /\ WF_vars(ScheduleFallsDue(n) /\ UNCHANGED <<apiVars, workerVars>>)
  /\ \A r \in Runners : /\ WF_vars(RelayStep(r) /\ UNCHANGED <<apiVars, workerVars>>)
                        /\ WF_vars(DueStep(r) /\ UNCHANGED <<apiVars, workerVars>>)
  /\ \A c \in Consumers : WF_vars(ConsumerStep(c) /\ UNCHANGED <<apiVars, runnerVars>>)

FairSpec == Spec /\ Fairness

-----------------------------------------------------------------------------
(* Types *)

StoreTypeOK ==
  /\ status \in [Notifs -> Statuses]
  /\ sched \in [Notifs -> Schedules]
  /\ outbox \in [Notifs -> {"none", "unpublished", "published"}]
  /\ rowLock \in [Runners -> Notifs \cup {None}]
  /\ outboxLock \in [Runners -> Notifs \cup {None}]

BrokerTypeOK ==
  /\ ready \in [Notifs \X Retries -> Nat]
  /\ dlq \subseteq Notifs
  /\ bus \subseteq Process
  /\ events \subseteq Notifs \X Outcomes
  /\ published \in [Notifs -> Nat]

WorkerTypeOK ==
  /\ wpc \in [Consumers -> WorkerLabels]
  /\ note \in [Consumers -> Notifs \cup {None}]
  /\ retry \in [Consumers -> Retries]
  /\ stop \in [Consumers -> BOOLEAN]
  /\ posts \in [Notifs -> Nat]
  /\ accepted \subseteq Notifs

\* Every variable keeps its type, a transaction or a delivery in progress names
\* the row it is about, and a retry is only scheduled below the maximum: what
\* lets background.go and handleDelivery use the id they hold without looking.
TypeOK ==
  /\ faultsLeft \in 0..MaxFaults
  /\ StoreTypeOK
  /\ BrokerTypeOK
  /\ apc \in [Notifs -> ApiLabels]
  /\ rpc \in [Runners -> RelayLabels]
  /\ dpc \in [Runners -> DueLabels]
  /\ WorkerTypeOK
  /\ \A r \in Runners : /\ outboxLock[r] = None <=> rpc[r] \in {"idle", "down"}
                        /\ rowLock[r] = None <=> dpc[r] \in {"idle", "down"}
  /\ \A c \in Consumers : /\ note[c] = None <=> ~Busy(c)
                          /\ wpc[c] = "backoff" => retry[c] < MaxRetries

-----------------------------------------------------------------------------
(* Safety *)

Promise == INSTANCE Lifecycle WITH
  Notifs <- Notifs, status <- status, accepted <- accepted, events <- events

\* The notification a client sees behaves as Lifecycle says, whatever fails:
\* a terminal status is final, pending is never shown again, only a pending or
\* queued row is cancelled, delivered only follows the provider's acceptance,
\* and a "delivered" event only follows the status.
LifecycleImplemented == Promise!Spec

Queued(n) == \E r \in Retries : ready[<<n, r>>] > 0

\* The consumer still answers for its delivery: if it stops here the broker
\* has the delivery back, and if it goes on the row is moved or the message is
\* kept.
Answers(c, n) ==
  /\ note[c] = n
  /\ wpc[c] \in {"load", "limit", "send", "post", "deliver", "fail", "backoff",
                 "release", "requeue"}

\* Someone will yet do something about n.
HasCustodian(n) ==
  \/ Queued(n)
  \/ \E c \in Consumers : Answers(c, n)
  \/ apc[n] \in {"load", "publish", "outbox"}
  \/ status[n] = "pending" /\ (outbox[n] = "unpublished" \/ sched[n] # "none")

\* No accepted notification is stranded: while its row is not terminal, a
\* message, a delivery in progress, the create handler, an outbox entry or the
\* due-time scheduler will still take it further (README "at-least-once").
Custody == \A n \in Notifs : status[n] \in Open => HasCustodian(n)

\* Once a worker has decided to acknowledge a delivery, the row has moved past
\* pending and queued: it is terminal, or sending with a retry published
\* (README "Worker pipeline" 1, handleDelivery's nil returns).
AckSettled ==
  \A c \in Consumers : wpc[c] = "ack" => status[note[c]] \notin {"pending", "queued"}

\* The provider is never called for a notification whose cancellation the API
\* has confirmed (CancelNotification's 200 against MarkSending's guard).
NoPostAfterCancel ==
  [][\A n \in Notifs : status[n] = "cancelled" => posts'[n] = posts[n]]_vars

\* The retry count bounds the calls to the provider: each message published,
\* and each fault that puts a delivery back, costs at most one run through the
\* counts 0..maxWebhookRetries.
PostsBounded ==
  \A n \in Notifs :
    posts[n] <= (MaxRetries + 1) * (published[n] + MaxFaults - faultsLeft)

\* What reaches the dead-letter queue needs no one's attention: its row is
\* terminal (the only Nack without requeue left is a late MarkDelivered).
DeadLettersSettled == \A n \in dlq : status[n] \in Terminal

\* Nobody is told of an outcome that is still open: a notification whose failure
\* or delivery has been announced stays terminal, although the result of
\* MarkFailed is not looked at before the event (handleDelivery).
AnnouncedIsSettled == \A n \in Notifs, o \in Outcomes : <<n, o>> \in events => status[n] \in Terminal

\* However many scheduler replicas run, a notification not already due when it
\* was created is published once, and once more at most for each fault (SKIP
\* LOCKED, and a publish that only a failed commit repeats).
PublishedOnce ==
  \A n \in Notifs :
    sched[n] # "past" => published[n] <= 1 + MaxFaults - faultsLeft

\* The row a due-time transaction claimed stays pending and its own until it
\* commits, so that its MarkQueued cannot fail after the publish.
ClaimedRowStaysPending ==
  \A r \in Runners :
    dpc[r] \in {"publish", "mark"} =>
      /\ status[rowLock[r]] = "pending" /\ Due(rowLock[r])
      /\ \A q \in Runners \ {r} : rowLock[q] # rowLock[r]

-----------------------------------------------------------------------------
(* What the repository says and the code does not do *)

\* "Run one replica to avoid duplicate publishes": with one scheduler and
\* nothing failing, a notification is published once (README, cmd/scheduler).
NoDuplicatePublish == \A n \in Notifs : published[n] <= 1

-----------------------------------------------------------------------------
(* Liveness *)

\* Every created notification ends delivered, failed or cancelled.
EventuallyTerminal ==
  \A n \in Notifs : status[n] = "pending" ~> status[n] \in Terminal

\* A failed publish is retried until the entry is closed.
OutboxDrains == \A n \in Notifs : outbox[n] = "unpublished" ~> outbox[n] = "published"

\* Whoever listens to the status stream hears of every delivery.
DeliveryAnnounced ==
  \A n \in Notifs : status[n] = "delivered" ~> <<n, "delivered">> \in events
=============================================================================
