------------------------------- MODULE Worker -------------------------------
(***************************************************************************)
(* cmd/worker: one goroutine per channel runs Client.Consume, which hands  *)
(* each delivery to handleDelivery and settles it by the handler's result. *)
(* One step here is one call to the database, the broker, the limiter or   *)
(* the provider, with the decision taken on its result.                    *)
(***************************************************************************)
EXTENDS Store, Broker

VARIABLES
  wpc,       \* where each consumer is in handleDelivery
  note,      \* the notification of the delivery it holds
  retry,     \* that delivery's x-retry-count
  stop,      \* the worker's context is cancelled (SIGTERM)
  posts,     \* how many times the provider was sent each notification
  accepted   \* notifications the provider has accepted at least once

workerVars == <<wpc, note, retry, stop, posts, accepted>>
providerVars == <<posts, accepted>>
heldVars == <<note, retry, stop>>

\* The calls, then the three ways a delivery is settled: Ack, Nack without
\* requeue (to the dead-letter queue), Nack with requeue.
Calls == {"load", "limit", "send", "post", "deliver", "fail", "emitDelivered",
          "emitFailed", "backoff", "release"}
Settlements == {"ack", "drop", "requeue"}
WorkerLabels == Calls \cup Settlements \cup {"idle", "down"}

InitWorker ==
  /\ wpc = [c \in Consumers |-> "idle"]
  /\ note = [c \in Consumers |-> None]
  /\ retry = [c \in Consumers |-> 0]
  /\ stop = [c \in Consumers |-> FALSE]
  /\ posts = [n \in Notifs |-> 0]
  /\ accepted = {}

Goto(c, from, to) ==
  /\ wpc[c] = from
  /\ wpc' = [wpc EXCEPT ![c] = to]

Busy(c) == wpc[c] \notin {"idle", "down"}

\* A call made with the delivery's context returns an error: the service
\* failed, or the context is over.
CallFails(c, kind) == Fault(kind) \/ (stop[c] /\ NoFault)

\* <-msgs in the select of Consume.  The other case, ctx.Done(), has no
\* priority over it.
Receive(c) ==
  /\ c \in bus
  /\ Goto(c, "idle", "load")
  /\ \E n \in Notifs, r \in Retries :
       /\ Dequeue(n, r)
       /\ note' = [note EXCEPT ![c] = n]
       /\ retry' = [retry EXCEPT ![c] = r]
  /\ NoFault
  /\ UNCHANGED <<storeVars, dlq, bus, events, published, stop, providerVars>>

\* GetByID and buildOutboundEnvelope, which reads what never changes.
LoadNotification(c) ==
  /\ ~stop[c]
  /\ \/ Goto(c, "load", "ack") /\ status[note[c]] \notin Open
     \/ /\ Goto(c, "load", IF note[c] \in Unrenderable THEN "fail" ELSE "limit")
        /\ status[note[c]] \in Open
  /\ NoFault
  /\ UNCHANGED <<storeVars, brokerVars, heldVars, providerVars>>

LoadFails(c) ==
  /\ Goto(c, "load", "drop")
  /\ CallFails(c, "db")
  /\ UNCHANGED <<storeVars, brokerVars, heldVars, providerVars>>

WaitForRate(c) ==
  /\ ~stop[c]
  /\ Goto(c, "limit", "send")
  /\ NoFault
  /\ UNCHANGED <<storeVars, brokerVars, heldVars, providerVars>>

\* Mutant of RateLimitFails: the error is returned as it is.
RateLimitDrops(c) ==
  /\ Goto(c, "limit", "drop")
  /\ CallFails(c, "limiter")
  /\ UNCHANGED <<storeVars, brokerVars, heldVars, providerVars>>

RateLimitFails(c) ==
  /\ Goto(c, "limit", "requeue")
  /\ CallFails(c, "limiter")
  /\ UNCHANGED <<storeVars, brokerVars, heldVars, providerVars>>

\* Mutant of SendingStep: rows affected are not looked at.
SendingUnchecked(c) ==
  /\ ~stop[c]
  /\ Goto(c, "send", "post")
  /\ MarkSending(note[c], None) \/ MarkSendingFails(note[c], None)
  /\ NoFault
  /\ UNCHANGED <<sched, outbox, lockVars, brokerVars, heldVars, providerVars>>

SendingStep(c) ==
  /\ ~stop[c]
  /\ \/ Goto(c, "send", "post") /\ MarkSending(note[c], None)
     \/ Goto(c, "send", "ack") /\ MarkSendingFails(note[c], None)
  /\ NoFault
  /\ UNCHANGED <<sched, outbox, lockVars, brokerVars, heldVars, providerVars>>

\* An error of MarkSending is taken for a state conflict, whatever the status
\* read after it: the delivery is acknowledged.
SendingFails(c) ==
  /\ Goto(c, "send", "ack")
  /\ MarkSending(note[c], None) \/ UNCHANGED status
  /\ CallFails(c, "db")
  /\ UNCHANGED <<sched, outbox, lockVars, brokerVars, heldVars, providerVars>>

Sent(n) == posts' = [posts EXCEPT ![n] = @ + 1]

\* Webhook.Post: a 2xx; a permanent or unclassified error; a transient one,
\* which the provider may have accepted (a timeout, a 5xx, a cancelled call).
PostAccepted(c) ==
  /\ ~stop[c]
  /\ Goto(c, "post", "deliver")
  /\ Sent(note[c])
  /\ accepted' = accepted \cup {note[c]}
  /\ NoFault
  /\ UNCHANGED <<storeVars, brokerVars, heldVars>>

PostRejected(c) ==
  /\ ~stop[c]
  /\ Goto(c, "post", "fail")
  /\ Sent(note[c])
  /\ NoFault
  /\ UNCHANGED <<storeVars, brokerVars, heldVars, accepted>>

\* Mutant of PostTransient: exhausted retries are acknowledged, not failed.
PostTransientForgets(c) ==
  /\ Goto(c, "post", IF retry[c] >= MaxRetries THEN "ack" ELSE "backoff")
  /\ Sent(note[c])
  /\ accepted' \in {accepted, accepted \cup {note[c]}}
  /\ NoFault
  /\ UNCHANGED <<storeVars, brokerVars, heldVars>>

PostTransient(c) ==
  /\ Goto(c, "post", IF retry[c] >= MaxRetries THEN "fail" ELSE "backoff")
  /\ Sent(note[c])
  /\ accepted' \in {accepted, accepted \cup {note[c]}}
  /\ NoFault
  /\ UNCHANGED <<storeVars, brokerVars, heldVars>>

\* markDeliveredWithRetry, on a context of its own.  Thirty attempts that find
\* the row elsewhere than sending end like one; the row may come back in
\* between, and then an attempt succeeds.
DeliverStep(c) ==
  /\ \/ Goto(c, "deliver", "emitDelivered") /\ MarkDelivered(note[c], None)
     \/ Goto(c, "deliver", "drop") /\ MarkDeliveredFails(note[c], None)
  /\ NoFault
  /\ UNCHANGED <<sched, outbox, lockVars, brokerVars, heldVars, providerVars>>

\* The database is away for all the attempts, one of which it may have applied.
DeliverFails(c) ==
  /\ Goto(c, "deliver", "drop")
  /\ MarkDelivered(note[c], None) \/ UNCHANGED status
  /\ Fault("db")
  /\ UNCHANGED <<sched, outbox, lockVars, brokerVars, heldVars, providerVars>>

\* Mutant of FailStep: the event goes out before the row is marked.
FailAnnounced(c) ==
  /\ Goto(c, "fail", "emitFailed")
  /\ NoFault
  /\ UNCHANGED <<storeVars, brokerVars, heldVars, providerVars>>

\* _ = store.MarkFailed: the event follows whatever it returned.
FailStep(c) ==
  /\ Goto(c, "fail", "emitFailed")
  /\ \/ ~stop[c] /\ MarkFailed(note[c], None) /\ NoFault
     \/ ~stop[c] /\ MarkFailedFails(note[c], None) /\ NoFault
     \/ (MarkFailed(note[c], None) \/ UNCHANGED status) /\ CallFails(c, "db")
  /\ UNCHANGED <<sched, outbox, lockVars, brokerVars, heldVars, providerVars>>

\* Mutant of EmitStatus: only failures are announced.
EmitFailures(c) ==
  /\ \/ Goto(c, "emitDelivered", "ack") /\ UNCHANGED brokerVars
     \/ Goto(c, "emitFailed", "ack") /\ PublishStatus(c, note[c], "failed")
  /\ NoFault
  /\ UNCHANGED <<storeVars, heldVars, providerVars>>

EmitStatus(c) ==
  /\ \/ Goto(c, "emitDelivered", "ack") /\ PublishStatus(c, note[c], "delivered")
     \/ Goto(c, "emitFailed", "ack") /\ PublishStatus(c, note[c], "failed")
  /\ NoFault
  /\ UNCHANGED <<storeVars, heldVars, providerVars>>

\* After the back-off the same message goes out with its count raised; the
\* row stays sending.  A cancelled context or a failed publish aborts it.
Republish(c) ==
  /\ \/ Goto(c, "backoff", "ack") /\ RepublishDelivery(c, note[c], retry[c]) /\ NoFault
     \/ Goto(c, "backoff", "release") /\ PublishFails(c) /\ NoFault
     \/ Goto(c, "backoff", "release") /\ stop[c] /\ NoFault /\ UNCHANGED brokerVars
  /\ UNCHANGED <<storeVars, heldVars, providerVars>>

\* revertSendingAndRequeue, on a context of its own; an error is logged.
ReleaseStep(c) ==
  /\ Goto(c, "release", "requeue")
  /\ \/ ReleaseSendingToQueued(note[c], None) /\ NoFault
     \/ (ReleaseSendingToQueued(note[c], None) \/ UNCHANGED status) /\ Fault("db")
  /\ UNCHANGED <<sched, outbox, lockVars, brokerVars, heldVars, providerVars>>

\* Consume settles by the handler's result.  Without a connection the Ack or
\* Nack is lost: the broker took the delivery back when the connection died.
Settle(c) ==
  /\ wpc[c] \in Settlements
  /\ wpc' = [wpc EXCEPT ![c] = "idle"]
  /\ note' = [note EXCEPT ![c] = None]
  /\ retry' = [retry EXCEPT ![c] = 0]
  /\ \/ (wpc[c] = "ack" \/ c \notin bus) /\ UNCHANGED <<ready, dlq>>
     \/ c \in bus /\ wpc[c] = "drop" /\ dlq' = dlq \cup {note[c]} /\ UNCHANGED ready
     \/ c \in bus /\ wpc[c] = "requeue" /\ Enqueue(note[c], retry[c]) /\ UNCHANGED dlq
  /\ NoFault
  /\ UNCHANGED <<storeVars, bus, events, published, stop, providerVars>>

\* The consumer's channel is closed, or its context is over: the process ends.
ConsumeReturns(c) ==
  /\ stop[c] \/ c \notin bus
  /\ Goto(c, "idle", "down")
  /\ bus' = bus \ {c}
  /\ NoFault
  /\ UNCHANGED <<storeVars, ready, dlq, events, published, heldVars, providerVars>>

\* Mutant of GiveBack: deliveries are acknowledged on receipt (autoAck).
LoseDelivery(c) == UNCHANGED ready

\* When its connection ends the broker puts an unsettled delivery back, count
\* unchanged.
GiveBack(c) ==
  IF Busy(c) /\ c \in bus THEN Enqueue(note[c], retry[c]) ELSE UNCHANGED ready

\* The handler in progress goes on without its connection.
WorkerLosesConnection(c) ==
  /\ c \in bus
  /\ bus' = bus \ {c}
  /\ GiveBack(c)
  /\ \/ Fault("worker_conn") /\ UNCHANGED wpc
     \/ Fault("unconfirmed") /\ Goto(c, "backoff", "ack")
  /\ UNCHANGED <<storeVars, dlq, events, published, heldVars, providerVars>>

\* The channel the worker publishes on is not the one its deliveries come on:
\* a republish or an event fails while the consumer goes on.  The call may
\* still return nil when the broker has closed the channel already.
PublishChannelFails(c) ==
  /\ Fault("publish_channel")
  /\ c \in bus
  /\ \/ Goto(c, "backoff", "release")
     \/ \E publishing \in {"backoff", "emitDelivered", "emitFailed"} : Goto(c, publishing, "ack")
  /\ UNCHANGED <<storeVars, brokerVars, heldVars, providerVars>>

WorkerCrash(c) ==
  /\ Fault("worker_crash")
  /\ wpc[c] # "down"
  /\ wpc' = [wpc EXCEPT ![c] = "down"]
  /\ note' = [note EXCEPT ![c] = None]
  /\ retry' = [retry EXCEPT ![c] = 0]
  /\ bus' = bus \ {c}
  /\ GiveBack(c)
  /\ UNCHANGED <<storeVars, dlq, events, published, stop, providerVars>>

Shutdown(c) ==
  /\ Fault("shutdown")
  /\ wpc[c] # "down" /\ ~stop[c]
  /\ stop' = [stop EXCEPT ![c] = TRUE]
  /\ UNCHANGED <<storeVars, brokerVars, wpc, note, retry, providerVars>>

WorkerStart(c) ==
  /\ Goto(c, "down", "idle")
  /\ stop' = [stop EXCEPT ![c] = FALSE]
  /\ Connect(c)
  /\ NoFault
  /\ UNCHANGED <<storeVars, note, retry, providerVars>>

\* A call that returns an error; with the context over it is the rule.
CallFailure(c) ==
  LoadFails(c) \/ RateLimitFails(c) \/ SendingFails(c) \/ DeliverFails(c)

\* What a running consumer goes on doing by itself.
ConsumerStep(c) ==
  \/ Receive(c) \/ LoadNotification(c) \/ WaitForRate(c) \/ SendingStep(c)
  \/ PostAccepted(c) \/ PostRejected(c) \/ PostTransient(c)
  \/ DeliverStep(c) \/ FailStep(c) \/ EmitStatus(c)
  \/ Republish(c) \/ ReleaseStep(c) \/ Settle(c) \/ ConsumeReturns(c)
  \/ CallFailure(c)

WorkerFault(c) ==
  WorkerLosesConnection(c) \/ PublishChannelFails(c) \/ WorkerCrash(c) \/ Shutdown(c)

WorkerNext ==
  \E c \in Consumers :
    ConsumerStep(c) \/ WorkerFault(c) \/ WorkerStart(c)
=============================================================================
