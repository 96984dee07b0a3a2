----------------------------- MODULE ApiServer ------------------------------
(***************************************************************************)
(* cmd/api and internal/api/handlers.go: creating and cancelling.  The     *)
(* frame of the create handler is kept per notification it inserted: the   *)
(* loop after the commit treats its rows one by one and independently.     *)
(***************************************************************************)
EXTENDS Store, Broker

VARIABLE apc   \* where the create handler is with each notification

apiVars == <<apc>>

ApiLabels == {"idle", "load", "publish", "mark", "outbox", "done"}

InitApi == apc = [n \in Notifs |-> "idle"]

ApiGoto(n, from, to) ==
  /\ apc[n] = from
  /\ apc' = [apc EXCEPT ![n] = to]

\* The transaction of CreateNotifications commits a new row.  A row whose
\* scheduled_at is after "now" is left to the scheduler.
CreateNotifications(n) ==
  /\ \E s \in Schedules \ {"due"} :
       /\ InsertNotification(n, s)
       /\ ApiGoto(n, "idle", IF s = "future" THEN "done" ELSE "load")
  /\ NoFault
  /\ UNCHANGED <<outbox, lockVars, brokerVars>>

\* GetByID before publishing.  Its status is not looked at.
LoadCreated(n) ==
  /\ ApiGoto(n, "load", "publish")
  /\ NoFault
  /\ UNCHANGED <<storeVars, brokerVars>>

\* Mutant of PublishCreated: a publish error is only logged.
PublishCreatedOnce(n) ==
  /\ \/ ApiGoto(n, "publish", "mark") /\ PublishNotification(Api, n)
     \/ ApiGoto(n, "publish", "done") /\ PublishFails(Api)
  /\ NoFault
  /\ UNCHANGED storeVars

PublishCreated(n) ==
  /\ \/ ApiGoto(n, "publish", "mark") /\ PublishNotification(Api, n) /\ NoFault
     \/ ApiGoto(n, "publish", "outbox") /\ PublishFails(Api) /\ NoFault
     \/ ApiGoto(n, "publish", "mark") /\ PublishVanishes(Api) /\ Fault("unconfirmed")
  /\ UNCHANGED storeVars

\* MarkQueuedWithRetry.  A row never becomes pending again, so five attempts
\* that find it elsewhere end like one.
MarkQueuedWithRetry(n) ==
  /\ ApiGoto(n, "mark", "done")
  /\ MarkQueued(n, None) \/ MarkQueuedFails(n, None)
  /\ NoFault
  /\ UNCHANGED <<sched, outbox, lockVars, brokerVars>>

EnqueueCreated(n) ==
  /\ ApiGoto(n, "outbox", "done")
  /\ EnqueueOutbox(n, None)
  /\ NoFault
  /\ UNCHANGED <<status, sched, lockVars, brokerVars>>

\* The handler's database call fails: an error of the database, or the
\* request's context, which every call uses, is over.  It may fail after the
\* statement took effect.  Each branch logs and goes to the next notification.
CreateCallFails(n) ==
  /\ Fault("db") \/ Fault("abort")
  /\ \/ ApiGoto(n, "load", "done") /\ UNCHANGED <<status, outbox>>
     \/ /\ ApiGoto(n, "mark", "done")
        /\ MarkQueued(n, None) \/ UNCHANGED status
        /\ UNCHANGED outbox
     \/ /\ ApiGoto(n, "outbox", "done")
        /\ EnqueueOutbox(n, None) \/ UNCHANGED outbox
        /\ UNCHANGED status
  /\ UNCHANGED <<sched, lockVars, brokerVars>>

\* POST /v1/notifications/{id}/cancel answering 200.
CancelNotification(n) ==
  /\ Cancel(n, None)
  /\ NoFault
  /\ UNCHANGED <<sched, outbox, lockVars, brokerVars, apc>>

\* The connection dies and nothing in the process dials again.
ApiLosesConnection ==
  /\ Fault("api_conn")
  /\ Api \in bus
  /\ bus' = bus \ {Api}
  /\ UNCHANGED <<storeVars, ready, dlq, events, published, apc>>

\* A handler that is past its commit goes on.
HandleCreated(n) ==
  \/ LoadCreated(n)
  \/ PublishCreated(n)
  \/ MarkQueuedWithRetry(n)
  \/ EnqueueCreated(n)

ApiNext ==
  \/ \E n \in Notifs :
       \/ CreateNotifications(n)
       \/ HandleCreated(n)
       \/ CreateCallFails(n)
       \/ CancelNotification(n)
  \/ ApiLosesConnection
=============================================================================
