------------------------------- MODULE Runner -------------------------------
(***************************************************************************)
(* cmd/scheduler and internal/runner/background.go: each replica runs the  *)
(* outbox relay and the due-time scheduler, two loops over short           *)
(* transactions that claim one row.  A transaction holds the lock of the   *)
(* row it claimed; what it writes is visible, all at once, at its commit,  *)
(* so MarkQueued, MarkOutboxPublished and Commit are one step.             *)
(***************************************************************************)
EXTENDS Store, Broker

VARIABLES
  rpc,   \* where each replica's relay transaction is
  dpc    \* where each replica's due-time transaction is

runnerVars == <<rpc, dpc>>

RelayLabels == {"idle", "publish", "mark", "drain", "down"}
DueLabels == {"idle", "publish", "mark", "down"}

InitRunner ==
  /\ rpc = [r \in Runners |-> "idle"]
  /\ dpc = [r \in Runners |-> "idle"]

RelayGoto(r, from, to) ==
  /\ rpc[r] = from
  /\ rpc' = [rpc EXCEPT ![r] = to]

DueGoto(r, from, to) ==
  /\ dpc[r] = from
  /\ dpc' = [dpc EXCEPT ![r] = to]

ReleaseOutboxLock(r) == outboxLock' = [outboxLock EXCEPT ![r] = None]

\* Mutant of ReleaseRowLock: a path that forgets its Rollback.
KeepRowLock(r) == UNCHANGED rowLock
ReleaseRowLock(r) == rowLock' = [rowLock EXCEPT ![r] = None]

\* ClaimOutboxBatch, then GetByID outside the transaction.
ClaimOutboxEntry(r) ==
  /\ \E n \in Notifs :
       /\ ClaimOutboxBatch(n, r)
       /\ RelayGoto(r, "idle", IF status[n] # "pending" THEN "drain" ELSE "publish")
  /\ NoFault
  /\ UNCHANGED <<status, sched, outbox, rowLock, brokerVars, dpc>>

\* PublishNotification inside the transaction; an error rolls it back.
PublishOutboxEntry(r) ==
  /\ LET n == outboxLock[r] IN
       \/ /\ RelayGoto(r, "publish", "mark")
          /\ \/ PublishNotification(r, n) /\ NoFault
             \/ PublishVanishes(r) /\ Fault("unconfirmed")
          /\ UNCHANGED outboxLock
       \/ /\ RelayGoto(r, "publish", "idle")
          /\ PublishFails(r)
          /\ ReleaseOutboxLock(r)
          /\ NoFault
  /\ UNCHANGED <<status, sched, outbox, rowLock, dpc>>

\* MarkQueued and MarkOutboxPublished commit together; if the row is not
\* pending any more MarkQueued is an error and the transaction rolls back.
CommitOutboxEntry(r) ==
  /\ RelayGoto(r, "mark", "idle")
  /\ LET n == outboxLock[r] IN
       \/ MarkQueued(n, None) /\ MarkOutboxPublished(n)
       \/ MarkQueuedFails(n, None) /\ UNCHANGED outbox
  /\ ReleaseOutboxLock(r)
  /\ NoFault
  /\ UNCHANGED <<sched, rowLock, brokerVars, dpc>>

\* Mutant of DrainOutboxEntry: a row that is not pending is an error.
RefuseOutboxEntry(r) ==
  /\ RelayGoto(r, "drain", "idle")
  /\ ReleaseOutboxLock(r)
  /\ NoFault
  /\ UNCHANGED <<status, sched, outbox, rowLock, brokerVars, dpc>>

\* The notification was not pending when read: only the entry is closed.
DrainOutboxEntry(r) ==
  /\ RelayGoto(r, "drain", "idle")
  /\ MarkOutboxPublished(outboxLock[r])
  /\ ReleaseOutboxLock(r)
  /\ NoFault
  /\ UNCHANGED <<status, sched, rowLock, brokerVars, dpc>>

\* A database error rolls the relay's transaction back, or is the commit's
\* own and leaves open whether it took effect.
RelayCallFails(r) ==
  /\ Fault("db")
  /\ rpc[r] \in {"publish", "mark", "drain"}
  /\ rpc' = [rpc EXCEPT ![r] = "idle"]
  /\ \/ UNCHANGED <<status, outbox>>
     \/ rpc[r] = "mark" /\ MarkQueued(outboxLock[r], None) /\ MarkOutboxPublished(outboxLock[r])
     \/ rpc[r] = "drain" /\ MarkOutboxPublished(outboxLock[r]) /\ UNCHANGED status
  /\ ReleaseOutboxLock(r)
  /\ UNCHANGED <<sched, rowLock, brokerVars, dpc>>

\* ClaimDueScheduled.  GetByID then finds the row still pending: it is locked.
ClaimDue(r) ==
  /\ \E n \in Notifs : ClaimDueScheduled(n, r)
  /\ DueGoto(r, "idle", "publish")
  /\ NoFault
  /\ UNCHANGED <<status, sched, outbox, outboxLock, brokerVars, rpc>>

PublishDue(r) ==
  /\ \/ /\ DueGoto(r, "publish", "mark")
        /\ \/ PublishNotification(r, rowLock[r]) /\ NoFault
           \/ PublishVanishes(r) /\ Fault("unconfirmed")
        /\ UNCHANGED rowLock
     \/ /\ DueGoto(r, "publish", "idle")
        /\ PublishFails(r)
        /\ ReleaseRowLock(r)
        /\ NoFault
  /\ UNCHANGED <<status, sched, outbox, outboxLock, rpc>>

CommitDue(r) ==
  /\ DueGoto(r, "mark", "idle")
  /\ MarkQueued(rowLock[r], r)
  /\ ReleaseRowLock(r)
  /\ NoFault
  /\ UNCHANGED <<sched, outbox, outboxLock, brokerVars, rpc>>

DueCallFails(r) ==
  /\ Fault("db")
  /\ dpc[r] \in {"publish", "mark"}
  /\ dpc' = [dpc EXCEPT ![r] = "idle"]
  /\ UNCHANGED status \/ (dpc[r] = "mark" /\ MarkQueued(rowLock[r], r))
  /\ ReleaseRowLock(r)
  /\ UNCHANGED <<sched, outbox, outboxLock, brokerVars, rpc>>

RunnerLosesConnection(r) ==
  /\ Fault("runner_conn")
  /\ r \in bus
  /\ bus' = bus \ {r}
  /\ UNCHANGED <<storeVars, ready, dlq, events, published, runnerVars>>

\* The process dies (main also returns without waiting for the two loops):
\* the database rolls both transactions back.
RunnerCrash(r) ==
  /\ Fault("runner_crash")
  /\ rpc[r] # "down"
  /\ rpc' = [rpc EXCEPT ![r] = "down"]
  /\ dpc' = [dpc EXCEPT ![r] = "down"]
  /\ ReleaseOutboxLock(r)
  /\ ReleaseRowLock(r)
  /\ UNCHANGED <<status, sched, outbox, brokerVars>>

RunnerStart(r) ==
  /\ RelayGoto(r, "down", "idle")
  /\ DueGoto(r, "down", "idle")
  /\ Connect(r)
  /\ NoFault
  /\ UNCHANGED storeVars

\* scheduled_at <= now() becomes true.
ScheduleFallsDue(n) ==
  /\ sched[n] = "future"
  /\ sched' = [sched EXCEPT ![n] = "due"]
  /\ NoFault
  /\ UNCHANGED <<status, outbox, lockVars, brokerVars, runnerVars>>

RelayStep(r) ==
  \/ ClaimOutboxEntry(r)
  \/ PublishOutboxEntry(r)
  \/ CommitOutboxEntry(r)
  \/ DrainOutboxEntry(r)

DueStep(r) ==
  \/ ClaimDue(r)
  \/ PublishDue(r)
  \/ CommitDue(r)

RunnerNext ==
  \/ \E r \in Runners :
       \/ RelayStep(r)
       \/ DueStep(r)
       \/ RelayCallFails(r)
       \/ DueCallFails(r)
       \/ RunnerLosesConnection(r)
       \/ RunnerCrash(r)
       \/ RunnerStart(r)
  \/ \E n \in Notifs : ScheduleFallsDue(n)
=============================================================================
