------------------------------- MODULE Store --------------------------------
(***************************************************************************)
(* internal/db: the rows of notifications and outbox, the row locks the    *)
(* scheduler's transactions hold on them, and the guarded UPDATEs.  Each   *)
(* statement is atomic; one that meets a row locked by another transaction *)
(* waits, which here is not being enabled.                                 *)
(***************************************************************************)
EXTENDS Deployment

VARIABLES
  status,      \* notifications.status; "none" before the INSERT commits
  sched,       \* notifications.scheduled_at against the clock
  outbox,      \* the notification's outbox row and its published_at
  rowLock,     \* the notifications row each runner's due-time transaction locks
  outboxLock   \* the outbox row each runner's relay transaction locks

storeVars == <<status, sched, outbox, rowLock, outboxLock>>
lockVars == <<rowLock, outboxLock>>

Statuses == {"none", "pending", "queued", "sending",
             "delivered", "failed", "cancelled"}
\* Mutant of Open: a worker that takes a pending row for an orphan.
OpenWithoutPending == {"queued", "sending"}
Open == {"pending", "queued", "sending"}
Terminal == {"delivered", "failed", "cancelled"}

\* "none": no scheduled_at; "past": due already when the request arrived;
\* "future": not due yet; "due": was in the future at creation, due now.
Schedules == {"none", "past", "future", "due"}
Due(n) == sched[n] \in {"past", "due"}

InitStore ==
  /\ status = [n \in Notifs |-> "none"]
  /\ sched = [n \in Notifs |-> "none"]
  /\ outbox = [n \in Notifs |-> "none"]
  /\ rowLock = [r \in Runners |-> None]
  /\ outboxLock = [r \in Runners |-> None]

\* Mutant of RowFree: no row lock is taken or waited for.
RowUnlocked(n, p) == TRUE

\* No transaction other than p's own holds FOR UPDATE on the row.
RowFree(n, p) == \A q \in Runners \ {p} : rowLock[q] # n

\* UPDATE notifications SET status = to WHERE id = n AND status IN from:
\* one row affected, or none.
Update(n, p, from, to) ==
  /\ RowFree(n, p)
  /\ status[n] \in from
  /\ status' = [status EXCEPT ![n] = to]

NoRows(n, p, from) ==
  /\ RowFree(n, p)
  /\ status[n] \notin from
  /\ UNCHANGED status

InsertNotification(n, s) ==
  /\ status[n] = "none"
  /\ status' = [status EXCEPT ![n] = "pending"]
  /\ sched' = [sched EXCEPT ![n] = s]

\* Mutant of MarkQueued: without AND status = 'pending'.
MarkQueuedUnguarded(n, p) == Update(n, p, Statuses, "queued")
MarkQueued(n, p) == Update(n, p, {"pending"}, "queued")
MarkQueuedFails(n, p) == NoRows(n, p, {"pending"})

MarkSending(n, p) == Update(n, p, {"pending", "queued", "sending"}, "sending")
MarkSendingFails(n, p) == NoRows(n, p, {"pending", "queued", "sending"})

MarkDelivered(n, p) == Update(n, p, {"sending"}, "delivered")
MarkDeliveredFails(n, p) == NoRows(n, p, {"sending"})

MarkFailed(n, p) == Update(n, p, {"pending", "queued", "sending"}, "failed")
MarkFailedFails(n, p) == NoRows(n, p, {"pending", "queued", "sending"})

ReleaseSendingToQueued(n, p) ==
  Update(n, p, {"sending"}, "queued") \/ NoRows(n, p, {"sending"})

Cancel(n, p) == Update(n, p, {"pending", "queued"}, "cancelled")

\* INSERT INTO outbox takes a key-share lock on the notification it
\* references, so it waits for a due-time transaction holding that row.
EnqueueOutbox(n, p) ==
  /\ RowFree(n, p)
  /\ outbox' = [outbox EXCEPT ![n] = "unpublished"]

MarkOutboxPublished(n) == outbox' = [outbox EXCEPT ![n] = "published"]

\* SELECT ... FROM outbox WHERE published_at IS NULL ... FOR UPDATE SKIP LOCKED
ClaimOutboxBatch(n, r) ==
  /\ outbox[n] = "unpublished"
  /\ \A q \in Runners : outboxLock[q] # n
  /\ outboxLock' = [outboxLock EXCEPT ![r] = n]

\* Mutant of ClaimDueScheduled: without FOR UPDATE SKIP LOCKED.
ClaimDueUnlocked(n, r) ==
  /\ status[n] = "pending"
  /\ Due(n)
  /\ rowLock' = [rowLock EXCEPT ![r] = n]

\* SELECT id FROM notifications WHERE status = 'pending' AND scheduled_at <= now()
\* ... FOR UPDATE SKIP LOCKED
ClaimDueScheduled(n, r) ==
  /\ status[n] = "pending"
  /\ Due(n)
  /\ \A q \in Runners : rowLock[q] # n
  /\ rowLock' = [rowLock EXCEPT ![r] = n]
=============================================================================
