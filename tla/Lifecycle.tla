----------------------------- MODULE Lifecycle ------------------------------
(***************************************************************************)
(* What NotifyStream promises of a notification to whoever created it, seen *)
(* through three things only: the status GET /v1/notifications/{id} shows, *)
(* what the provider has accepted, and the events on the status stream.    *)
(* No queue, process, lock or retry appears here.                          *)
(***************************************************************************)
CONSTANT Notifs

VARIABLES
  status,     \* the status shown
  accepted,   \* notifications the provider accepted
  events      \* status events announced

vars == <<status, accepted, events>>

Init ==
  /\ status = [n \in Notifs |-> "none"]
  /\ accepted = {}
  /\ events = {}

Move(n, from, to) ==
  /\ status[n] \in from
  /\ status' = [status EXCEPT ![n] = to]
  /\ UNCHANGED <<accepted, events>>

Create(n) == Move(n, {"none"}, "pending")
Queue(n) == Move(n, {"pending"}, "queued")
Send(n) == Move(n, {"pending", "queued"}, "sending")
Release(n) == Move(n, {"sending"}, "queued")

\* Only what is not being sent can be cancelled.
Cancel(n) == Move(n, {"pending", "queued"}, "cancelled")
Fail(n) == Move(n, {"pending", "queued", "sending"}, "failed")

\* "delivered" is never shown of something the provider did not accept.
Deliver(n) == n \in accepted /\ Move(n, {"sending"}, "delivered")

\* The provider is only ever asked about a notification that exists.
Accept(n) ==
  /\ status[n] # "none"
  /\ accepted' = accepted \cup {n}
  /\ UNCHANGED <<status, events>>

\* A "delivered" event is announced only after the status shows it.
AnnounceDelivered(n) ==
  /\ status[n] = "delivered"
  /\ events' = events \cup {<<n, "delivered">>}
  /\ UNCHANGED <<status, accepted>>

AnnounceFailed(n) ==
  /\ status[n] # "none"
  /\ events' = events \cup {<<n, "failed">>}
  /\ UNCHANGED <<status, accepted>>

Next ==
  \E n \in Notifs :
    \/ Create(n) \/ Queue(n) \/ Send(n) \/ Release(n) \/ Cancel(n) \/ Fail(n)
    \/ Accept(n) \/ Deliver(n) \/ AnnounceDelivered(n) \/ AnnounceFailed(n)

Spec == Init /\ [][Next]_vars
=============================================================================
