----------------------------- MODULE Deployment -----------------------------
(***************************************************************************)
(* The processes NotifyStream runs and the faults its environment is       *)
(* allowed to produce.  One delivery channel is modelled: the three        *)
(* (sms, email, push) have a queue and a consumer each and share nothing   *)
(* that the properties speak of.  The database is assumed to keep what it  *)
(* committed; Redis appears only as a rate limiter that may fail.          *)
(***************************************************************************)
EXTENDS Integers, FiniteSets

CONSTANTS
  Notifs,      \* notification ids (rows of the notifications table)
  Unrenderable,\* the ones whose template rendering is a permanent error
  Api,         \* the cmd/api process
  Runners,     \* cmd/scheduler replicas: one outbox relay, one due-time loop each
  Consumers,   \* worker processes consuming this channel's queue
  None,        \* "no notification"
  MaxRetries,  \* maxWebhookRetries (5 in the code)
  Faults,      \* the kinds of fault that may happen in this deployment
  MaxFaults    \* how many of them at most

FaultKinds == {
  "db",            \* a database call returns an error
  "abort",         \* a create request's context ends: client gone, API stopped or dead
  "api_conn",      \* the API process loses its AMQP connection
  "runner_conn",   \* a scheduler process loses its AMQP connection
  "worker_conn",   \* a worker process loses its AMQP connection
  "publish_channel", \* the broker closes the channel a worker publishes on, and that alone
  "unconfirmed",   \* a publish returns nil but the broker never gets the message
  "runner_crash",  \* a scheduler process dies
  "worker_crash",  \* a worker process dies
  "shutdown",      \* a worker process receives SIGTERM
  "limiter" }      \* the rate limiter returns an error (Redis)

Process == {Api} \cup Runners \cup Consumers

ASSUME DeploymentAssumption ==
  /\ None \notin Notifs \cup Process
  /\ Unrenderable \subseteq Notifs
  /\ Api \notin Runners \cup Consumers
  /\ Runners \cap Consumers = {}
  /\ MaxRetries \in Nat
  /\ MaxFaults \in Nat
  /\ Faults \subseteq FaultKinds

VARIABLE faultsLeft     \* the faults the environment may still produce

\* The environment spends one of its faults on a fault of kind k.
Fault(k) ==
  /\ k \in Faults
  /\ faultsLeft > 0
  /\ faultsLeft' = faultsLeft - 1

NoFault == UNCHANGED faultsLeft
=============================================================================
