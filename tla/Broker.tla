------------------------------- MODULE Broker -------------------------------
(***************************************************************************)
(* RabbitMQ as internal/amqp uses it: the channel's work queue, the dead-  *)
(* letter queue, the status fanout, and each process's one connection.     *)
(* Client.Connect is called once, at start: a process whose connection is  *)
(* lost has none until it is restarted.  Consume has a channel of its own  *)
(* on that connection; a broken publish channel is the connection's loss   *)
(* for a process that only publishes, and PublishChannelFails for a        *)
(* worker.  The queue is a bag of messages; priorities and order are left  *)
(* out, so every order is explored.                                        *)
(***************************************************************************)
EXTENDS Deployment

VARIABLES
  ready,       \* ready[<<n, r>>]: ready copies of n's message with x-retry-count r
  dlq,         \* notifications with a message in q.notify.dlq
  bus,         \* processes whose AMQP connection is up
  events,      \* status events published to the fanout so far
  published    \* how many times the broker got n from PublishNotification

brokerVars == <<ready, dlq, bus, events, published>>

Retries == 0..MaxRetries
Outcomes == {"delivered", "failed"}

InitBroker ==
  /\ ready = [m \in Notifs \X Retries |-> 0]
  /\ dlq = {}
  /\ bus = Process
  /\ events = {}
  /\ published = [n \in Notifs |-> 0]

Enqueue(n, r) == ready' = [ready EXCEPT ![<<n, r>>] = @ + 1]
Dequeue(n, r) ==
  /\ ready[<<n, r>>] > 0
  /\ ready' = [ready EXCEPT ![<<n, r>>] = @ - 1]

\* PublishNotification returns nil and the broker has the message.
PublishNotification(p, n) ==
  /\ p \in bus
  /\ Enqueue(n, 0)
  /\ published' = [published EXCEPT ![n] = @ + 1]
  /\ UNCHANGED <<dlq, bus, events>>

\* PublishNotification returns an error: there is no usable channel.
PublishFails(p) ==
  /\ p \notin bus
  /\ UNCHANGED brokerVars

\* No publisher confirms: nil is returned once the frame is written, and the
\* connection dies before the broker reads it.
PublishVanishes(p) ==
  /\ p \in bus
  /\ bus' = bus \ {p}
  /\ UNCHANGED <<ready, dlq, events, published>>

\* Mutant of RepublishDelivery: the header is not raised.
RepublishUnchanged(p, n, r) ==
  /\ p \in bus
  /\ Enqueue(n, r)
  /\ UNCHANGED <<dlq, bus, events, published>>

\* RepublishDelivery: the same body with x-retry-count r + 1.
RepublishDelivery(p, n, r) ==
  /\ p \in bus
  /\ Enqueue(n, r + 1)
  /\ UNCHANGED <<dlq, bus, events, published>>

\* PublishStatus; emitStatus logs a failure and goes on.
PublishStatus(p, n, outcome) ==
  /\ events' = IF p \in bus THEN events \cup {<<n, outcome>>} ELSE events
  /\ UNCHANGED <<ready, dlq, bus, published>>

Connect(p) ==
  /\ bus' = bus \cup {p}
  /\ UNCHANGED <<ready, dlq, events, published>>
=============================================================================
