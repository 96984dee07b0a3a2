----------------------------- MODULE StatusHub ------------------------------
(***************************************************************************)
(* The status stream inside one API process: ConsumeStatus takes events    *)
(* from the process's own queue, DispatchStatus puts them in the hub's     *)
(* channel, one goroutine (WSHub.run) writes each to the connections that  *)
(* asked for it, and HandleWS registers and removes connections meanwhile. *)
(***************************************************************************)
EXTENDS Naturals, Sequences, FiniteSets, Functions

CONSTANTS
  Notifs,     \* notification ids
  Batches,    \* batch ids
  BatchOf,    \* the batch of each notification, or None
  None,
  Conns,      \* WebSocket connections, each used once
  Filter,     \* the ids in the query string of each: a notification, a batch or both
  Cap,        \* capacity of WSHub.broadcast (256 in the code)
  Stream,     \* what the workers publish: Stream[e] is the notification event e is about
  MaxStalls   \* bound: times a client stops reading

Ids == Notifs \cup Batches

ASSUME HubAssumption ==
  /\ Notifs \cap Batches = {}
  /\ None \notin Ids \cup Conns
  /\ BatchOf \in [Notifs -> Batches \cup {None}]
  /\ Cap \in Nat \ {0}
  /\ Stream \in Seq(Notifs)
  /\ Filter \in [Conns -> (SUBSET Ids) \ {{}}]
  /\ \A c \in Conns : \A i, j \in Filter[c] : {i, j} \subseteq Notifs \/ {i, j} \subseteq Batches => i = j
  /\ MaxStalls \in Nat

VARIABLES
  published,  \* how many events of Stream have been published
  consumer,   \* ConsumeStatus: "starting", "consuming" or "ended"
  queue,      \* events in the process's exclusive queue
  broadcast,  \* events in the hub's channel
  lost,       \* history: events that never got into the channel
  hub,        \* the goroutine of run()
  subs,       \* byNotif and byBatch: the inner map of each id, {} when it has none
  cpc,        \* where the handler of each connection is
  since,      \* history: the last event taken from the channel when c was registered
  gone,       \* clients that have closed or dropped their connection
  stalled,    \* clients that do not read, so that a write to them blocks
  stalls,     \* how many stalls are left
  received,   \* history: the events each client got, in order
  up          \* the process lives

streamVars == <<published, consumer, queue, broadcast, lost>>
connVars == <<subs, cpc, since>>
clientVars == <<gone, stalled, stalls>>
vars == <<streamVars, hub, connVars, clientVars, received, up>>

-----------------------------------------------------------------------------
(* run(): "idle" at the receive from the channel; "lookup" before it reads *)
(* the inner map of id under RLock; "range" between two entries of that     *)
(* map, which it walks after RUnlock; "write" in WriteMessage to conn.      *)
(* left: the entries a walk in progress still has to produce; maybe: those  *)
(* added since it began, which Go may or may not produce.  shared: the walk *)
(* is over the map that subs holds; a map emptied by removeConn is dropped  *)
(* from subs, and a later addNotif makes a new one the walk does not see.   *)

HubLabels == {"idle", "lookup", "range", "write"}
AtRest == [pc |-> "idle", event |-> 0, id |-> None, left |-> {}, maybe |-> {},
           shared |-> FALSE, conn |-> None]

HubIdle == hub.pc = "idle"

InitHub ==
  /\ broadcast = <<>>
  /\ lost = {}
  /\ hub = AtRest
  /\ subs = [i \in Ids |-> {}]

Init ==
  /\ published = 0
  /\ consumer = "starting"
  /\ queue = <<>>
  /\ InitHub
  /\ cpc = [c \in Conns |-> "new"]
  /\ since = [c \in Conns |-> 0]
  /\ gone = {}
  /\ stalled = {}
  /\ stalls = MaxStalls
  /\ received = [c \in Conns |-> <<>>]
  /\ up = TRUE

-----------------------------------------------------------------------------
(* From the broker to the channel *)

\* A worker publishes a status event to the fanout exchange: without a queue
\* bound to it the event is gone.
PublishStatus ==
  /\ published < Len(Stream)
  /\ published' = published + 1
  /\ IF consumer = "consuming"
       THEN queue' = Append(queue, published') /\ UNCHANGED lost
       ELSE lost' = lost \cup {published'} /\ UNCHANGED queue
  /\ UNCHANGED <<consumer, broadcast, hub, connVars, clientVars, received, up>>

\* QueueDeclare, QueueBind and Consume.
StartConsuming ==
  /\ consumer = "starting"
  /\ consumer' = "consuming"
  /\ UNCHANGED <<published, queue, broadcast, lost, hub, connVars, clientVars, received, up>>

\* ConsumeStatus returns: a setup call or an Ack failed, its channel closed, or
\* the context is over.  The queue is exclusive and goes with its events; main
\* does not call ConsumeStatus again.
ConsumeStatusReturns ==
  /\ consumer # "ended"
  /\ consumer' = "ended"
  /\ queue' = <<>>
  /\ lost' = lost \cup Range(queue)
  /\ UNCHANGED <<published, broadcast, hub, connVars, clientVars, received, up>>

\* Mutant of DispatchStatus: each event is dispatched on a goroutine of its own.
DispatchUnordered ==
  \E e \in Range(queue) :
    /\ queue' = SelectSeq(queue, LAMBDA q : q # e)
    /\ IF Len(broadcast) < Cap
         THEN broadcast' = Append(broadcast, e) /\ UNCHANGED lost
         ELSE lost' = lost \cup {e} /\ UNCHANGED broadcast
    /\ UNCHANGED <<published, consumer, hub, connVars, clientVars, received, up>>

\* Mutant of DispatchStatus: h.broadcast <- msg without the select.
DispatchBlocking ==
  /\ queue # <<>>
  /\ Len(broadcast) < Cap
  /\ queue' = Tail(queue)
  /\ broadcast' = Append(broadcast, Head(queue))
  /\ UNCHANGED <<published, consumer, lost, hub, connVars, clientVars, received, up>>

\* The select with a default, and the Ack that follows in any case.
DispatchStatus ==
  /\ queue # <<>>
  /\ queue' = Tail(queue)
  /\ IF Len(broadcast) < Cap
       THEN broadcast' = Append(broadcast, Head(queue)) /\ UNCHANGED lost
       ELSE lost' = lost \cup {Head(queue)} /\ UNCHANGED broadcast
  /\ UNCHANGED <<published, consumer, hub, connVars, clientVars, received, up>>

-----------------------------------------------------------------------------
(* The hub's goroutine *)

HubGoto(pc) == hub' = [hub EXCEPT !.pc = pc]

\* for msg := range h.broadcast
TakeMessage ==
  /\ HubIdle
  /\ broadcast # <<>>
  /\ broadcast' = Tail(broadcast)
  /\ hub' = [hub EXCEPT !.pc = "lookup", !.event = Head(broadcast), !.id = Stream[Head(broadcast)]]
  /\ UNCHANGED <<published, consumer, queue, lost, connVars, clientVars, received, up>>

\* The read of h.byNotif[id] or h.byBatch[id] under RLock.
ReadInnerMap ==
  /\ hub.pc = "lookup"
  /\ hub' = [hub EXCEPT !.pc = "range", !.left = subs[hub.id], !.maybe = {},
                        !.shared = subs[hub.id] # {}]
  /\ UNCHANGED <<streamVars, connVars, clientVars, received, up>>

NextConn ==
  /\ hub.pc = "range"
  /\ \E c \in hub.left \cup hub.maybe :
       hub' = [hub EXCEPT !.pc = "write", !.conn = c, !.left = @ \ {c}, !.maybe = @ \ {c}]
  /\ UNCHANGED <<streamVars, connVars, clientVars, received, up>>

\* The walk ends; after the notification's connections come its batch's.
EndOfMap ==
  /\ hub.pc = "range"
  /\ hub.left = {}
  /\ hub' = IF hub.id \in Notifs /\ BatchOf[hub.id] # None
              THEN [AtRest EXCEPT !.pc = "lookup", !.event = hub.event, !.id = BatchOf[hub.id]]
              ELSE [AtRest EXCEPT !.event = hub.event]
  /\ UNCHANGED <<streamVars, connVars, clientVars, received, up>>

\* WriteMessage has no deadline: it blocks while the client does not read and
\* the server has not closed the connection.  Its error is ignored.
WriteMessage ==
  /\ hub.pc = "write"
  /\ hub.conn \in stalled => cpc[hub.conn] = "closed"
  /\ received' = IF hub.conn \in gone THEN received
                 ELSE [received EXCEPT ![hub.conn] = Append(@, hub.event)]
  /\ hub' = [hub EXCEPT !.pc = "range", !.conn = None]
  /\ UNCHANGED <<streamVars, connVars, clientVars, up>>

HubStep ==
  TakeMessage \/ ReadInnerMap \/ NextConn \/ EndOfMap \/ WriteMessage

-----------------------------------------------------------------------------
(* The handler of one connection *)

\* Where HandleWS goes next once it has registered c under the ids in done.
AfterAdd(c, done) ==
  IF Filter[c] \subseteq done THEN "reading" ELSE "addBatch"

\* A valid request is upgraded; a refused one leaves nothing behind.
HandleWS(c) ==
  /\ cpc[c] = "new"
  /\ cpc' = [cpc EXCEPT ![c] = IF Filter[c] \cap Notifs = {} THEN "addBatch" ELSE "addNotif"]
  /\ UNCHANGED <<streamVars, hub, subs, since, clientVars, received, up>>

\* addNotif and addBatch: c goes into the inner map of i.
Add(c, i) ==
  /\ subs' = [subs EXCEPT ![i] = @ \cup {c}]
  /\ hub' = IF hub.pc \in {"range", "write"} /\ hub.id = i /\ hub.shared
              THEN [hub EXCEPT !.maybe = @ \cup {c}] ELSE hub
  /\ cpc' = [cpc EXCEPT ![c] = AfterAdd(c, Notifs \cup {i})]
  /\ since' = [since EXCEPT ![c] = hub.event]
  /\ UNCHANGED <<streamVars, clientVars, received, up>>

AddNotif(c) == cpc[c] = "addNotif" /\ \E i \in Filter[c] \cap Notifs : Add(c, i)
AddBatch(c) == cpc[c] = "addBatch" /\ \E i \in Filter[c] \cap Batches : Add(c, i)

\* Mutants of Without: the inner map goes as soon as one of its entries does;
\* only byNotif is cleaned.
WithoutMapsOf(c) == [i \in Ids |-> IF c \in subs[i] THEN {} ELSE subs[i]]
WithoutNotifs(c) == [i \in Ids |-> IF i \in Notifs THEN subs[i] \ {c} ELSE subs[i]]

\* The maps without c.
Without(c) == [i \in Ids |-> subs[i] \ {c}]

\* Mutant of RemoveConn: the writers hold the lock while they write.
RemoveConnUnlocked(c) ==
  /\ hub.pc \in {"idle", "lookup"}
  /\ cpc[c] = "reading" /\ c \in gone
  /\ subs' = Without(c)
  /\ cpc' = [cpc EXCEPT ![c] = "closed"]
  /\ UNCHANGED <<streamVars, hub, since, clientVars, received, up>>

\* ReadMessage returns an error once the client is gone; the deferred function
\* removes the connection from every map, drops the maps this empties and
\* closes it.
RemoveConn(c) ==
  /\ cpc[c] = "reading" /\ c \in gone
  /\ subs' = Without(c)
  /\ hub' = IF hub.pc \in {"range", "write"} /\ hub.shared
              THEN [hub EXCEPT !.left = @ \ {c}, !.maybe = @ \ {c}, !.shared = subs'[hub.id] # {}]
              ELSE hub
  /\ cpc' = [cpc EXCEPT ![c] = "closed"]
  /\ UNCHANGED <<streamVars, since, clientVars, received, up>>

\* The walk of run() and a write to the same map at the same moment: the Go
\* runtime ends the process ("concurrent map iteration and map write").
\* removeConn deletes from every map, whether it holds the connection or not.
ConcurrentMapAccess(c) ==
  /\ hub.pc = "range" /\ hub.shared
  /\ \/ cpc[c] = "addNotif" /\ hub.id \in Filter[c] \cap Notifs
     \/ cpc[c] = "addBatch" /\ hub.id \in Filter[c] \cap Batches
     \/ cpc[c] = "reading" /\ c \in gone
  /\ up' = FALSE
  /\ UNCHANGED <<streamVars, hub, connVars, clientVars, received>>

ConnStep(c) == HandleWS(c) \/ AddNotif(c) \/ AddBatch(c) \/ RemoveConn(c)

-----------------------------------------------------------------------------
(* The clients *)

Connected(c) == cpc[c] \in {"addNotif", "addBatch", "reading"} /\ c \notin gone

\* A reset frees a blocked write; a client that vanishes does not.
ClientLeaves(c) ==
  /\ Connected(c)
  /\ gone' = gone \cup {c}
  /\ stalled' \in {stalled, stalled \ {c}}
  /\ UNCHANGED <<streamVars, hub, connVars, stalls, received, up>>

ClientStalls(c) ==
  /\ Connected(c) /\ c \notin stalled
  /\ stalls > 0
  /\ stalls' = stalls - 1
  /\ stalled' = stalled \cup {c}
  /\ UNCHANGED <<streamVars, hub, connVars, gone, received, up>>

ClientResumes(c) ==
  /\ Connected(c) /\ c \in stalled
  /\ stalled' = stalled \ {c}
  /\ UNCHANGED <<streamVars, hub, connVars, gone, stalls, received, up>>

ClientStep(c) == ClientLeaves(c) \/ ClientStalls(c) \/ ClientResumes(c)

-----------------------------------------------------------------------------
Next ==
  /\ up
  /\ \/ PublishStatus
     \/ StartConsuming
     \/ ConsumeStatusReturns
     \/ DispatchStatus
     \/ HubStep
     \/ \E c \in Conns : ConnStep(c) \/ ConcurrentMapAccess(c) \/ ClientStep(c)

Spec == Init /\ [][Next]_vars

\* The consumer, the hub's goroutine and each connection's goroutine keep
\* running; a read on a dead connection ends by TCP keep-alive at the latest.
\* Clients, workers and the consumer's connection promise nothing.
Fairness ==
  /\ WF_vars(up /\ DispatchStatus)
  /\ WF_vars(up /\ HubStep)
  /\ \A c \in Conns : WF_vars(up /\ ConnStep(c))

FairSpec == Spec /\ Fairness

-----------------------------------------------------------------------------
(* Properties *)

Events == 1..Len(Stream)

HubTypeOK ==
  /\ hub.pc \in HubLabels
  /\ hub.event \in 0..published
  /\ hub.id \in Ids \cup {None}
  /\ hub.left \subseteq Conns
  /\ hub.maybe \subseteq Conns
  /\ hub.shared \in BOOLEAN
  /\ hub.conn \in Conns \cup {None}

\* The type invariant the proofs rest on: every variable keeps its type, and a
\* walk that is over the map in subs has nothing to produce that the map does
\* not hold.
TypeOK ==
  /\ published \in 0..Len(Stream)
  /\ consumer \in {"starting", "consuming", "ended"}
  /\ queue \in Seq(Events) /\ broadcast \in Seq(Events)
  /\ Len(broadcast) <= Cap
  /\ lost \subseteq Events
  /\ HubTypeOK
  /\ subs \in [Ids -> SUBSET Conns]
  /\ cpc \in [Conns -> {"new", "addNotif", "addBatch", "reading", "closed"}]
  /\ since \in [Conns -> Nat]
  /\ gone \subseteq Conns /\ stalled \subseteq Conns
  /\ stalls \in 0..MaxStalls
  /\ received \in [Conns -> Seq(Events)]
  /\ up \in BOOLEAN
  /\ hub.left \cup hub.maybe \subseteq IF hub.shared THEN subs[hub.id] ELSE {}

\* The ids for which connection c is sent event e.
Matching(c, e) == Filter[c] \cap {Stream[e], BatchOf[Stream[e]]}

\* How often the client of c got e.
Times(c, e) == Cardinality({i \in DOMAIN received[c] : received[c][i] = e})

\* Event e left the channel and its walks are over.
Written(e) == e < hub.event \/ (e = hub.event /\ HubIdle)

\* A client gets the events it asked for and no other, one copy per id it asked
\* for, in the order the workers published them, whatever joins and leaves
\* while the hub walks its maps (writeToNotif, writeToBatch).
HeardInOrder ==
  \A c \in Conns :
    /\ \A i, j \in DOMAIN received[c] : i < j => received[c][i] <= received[c][j]
    /\ \A e \in Range(received[c]) : Times(c, e) <= Cardinality(Matching(c, e))

\* A client that stays connected and whose handler has reached its read loop
\* misses nothing that got into the hub's channel and left it after that:
\* removing other connections, and the maps they leave empty, never unsubscribes it.
StayingClientHears ==
  \A c \in Conns : cpc[c] = "reading" /\ c \notin gone =>
    \A e \in (since[c] + 1)..hub.event :
      Written(e) /\ e \notin lost => Times(c, e) = Cardinality(Matching(c, e))

\* A connection whose handler has returned is in no map, and one in the read
\* loop is in the map of each id it asked for: the hub keeps no dead
\* connection (a leak) and forgets no live one.
Registered ==
  \A c \in Conns :
    /\ cpc[c] = "closed" => \A i \in Ids : c \notin subs[i]
    /\ cpc[c] = "reading" => {i \in Ids : c \in subs[i]} = Filter[c]

\* However long a client does not read, with the hub's goroutine blocked in the
\* write to it and the channel full, ConsumeStatus takes every event off the
\* process's queue: the hub never holds back the consumer, whose prefetch would
\* stop the broker and let the queue grow (DispatchStatus).
QueueDrains ==
  \A e \in Events : (e \in Range(queue)) ~> (e \notin Range(queue) \/ ~up)

\* As long as no client that is still connected stops reading for good, every
\* event in the hub's channel is written: a client that stalls and then
\* disappears, in the middle of a write to it, stops nobody else.
ChannelDrains ==
  ([]<>(stalled \subseteq gone)) =>
    \A e \in Events : (e \in Range(broadcast)) ~> (Written(e) \/ ~up)
=============================================================================
