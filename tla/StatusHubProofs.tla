--------------------------- MODULE StatusHubProofs ---------------------------
(***************************************************************************)
(* What TLAPS proves of StatusHub for every set of notifications, batches  *)
(* and connections, every channel capacity and every stream of events:     *)
(* that the maps hold the connections they should, from an invariant that  *)
(* couples a walk in progress to the map it walks.                         *)
(***************************************************************************)
EXTENDS StatusHub, TLAPS

\* Nothing travels before it was published.
Travelling == queue \in Seq(1..published) /\ broadcast \in Seq(1..published)

\* The hub looks up an id, walks a map it still shares only while it walks, and
\* writes to a connection.
HubKnows ==
  /\ hub.pc # "idle" => hub.id \in Ids /\ hub.event \in 1..published
  /\ hub.shared => hub.pc \in {"range", "write"}
  /\ hub.pc = "write" => hub.conn \in Conns

\* The maps that hold a connection at each point of its handler.
Maps(c) == {i \in Ids : c \in subs[i]}
Membership ==
  \A c \in Conns :
    Maps(c) = CASE cpc[c] \in {"new", "addNotif", "closed"} -> {}
                [] cpc[c] = "addBatch" -> Filter[c] \cap Notifs
                [] cpc[c] = "reading" -> Filter[c]

HubFields == [pc : HubLabels, event : Nat, id : Ids \cup {None}, left : SUBSET Conns,
              maybe : SUBSET Conns, shared : BOOLEAN, conn : Conns \cup {None}]

HubInv == TypeOK /\ Travelling /\ hub \in HubFields /\ HubKnows /\ Membership

-----------------------------------------------------------------------------
LEMMA StreamTypes == Len(Stream) \in Nat /\ \A e \in 1..Len(Stream) : Stream[e] \in Notifs
BY HubAssumption

LEMMA InitHubInv == Init => HubInv
BY HubAssumption, StreamTypes
DEF Init, InitHub, AtRest, HubInv, TypeOK, HubTypeOK, HubLabels, Travelling, HubFields,
    HubKnows, Membership, Maps, Ids

LEMMA SeqWiden ==
  ASSUME NEW A, NEW B, A \subseteq B, NEW s \in Seq(A) PROVE s \in Seq(B)
<1>1. DOMAIN s = 1..Len(s) /\ \A i \in DOMAIN s : s[i] \in B
  OBVIOUS
<1>. QED
  BY <1>1

LEMMA HeadTail ==
  ASSUME NEW A, NEW s \in Seq(A), s # <<>>
  PROVE  Head(s) \in A /\ Tail(s) \in Seq(A) /\ Len(Tail(s)) = Len(s) - 1 /\ Len(s) \in Nat
OBVIOUS

\* A sequence of published events is one of events, and stays one.
LEMMA TravellingTypes ==
  ASSUME HubInv
  PROVE  /\ published \in Nat /\ published <= Len(Stream)
         /\ \A s \in Seq(1..published) : s \in Seq(Events) /\ Range(s) \subseteq Events
<1>1. published \in Nat /\ published <= Len(Stream)
  BY StreamTypes DEF HubInv, TypeOK
<1>2. 1..published \subseteq Events
  BY <1>1, StreamTypes DEF Events
<1>. QED
  BY <1>1, <1>2 DEF Range

\* The channel and the queue.
LEMMA StreamKeeps ==
  ASSUME HubInv, PublishStatus \/ StartConsuming \/ ConsumeStatusReturns \/ DispatchStatus
  PROVE  HubInv'
<1>1. UNCHANGED <<hub, connVars, clientVars, received, up>>
  BY DEF PublishStatus, StartConsuming, ConsumeStatusReturns, DispatchStatus
<1>2. published' \in 0..Len(Stream) /\ published <= published'
  BY TravellingTypes, StreamTypes
  DEF PublishStatus, StartConsuming, ConsumeStatusReturns, DispatchStatus, HubInv, TypeOK
<1>3. published' \in Nat /\ 1..published \subseteq 1..published' /\ 1..published' \subseteq Events
  BY <1>2, TravellingTypes, StreamTypes DEF Events
<1>4. queue \in Seq(1..published') /\ broadcast \in Seq(1..published')
  BY <1>3, SeqWiden DEF HubInv, Travelling
<1>5. /\ queue' \in Seq(1..published') /\ broadcast' \in Seq(1..published')
      /\ Len(broadcast') <= Cap
      /\ lost' \subseteq Events
  <2>1. Len(broadcast) <= Cap /\ Len(broadcast) \in Nat /\ Cap \in Nat /\ lost \subseteq Events
    BY HubAssumption DEF HubInv, TypeOK
  <2>2. CASE PublishStatus
    <3>1. published' \in 1..published' /\ published' \in Events
      BY <2>2, <1>2, <1>3, TravellingTypes DEF PublishStatus
    <3>2. CASE consumer = "consuming"
      <4>1. queue' = Append(queue, published') /\ broadcast' = broadcast /\ lost' = lost
        BY <2>2, <3>2 DEF PublishStatus
      <4>. QED
        BY <2>1, <1>4, <3>1, <4>1
    <3>3. CASE consumer # "consuming"
      BY <2>1, <2>2, <1>4, <3>1, <3>3 DEF PublishStatus
    <3>. QED
      BY <3>2, <3>3
  <2>3. CASE StartConsuming
    BY <2>1, <2>3, <1>4 DEF StartConsuming
  <2>4. CASE ConsumeStatusReturns
    BY <2>1, <2>4, <1>4, TravellingTypes DEF ConsumeStatusReturns, HubInv, Travelling
  <2>5. CASE DispatchStatus
    <3>1. Head(queue) \in 1..published' /\ Head(queue) \in Events /\ Tail(queue) \in Seq(1..published')
      BY <2>5, <1>3, <1>4 DEF DispatchStatus
    <3>2. CASE Len(broadcast) < Cap
      <4>1. broadcast' = Append(broadcast, Head(queue)) /\ lost' = lost /\ queue' = Tail(queue)
        BY <2>5, <3>2 DEF DispatchStatus
      <4>. QED
        BY <2>1, <1>4, <3>1, <3>2, <4>1
    <3>3. CASE ~(Len(broadcast) < Cap)
      BY <2>1, <2>5, <1>4, <3>1, <3>3 DEF DispatchStatus
    <3>. QED
      BY <3>2, <3>3
  <2>. QED
    BY <2>2, <2>3, <2>4, <2>5
<1>6. consumer' \in {"starting", "consuming", "ended"}
  BY DEF PublishStatus, StartConsuming, ConsumeStatusReturns, DispatchStatus, HubInv, TypeOK
<1>7. queue' \in Seq(Events) /\ broadcast' \in Seq(Events)
  BY <1>3, <1>5, SeqWiden
<1>8. hub'.event \in 0..published' /\ (hub.event \in 1..published => hub'.event \in 1..published')
  BY <1>1, <1>2, <1>3, TravellingTypes DEF HubInv, TypeOK, HubTypeOK
<1>9. TypeOK'
  BY <1>1, <1>2, <1>5, <1>6, <1>7, <1>8
  DEF HubInv, TypeOK, HubTypeOK, connVars, clientVars
<1>10. Travelling' /\ (hub \in HubFields)' /\ HubKnows' /\ Membership'
  BY <1>1, <1>5, <1>8 DEF Travelling, HubInv, HubKnows, Membership, Maps, connVars
<1>. QED
  BY <1>9, <1>10 DEF HubInv

\* The hub's goroutine moves only itself, the channel and what clients received.
LEMMA HubKeeps ==
  ASSUME HubInv, HubStep
  PROVE  HubInv'
<1>1. /\ UNCHANGED <<published, consumer, queue, lost, connVars, clientVars, up>>
      /\ TypeOK /\ HubTypeOK /\ HubKnows /\ Travelling /\ hub \in HubFields
  BY DEF HubStep, TakeMessage, ReadInnerMap, NextConn, EndOfMap, WriteMessage, streamVars,
         HubInv, TypeOK
<1>2. 1..published \subseteq Events /\ 1..published \subseteq 0..published
  BY TravellingTypes, StreamTypes DEF Events
<1>3. \A i \in Ids : subs[i] \subseteq Conns
  BY <1>1 DEF TypeOK
<1> DEFINE Walk == /\ hub' \in HubFields
                   /\ HubKnows'
                   /\ hub'.event \in 0..published
                   /\ hub'.left \cup hub'.maybe \subseteq IF hub'.shared THEN subs[hub'.id] ELSE {}
           Sent == /\ broadcast' \in Seq(1..published) /\ Len(broadcast') <= Cap
                   /\ received' \in [Conns -> Seq(Events)]
<1>4. ASSUME TakeMessage PROVE Walk /\ Sent
  <2>1. /\ Head(broadcast) \in 1..published /\ Tail(broadcast) \in Seq(1..published)
        /\ Len(Tail(broadcast)) = Len(broadcast) - 1 /\ Len(broadcast) \in Nat
    <3>1. broadcast # <<>> /\ broadcast \in Seq(1..published)
      BY <1>1, <1>4 DEF TakeMessage, Travelling
    <3>. QED
      BY <3>1, HeadTail
  <2>2. Stream[Head(broadcast)] \in Ids
    BY <1>2, <2>1, StreamTypes DEF Ids, Events
  <2>3. ~hub.shared
    BY <1>1, <1>4 DEF TakeMessage, HubIdle, HubKnows
  <2>4. hub' = [hub EXCEPT !.pc = "lookup", !.event = Head(broadcast), !.id = Stream[Head(broadcast)]]
        /\ broadcast' = Tail(broadcast) /\ received' = received
    BY <1>4 DEF TakeMessage
  <2>5. Walk
    <3>1. Head(broadcast) \in Nat /\ Head(broadcast) \in 0..published
      BY <1>2, <2>1, TravellingTypes
    <3>2. hub.left \cup hub.maybe \subseteq {}
      BY <1>1, <2>3 DEF TypeOK
    <3>3. /\ hub'.pc = "lookup" /\ hub'.event = Head(broadcast) /\ hub'.id \in Ids
          /\ hub'.left = hub.left /\ hub'.maybe = hub.maybe /\ ~hub'.shared
          /\ hub' \in HubFields
      BY <1>1, <2>2, <2>3, <2>4, <3>1 DEF HubFields, HubLabels
    <3>4. HubKnows'
      BY <1>1, <2>1, <3>3 DEF HubKnows
    <3>. QED
      BY <3>1, <3>2, <3>3, <3>4
  <2>6. Sent
    BY <1>1, <2>1, <2>4, HubAssumption DEF TypeOK
  <2>. QED
    BY <2>5, <2>6
<1>5. ASSUME ReadInnerMap PROVE Walk /\ Sent
  <2>1. hub.id \in Ids /\ hub.event \in 1..published
    BY <1>1, <1>5 DEF ReadInnerMap, HubKnows
  <2>2. hub' = [hub EXCEPT !.pc = "range", !.left = subs[hub.id], !.maybe = {},
                           !.shared = subs[hub.id] # {}]
        /\ broadcast' = broadcast /\ received' = received
    BY <1>5 DEF ReadInnerMap, streamVars
  <2>3. Walk
    BY <1>1, <1>2, <1>3, <2>1, <2>2 DEF HubFields, HubLabels, HubKnows
  <2>. QED
    BY <1>1, <2>2, <2>3 DEF TypeOK, Travelling
<1>6. ASSUME NextConn PROVE Walk /\ Sent
  <2>1. PICK c \in hub.left \cup hub.maybe :
          hub' = [hub EXCEPT !.pc = "write", !.conn = c, !.left = @ \ {c}, !.maybe = @ \ {c}]
    BY <1>6 DEF NextConn
  <2>2. hub.pc = "range" /\ broadcast' = broadcast /\ received' = received
    BY <1>6 DEF NextConn, streamVars
  <2>3. Walk
    BY <1>1, <1>2, <2>1, <2>2 DEF HubFields, HubLabels, HubKnows, TypeOK, HubTypeOK
  <2>. QED
    BY <1>1, <2>2, <2>3 DEF TypeOK, Travelling
<1>7. ASSUME EndOfMap PROVE Walk /\ Sent
  <2>1. hub.id \in Ids /\ hub.event \in 1..published /\ hub.event \in Nat
    BY <1>1, <1>7, TravellingTypes DEF EndOfMap, HubKnows
  <2>2. broadcast' = broadcast /\ received' = received
    BY <1>7 DEF EndOfMap, streamVars
  <2>3. ASSUME hub.id \in Notifs /\ BatchOf[hub.id] # None PROVE Walk
    <3>1. BatchOf[hub.id] \in Ids
      BY <2>3, HubAssumption DEF Ids
    <3>2. hub' = [AtRest EXCEPT !.pc = "lookup", !.event = hub.event, !.id = BatchOf[hub.id]]
      BY <1>7, <2>3 DEF EndOfMap
    <3>. QED
      <4>1. hub' = [pc |-> "lookup", event |-> hub.event, id |-> BatchOf[hub.id], left |-> {},
                    maybe |-> {}, shared |-> FALSE, conn |-> None]
        BY <3>2 DEF AtRest
      <4>2. hub' \in HubFields
        BY <2>1, <3>1, <4>1 DEF HubFields, HubLabels
      <4>3. HubKnows'
        <5>1. hub'.pc = "lookup" /\ hub'.event = hub.event /\ hub'.id = BatchOf[hub.id] /\ ~hub'.shared
          BY <4>1, Zenon
        <5>. QED
          BY <1>1, <2>1, <3>1, <5>1 DEF HubKnows
      <4>. QED
        BY <1>2, <2>1, <4>1, <4>2, <4>3
  <2>4. ASSUME ~(hub.id \in Notifs /\ BatchOf[hub.id] # None) PROVE Walk
    <3>1. hub' = [AtRest EXCEPT !.event = hub.event]
      BY <1>7, <2>4 DEF EndOfMap
    <3>. QED
      <4>1. hub' = [pc |-> "idle", event |-> hub.event, id |-> None, left |-> {},
                    maybe |-> {}, shared |-> FALSE, conn |-> None]
        BY <3>1 DEF AtRest
      <4>2. hub' \in HubFields
        BY <2>1, <4>1 DEF HubFields, HubLabels
      <4>3. HubKnows'
        <5>1. hub'.pc = "idle" /\ ~hub'.shared
          BY <4>1, Zenon
        <5>. QED
          BY <5>1 DEF HubKnows
      <4>. QED
        BY <1>2, <2>1, <4>1, <4>2, <4>3
  <2>5. Walk
    BY <2>3, <2>4
  <2>. QED
    BY <1>1, <2>2, <2>5 DEF TypeOK, Travelling
<1>8. ASSUME WriteMessage PROVE Walk /\ Sent
  <2>1. hub.conn \in Conns /\ hub.event \in 1..published /\ hub.event \in Events
    BY <1>1, <1>2, <1>8 DEF WriteMessage, HubKnows
  <2>2. hub' = [hub EXCEPT !.pc = "range", !.conn = None] /\ broadcast' = broadcast
    BY <1>8 DEF WriteMessage, streamVars
  <2>3. received' \in [Conns -> Seq(Events)]
    BY <1>1, <1>8, <2>1 DEF WriteMessage, TypeOK
  <2>4. Walk
    BY <1>1, <1>2, <1>8, <2>1, <2>2 DEF WriteMessage, HubFields, HubLabels, HubKnows, TypeOK, HubTypeOK
  <2>. QED
    BY <1>1, <2>2, <2>3, <2>4 DEF TypeOK, Travelling
<1>9. Walk /\ Sent
  <2>1. TakeMessage \/ ReadInnerMap \/ NextConn \/ EndOfMap \/ WriteMessage
    BY DEF HubStep
  <2>. QED
    BY <1>4, <1>5, <1>6, <1>7, <1>8, <2>1
<1>10. HubTypeOK'
  BY <1>1, <1>9 DEF HubTypeOK, HubFields
<1>11. broadcast' \in Seq(Events)
  BY <1>2, <1>9, SeqWiden
<1>12. TypeOK'
  BY <1>1, <1>9, <1>10, <1>11 DEF TypeOK, connVars, clientVars
<1>13. Membership'
  BY <1>1 DEF HubInv, Membership, Maps, connVars
<1>14. Travelling'
  BY <1>1, <1>9 DEF Travelling
<1>. QED
  BY <1>9, <1>12, <1>13, <1>14 DEF HubInv

\* The handlers of the connections, the clients, and the end of the process.
LEMMA ConnKeeps ==
  ASSUME HubInv, NEW c \in Conns, ConnStep(c) \/ ConcurrentMapAccess(c) \/ ClientStep(c)
  PROVE  HubInv'
<1> DEFINE CpcLabels == {"new", "addNotif", "addBatch", "reading", "closed"}
<1>1. /\ UNCHANGED <<streamVars, received>>
      /\ TypeOK /\ HubTypeOK /\ HubKnows /\ Travelling /\ hub \in HubFields /\ Membership
      /\ subs \in [Ids -> SUBSET Conns] /\ cpc \in [Conns -> CpcLabels]
  BY DEF ConnStep, HandleWS, AddNotif, AddBatch, Add, RemoveConn, ConcurrentMapAccess, ClientStep,
         ClientLeaves, ClientStalls, ClientResumes, HubInv, TypeOK
<1>2. hub.event \in Nat /\ hub.event \in 0..published
  BY <1>1, TravellingTypes DEF HubFields, HubTypeOK
<1>3. CASE HandleWS(c)
  <2>1. /\ UNCHANGED <<hub, subs, since, clientVars, up>> /\ cpc[c] = "new"
        /\ cpc' = [cpc EXCEPT ![c] = IF Filter[c] \cap Notifs = {} THEN "addBatch" ELSE "addNotif"]
    BY <1>3 DEF HandleWS
  <2>2. cpc' \in [Conns -> CpcLabels]
    BY <1>1, <2>1
  <2>3. Membership'
    BY <1>1, <2>1 DEF Membership, Maps
  <2>. QED
    BY <1>1, <2>1, <2>2, <2>3
    DEF HubInv, TypeOK, HubTypeOK, Travelling, HubKnows, clientVars, streamVars
<1>4. ASSUME NEW i \in Ids, Add(c, i), i \in Filter[c],
             \/ cpc[c] = "addNotif" /\ i \in Notifs
             \/ cpc[c] = "addBatch" /\ i \in Batches
      PROVE  HubInv'
  <2>1. /\ UNCHANGED <<clientVars, up>>
        /\ subs' = [subs EXCEPT ![i] = @ \cup {c}]
        /\ hub' = IF hub.pc \in {"range", "write"} /\ hub.id = i /\ hub.shared
                    THEN [hub EXCEPT !.maybe = @ \cup {c}] ELSE hub
        /\ cpc' = [cpc EXCEPT ![c] = AfterAdd(c, Notifs \cup {i})]
        /\ since' = [since EXCEPT ![c] = hub.event]
    BY <1>4 DEF Add
  <2>2. hub' \in HubFields /\ hub'.event = hub.event /\ hub'.pc = hub.pc /\ hub'.id = hub.id
        /\ hub'.shared = hub.shared /\ hub'.left = hub.left /\ hub'.conn = hub.conn
        /\ hub'.maybe \subseteq IF hub.id = i /\ hub.shared THEN hub.maybe \cup {c} ELSE hub.maybe
    BY <1>1, <2>1 DEF HubFields
  <2>3. subs' \in [Ids -> SUBSET Conns] /\ subs'[i] = subs[i] \cup {c}
        /\ \A j \in Ids \ {i} : subs'[j] = subs[j]
    BY <1>1, <2>1
  <2>4. hub'.left \cup hub'.maybe \subseteq IF hub'.shared THEN subs'[hub'.id] ELSE {}
    <3>1. hub.shared => hub.id \in Ids
      BY <1>1 DEF HubKnows
    <3>2. hub.left \cup hub.maybe \subseteq IF hub.shared THEN subs[hub.id] ELSE {}
      BY <1>1 DEF TypeOK
    <3>. QED
      BY <2>2, <2>3, <3>1, <3>2
  <2>5. AfterAdd(c, Notifs \cup {i}) \in {"reading", "addBatch"}
    BY DEF AfterAdd
  <2>6. cpc' \in [Conns -> CpcLabels] /\ since' \in [Conns -> Nat]
    BY <1>1, <1>2, <2>1, <2>5 DEF TypeOK
  <2>7. Membership'
    <3>1. ASSUME NEW d \in Conns, d # c PROVE Maps(d)' = Maps(d) /\ cpc'[d] = cpc[d]
      BY <1>1, <2>1, <2>3, <3>1 DEF Maps
    <3>2. Maps(c)' = Maps(c) \cup {i}
      BY <2>3 DEF Maps
    <3>3. Maps(c)' = IF cpc'[c] = "addBatch" THEN Filter[c] \cap Notifs ELSE Filter[c]
      <4>1. Filter[c] \subseteq Notifs \cup Batches
        BY HubAssumption DEF Ids
      <4>2. \A x, y \in Filter[c] : (x \in Notifs /\ y \in Notifs) \/ (x \in Batches /\ y \in Batches) => x = y
        BY HubAssumption
      <4>3. cpc'[c] = IF Filter[c] \subseteq Notifs \cup {i} THEN "reading" ELSE "addBatch"
        BY <1>1, <2>1 DEF AfterAdd
      <4>4. CASE cpc[c] = "addNotif" /\ i \in Notifs
        <5>1. Maps(c) = {}
          BY <1>1, <4>4 DEF Membership
        <5>. QED
          BY <1>4, <3>2, <4>1, <4>2, <4>3, <4>4, <5>1
      <4>5. CASE cpc[c] = "addBatch" /\ i \in Batches
        <5>1. Maps(c) = Filter[c] \cap Notifs
          BY <1>1, <4>5 DEF Membership
        <5>2. Filter[c] \subseteq Notifs \cup {i}
          BY <1>4, <4>1, <4>2, <4>5
        <5>. QED
          BY <1>4, <3>2, <4>1, <4>2, <4>3, <5>1, <5>2
      <4>. QED
        BY <1>4, <4>4, <4>5
    <3>4. cpc'[c] \in {"reading", "addBatch"}
      BY <1>1, <2>1, <2>5
    <3>. QED
      BY <1>1, <3>1, <3>3, <3>4 DEF Membership
  <2>. QED
    BY <1>1, <2>1, <2>2, <2>3, <2>4, <2>6, <2>7
    DEF HubInv, TypeOK, HubTypeOK, HubFields, Travelling, HubKnows, clientVars, streamVars
<1>5. CASE RemoveConn(c)
  <2>1. /\ UNCHANGED <<since, clientVars, up>> /\ cpc[c] = "reading"
        /\ subs' = Without(c)
        /\ hub' = IF hub.pc \in {"range", "write"} /\ hub.shared
                    THEN [hub EXCEPT !.left = @ \ {c}, !.maybe = @ \ {c},
                                     !.shared = subs'[hub.id] # {}]
                    ELSE hub
        /\ cpc' = [cpc EXCEPT ![c] = "closed"]
    BY <1>5 DEF RemoveConn
  <2>2. subs' \in [Ids -> SUBSET Conns] /\ \A j \in Ids : subs'[j] = subs[j] \ {c}
    BY <1>1, <2>1 DEF Without
  <2>3. hub.left \cup hub.maybe \subseteq IF hub.shared THEN subs[hub.id] ELSE {}
    BY <1>1 DEF TypeOK
  <2>4. /\ hub' \in HubFields /\ hub'.pc = hub.pc /\ hub'.event = hub.event /\ hub'.id = hub.id
        /\ hub'.conn = hub.conn /\ (hub'.shared => hub.shared)
        /\ hub.shared => hub'.left = hub.left \ {c} /\ hub'.maybe = hub.maybe \ {c}
                          /\ hub'.shared = (subs'[hub.id] # {})
        /\ ~hub.shared => hub' = hub
    <3>1. CASE hub.shared
      <4>1. hub.pc \in {"range", "write"}
        BY <1>1, <3>1 DEF HubKnows
      <4>. QED
        BY <1>1, <2>1, <3>1, <4>1 DEF HubFields
    <3>2. CASE ~hub.shared
      BY <1>1, <2>1, <3>2
    <3>. QED
      BY <3>1, <3>2
  <2>5. hub'.left \cup hub'.maybe \subseteq IF hub'.shared THEN subs'[hub'.id] ELSE {}
    <3>1. CASE hub.shared
      <4>1. hub.id \in Ids
        BY <1>1, <3>1 DEF HubKnows
      <4>. QED
        BY <2>2, <2>3, <2>4, <3>1, <4>1
    <3>2. CASE ~hub.shared
      BY <2>3, <2>4, <3>2
    <3>. QED
      BY <3>1, <3>2
  <2>6. Membership'
    BY <1>1, <2>1, <2>2 DEF Membership, Maps
  <2>7. cpc' \in [Conns -> CpcLabels]
    BY <1>1, <2>1
  <2>. QED
    BY <1>1, <2>1, <2>2, <2>4, <2>5, <2>6, <2>7
    DEF HubInv, TypeOK, HubTypeOK, HubFields, Travelling, HubKnows, clientVars, streamVars
<1>6. CASE ConcurrentMapAccess(c) \/ ClientStep(c)
  <2>1. UNCHANGED <<streamVars, hub, connVars, received>>
    BY <1>6 DEF ConcurrentMapAccess, ClientStep, ClientLeaves, ClientStalls, ClientResumes
  <2>2. gone' \subseteq Conns /\ stalled' \subseteq Conns /\ stalls' \in 0..MaxStalls /\ up' \in BOOLEAN
    <3>1. gone \subseteq Conns /\ stalled \subseteq Conns /\ stalls \in 0..MaxStalls /\ up \in BOOLEAN
      BY <1>1 DEF TypeOK
    <3>2. CASE ConcurrentMapAccess(c)
      BY <3>1, <3>2 DEF ConcurrentMapAccess, clientVars
    <3>3. CASE ClientLeaves(c)
      BY <3>1, <3>3 DEF ClientLeaves
    <3>4. CASE ClientStalls(c)
      <4>1. stalls' = stalls - 1 /\ stalls > 0 /\ MaxStalls \in Nat
        BY <3>4, HubAssumption DEF ClientStalls
      <4>2. stalls' \in 0..MaxStalls
        BY <3>1, <4>1
      <4>. QED
        BY <3>1, <3>4, <4>2 DEF ClientStalls
    <3>5. CASE ClientResumes(c)
      BY <3>1, <3>5 DEF ClientResumes
    <3>. QED
      BY <1>6, <3>2, <3>3, <3>4, <3>5 DEF ClientStep
  <2>. QED
    BY <1>1, <2>1, <2>2
    DEF HubInv, TypeOK, HubTypeOK, Travelling, HubKnows, Membership, Maps, streamVars, connVars
<1>. QED
  BY <1>3, <1>4, <1>5, <1>6 DEF ConnStep, AddNotif, AddBatch, Ids

LEMMA HubInvariant == Spec => []HubInv
<1>1. HubInv /\ [Next]_vars => HubInv'
  <2> SUFFICES ASSUME HubInv, [Next]_vars PROVE HubInv'
    OBVIOUS
  <2>1. CASE UNCHANGED vars
    BY <2>1 DEF vars, streamVars, connVars, clientVars, HubInv, TypeOK, HubTypeOK, Travelling,
                HubKnows, Membership, Maps
  <2>. QED
    BY <2>1, StreamKeeps, HubKeeps, ConnKeeps DEF Next
<1>. QED
  BY <1>1, InitHubInv, PTL DEF Spec

-----------------------------------------------------------------------------
\* Type correctness of the status stream: what HubOrderProofs needs of it is that
\* the walk of run() over a map that is also in the hub has nothing to produce
\* that the map does not hold.
LEMMA HubTypeCorrect == Spec => []TypeOK
<1>1. HubInv => TypeOK
  BY DEF HubInv
<1>. QED
  BY <1>1, HubInvariant, PTL

\* For any number of connections that come and go during any walk: one whose
\* handler has returned is in no map, and one in its read loop is in the map of
\* each id it asked for.
THEOREM RegisteredHolds == Spec => []Registered
<1>1. HubInv => Registered
  BY DEF HubInv, Membership, Maps, Registered
<1>. QED
  BY <1>1, HubInvariant, PTL
=============================================================================
