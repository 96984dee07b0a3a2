--------------------------- MODULE HubOrderProofs ---------------------------
(***************************************************************************)
(* What TLAPS proves of the events each client of StatusHub gets, for      *)
(* every set of connections, every filter and every stream: they come in   *)
(* the order they were published, none comes more often than the client    *)
(* asked for it, and a client that stays misses none that the hub took.    *)
(***************************************************************************)
EXTENDS StatusHubProofs, FiniteSetTheorems

\* Events leave the exchange, the queue and the channel in the order they were
\* published, and whatever came before the hub's event and is nowhere was lost.
Increasing(s) == \A i, j \in DOMAIN s : i < j => s[i] < s[j]
InTransit ==
  /\ Increasing(queue) /\ Increasing(broadcast)
  /\ \A f \in Range(queue) : hub.event < f /\ \A e \in Range(broadcast) : e < f
  /\ \A e \in Range(broadcast) : hub.event < e
  /\ \A e \in (hub.event + 1)..published :
       e \in lost \cup Range(queue) \cup Range(broadcast)

\* The hub walks the maps of its event: first of the notification, then of the
\* batch.  A connection it took from a map was in it, and is not taken again.
Walks ==
  /\ hub.pc # "idle" =>
       \/ hub.id = Stream[hub.event]
       \/ hub.id = BatchOf[Stream[hub.event]] /\ hub.id \in Batches
  /\ hub.pc = "write" =>
       /\ hub.conn \notin hub.left \cup hub.maybe
       /\ hub.id \in Filter[hub.conn]
       /\ hub.conn \in subs[hub.id] \/ cpc[hub.conn] = "closed"
  /\ \A c \in hub.maybe : since[c] = hub.event

\* The connections the walk in progress may still write to: those it has yet to
\* produce, the one it is writing to, and those that may still be added.
Due(c) ==
  \/ c \in hub.left \cup hub.maybe
  \/ hub.pc = "write" /\ hub.conn = c
  \/ c \notin subs[hub.id] /\ cpc[c] # "closed"

\* The ids for which c may still be sent the hub's event.
Ahead(c) ==
  {i \in Matching(c, hub.event) :
     /\ hub.pc # "idle"
     /\ IF i = hub.id THEN hub.pc = "lookup" \/ Due(c) ELSE hub.id \in Notifs}

Stays(c) == cpc[c] = "reading" /\ c \notin gone

\* What c got of the hub's event and may still get make up what it asked for;
\* of what came before, it got that and no more.
Told(c) ==
  /\ hub.event > 0 =>
       /\ Times(c, hub.event) + Cardinality(Ahead(c)) <= Cardinality(Matching(c, hub.event))
       /\ Stays(c) /\ since[c] < hub.event =>
            Times(c, hub.event) + Cardinality(Ahead(c)) = Cardinality(Matching(c, hub.event))
  /\ \A e \in 1..(hub.event - 1) :
       /\ Times(c, e) <= Cardinality(Matching(c, e))
       /\ Stays(c) /\ since[c] < e /\ e \notin lost =>
            Times(c, e) = Cardinality(Matching(c, e))

\* Nobody was sent an event the hub has not taken, and what came later is later.
InOrder(s) == \A i, j \in DOMAIN s : i < j => s[i] <= s[j]
Heard ==
  \A c \in Conns :
    /\ InOrder(received[c])
    /\ \A i \in DOMAIN received[c] : received[c][i] <= hub.event
    /\ Told(c)


OrderInv == HubInv /\ InTransit /\ Walks /\ Heard

-----------------------------------------------------------------------------
(* Counting *)

Positions(s, e) == {i \in DOMAIN s : s[i] = e}

\* The positions of an event are finitely many, and appending an event adds one
\* to its own and none to those of another.
LEMMA PositionsFinite ==
  ASSUME NEW S, NEW s \in Seq(S), NEW e
  PROVE  IsFiniteSet(Positions(s, e)) /\ Cardinality(Positions(s, e)) \in Nat
<1>1. DOMAIN s = 1..Len(s) /\ Len(s) \in Nat
  OBVIOUS
<1>2. IsFiniteSet(1..Len(s))
  BY <1>1, FS_Interval
<1>3. Positions(s, e) \in SUBSET (1..Len(s))
  BY <1>1 DEF Positions
<1>. QED
  BY <1>2, <1>3, FS_Subset, FS_CardinalityType

LEMMA PositionsAppend ==
  ASSUME NEW S, NEW s \in Seq(S), NEW x \in S, NEW e
  PROVE  Cardinality(Positions(Append(s, x), e)) =
           IF x = e THEN Cardinality(Positions(s, e)) + 1 ELSE Cardinality(Positions(s, e))
<1>1. /\ DOMAIN s = 1..Len(s) /\ Len(s) \in Nat
      /\ DOMAIN Append(s, x) = 1..(Len(s) + 1)
      /\ \A i \in 1..Len(s) : Append(s, x)[i] = s[i]
      /\ Append(s, x)[Len(s) + 1] = x
  OBVIOUS
<1>2. Positions(Append(s, x), e) =
        IF x = e THEN Positions(s, e) \cup {Len(s) + 1} ELSE Positions(s, e)
  BY <1>1 DEF Positions
<1>3. Len(s) + 1 \notin Positions(s, e)
  BY <1>1 DEF Positions
<1>. QED
  BY <1>2, <1>3, PositionsFinite, FS_AddElement

\* What a connection asked for of an event is a finite set, and so is each part.
LEMMA PartOfMatching ==
  ASSUME NEW c, NEW e, NEW T \in SUBSET Matching(c, e)
  PROVE  /\ IsFiniteSet(T) /\ Cardinality(T) \in Nat
         /\ \A U \in SUBSET T : IsFiniteSet(U) /\ Cardinality(U) \in Nat
                                /\ Cardinality(U) <= Cardinality(T)
<1>1. IsFiniteSet({Stream[e]}) /\ IsFiniteSet({Stream[e]} \cup {BatchOf[Stream[e]]})
  BY FS_Singleton, FS_AddElement
<1>2. T \in SUBSET ({Stream[e]} \cup {BatchOf[Stream[e]]})
  BY DEF Matching
<1>3. IsFiniteSet(T)
  BY <1>1, <1>2, FS_Subset
<1>. QED
  BY <1>3, FS_Subset, FS_CardinalityType

LEMMA TimesType ==
  ASSUME HubInv, NEW c \in Conns, NEW e
  PROVE  Times(c, e) = Cardinality(Positions(received[c], e)) /\ Times(c, e) \in Nat
<1>1. received[c] \in Seq(Events)
  BY DEF HubInv, TypeOK
<1>2. Times(c, e) = Cardinality(Positions(received[c], e))
  BY DEF Times, Positions
<1>. QED
  BY <1>1, <1>2, PositionsFinite

\* An event a client never got is counted zero times.
LEMMA NeverGot ==
  ASSUME NEW c, NEW e, \A i \in DOMAIN received[c] : received[c][i] # e
  PROVE  Times(c, e) = 0
<1>1. {i \in DOMAIN received[c] : received[c][i] = e} = {}
  OBVIOUS
<1>. QED
  BY <1>1, FS_EmptySet DEF Times

-----------------------------------------------------------------------------
\* The sequences hold no event twice, nor out of order, when one leaves at the
\* head or one that is later than all joins at the end.
LEMMA IncreasingTail ==
  ASSUME NEW s \in Seq(Nat), s # <<>>, Increasing(s)
  PROVE  /\ Increasing(Tail(s)) /\ Range(Tail(s)) \subseteq Range(s)
         /\ Head(s) \in Range(s)
         /\ \A e \in Range(s) : e = Head(s) \/ e \in Range(Tail(s))
         /\ \A e \in Range(Tail(s)) : Head(s) < e
<1>1. /\ DOMAIN s = 1..Len(s) /\ Len(s) \in Nat /\ Len(s) >= 1
      /\ Tail(s) \in Seq(Nat) /\ DOMAIN Tail(s) = 1..(Len(s) - 1)
      /\ \A i \in 1..(Len(s) - 1) : Tail(s)[i] = s[i + 1]
      /\ Head(s) = s[1]
  OBVIOUS
<1>2. Increasing(Tail(s))
  BY <1>1 DEF Increasing
<1>3. Head(s) \in Range(s)
  BY <1>1 DEF Range
<1>4. ASSUME NEW e \in Range(Tail(s)) PROVE e \in Range(s) /\ Head(s) < e
  <2>1. PICK i \in 1..(Len(s) - 1) : e = s[i + 1]
    BY <1>1, <1>4 DEF Range
  <2>2. 1 < i + 1 /\ i + 1 \in DOMAIN s /\ 1 \in DOMAIN s
    BY <1>1
  <2>. QED
    BY <1>1, <2>1, <2>2 DEF Increasing, Range
<1>5. ASSUME NEW e \in Range(s), e # Head(s) PROVE e \in Range(Tail(s))
  <2>1. PICK i \in 1..Len(s) : e = s[i]
    BY <1>1, <1>5 DEF Range
  <2>2. i # 1
    BY <1>1, <1>5, <2>1
  <2>3. i - 1 \in 1..(Len(s) - 1) /\ Tail(s)[i - 1] = s[i]
    BY <1>1, <2>2
  <2>. QED
    BY <1>1, <2>1, <2>3 DEF Range
<1>. QED
  BY <1>2, <1>3, <1>4, <1>5

LEMMA IncreasingAppend ==
  ASSUME NEW s \in Seq(Nat), NEW x \in Nat, Increasing(s), \A e \in Range(s) : e < x
  PROVE  Increasing(Append(s, x)) /\ Range(Append(s, x)) = Range(s) \cup {x}
<1>1. /\ DOMAIN s = 1..Len(s) /\ Len(s) \in Nat
      /\ DOMAIN Append(s, x) = 1..(Len(s) + 1)
      /\ \A i \in 1..Len(s) : Append(s, x)[i] = s[i] /\ s[i] \in Nat
      /\ Append(s, x)[Len(s) + 1] = x
  OBVIOUS
<1>2. Increasing(Append(s, x))
  <2> SUFFICES ASSUME NEW i \in 1..(Len(s) + 1), NEW j \in 1..(Len(s) + 1), i < j
               PROVE  Append(s, x)[i] < Append(s, x)[j]
    BY <1>1 DEF Increasing
  <2>1. i \in 1..Len(s)
    BY <1>1
  <2>2. CASE j = Len(s) + 1
    <3>1. s[i] \in Range(s)
      BY <1>1, <2>1 DEF Range
    <3>. QED
      BY <1>1, <2>1, <2>2, <3>1
  <2>3. CASE j # Len(s) + 1
    <3>1. j \in 1..Len(s)
      BY <1>1, <2>3
    <3>. QED
      BY <1>1, <2>1, <3>1 DEF Increasing
  <2>. QED
    BY <2>2, <2>3
<1>3. Range(Append(s, x)) = Range(s) \cup {x}
  <2>1. ASSUME NEW e \in Range(Append(s, x)) PROVE e \in Range(s) \cup {x}
    <3>1. PICK i \in 1..(Len(s) + 1) : e = Append(s, x)[i]
      BY <1>1, <2>1 DEF Range
    <3>2. CASE i = Len(s) + 1
      BY <1>1, <3>1, <3>2
    <3>3. CASE i # Len(s) + 1
      <4>1. i \in 1..Len(s)
        BY <1>1, <3>3
      <4>. QED
        BY <1>1, <3>1, <4>1 DEF Range
    <3>. QED
      BY <3>2, <3>3
  <2>2. ASSUME NEW e \in Range(s) PROVE e \in Range(Append(s, x))
    <3>1. PICK i \in 1..Len(s) : e = s[i]
      BY <1>1, <2>2 DEF Range
    <3>2. i \in 1..(Len(s) + 1) /\ Append(s, x)[i] = e
      BY <1>1, <3>1
    <3>. QED
      BY <1>1, <3>2 DEF Range
  <2>3. x \in Range(Append(s, x))
    BY <1>1 DEF Range
  <2>. QED
    BY <2>1, <2>2, <2>3
<1>. QED
  BY <1>2, <1>3

-----------------------------------------------------------------------------
\* A step that sends c nothing and takes no event keeps what c was told, when
\* it adds nothing to what may still come, and takes nothing from it as long as
\* c stays.
LEMMA ToldKept ==
  ASSUME HubInv, HubInv', NEW c \in Conns, Told(c),
         hub'.event = hub.event, received'[c] = received[c], lost \subseteq lost',
         Ahead(c)' \subseteq Ahead(c),
         Stays(c)' /\ since'[c] < hub.event =>
           Stays(c) /\ since'[c] = since[c] /\ Ahead(c)' = Ahead(c)
  PROVE  Told(c)'
<1> DEFINE h == hub.event
<1>1. h \in Nat /\ since[c] \in Nat /\ since'[c] \in Nat
  BY DEF HubInv, HubFields, TypeOK
<1>2. \A e : Times(c, e)' = Times(c, e)
  BY DEF Times
<1>3. /\ Ahead(c) \in SUBSET Matching(c, h) /\ Ahead(c)' \in SUBSET Ahead(c)
      /\ Matching(c, h) \in SUBSET Matching(c, h)
  BY DEF Ahead
<1>4. /\ Cardinality(Ahead(c)) \in Nat /\ Cardinality(Ahead(c)') \in Nat
      /\ Cardinality(Ahead(c)') <= Cardinality(Ahead(c))
      /\ Cardinality(Matching(c, h)) \in Nat
  BY <1>3, PartOfMatching
<1>5. Times(c, h) \in Nat
  BY TimesType
<1>6. h > 0 =>
        /\ Times(c, h) + Cardinality(Ahead(c)') <= Cardinality(Matching(c, h))
        /\ Stays(c)' /\ since'[c] < h =>
             Times(c, h) + Cardinality(Ahead(c)') = Cardinality(Matching(c, h))
  <2>1. HAVE h > 0
  <2>2. /\ Times(c, h) + Cardinality(Ahead(c)) <= Cardinality(Matching(c, h))
        /\ Stays(c) /\ since[c] < h =>
             Times(c, h) + Cardinality(Ahead(c)) = Cardinality(Matching(c, h))
    BY <2>1 DEF Told
  <2>3. Times(c, h) + Cardinality(Ahead(c)') <= Cardinality(Matching(c, h))
    BY <1>4, <1>5, <2>2
  <2>4. ASSUME Stays(c)', since'[c] < h
        PROVE  Times(c, h) + Cardinality(Ahead(c)') = Cardinality(Matching(c, h))
    BY <2>2, <2>4
  <2>. QED
    BY <2>3, <2>4
<1>7. ASSUME NEW e \in 1..(h - 1)
      PROVE  /\ Times(c, e) <= Cardinality(Matching(c, e))
             /\ Stays(c)' /\ since'[c] < e /\ e \notin lost' =>
                  Times(c, e) = Cardinality(Matching(c, e))
  <2>1. /\ Times(c, e) <= Cardinality(Matching(c, e))
        /\ Stays(c) /\ since[c] < e /\ e \notin lost =>
             Times(c, e) = Cardinality(Matching(c, e))
    BY DEF Told
  <2>2. ASSUME Stays(c)', since'[c] < e, e \notin lost' PROVE Stays(c) /\ since[c] < e /\ e \notin lost
    <3>1. e < h /\ e \in Nat
      BY <1>1
    <3>2. since'[c] < h
      BY <1>1, <2>2, <3>1
    <3>. QED
      BY <1>1, <2>2, <3>2
  <2>. QED
    BY <2>1, <2>2
<1>. QED
  BY <1>2, <1>6, <1>7 DEF Told

LEMMA RangeOfSeq ==
  ASSUME NEW S, NEW s \in Seq(S) PROVE Range(s) \subseteq S
BY DEF Range

\* The order in transit, when a step of the stream or of the hub's goroutine
\* moves an event.
LEMMA TransitTypes ==
  ASSUME HubInv
  PROVE  /\ queue \in Seq(Nat) /\ broadcast \in Seq(Nat)
         /\ published \in Nat /\ hub.event \in Nat /\ hub.event <= published
         /\ \A e \in Range(queue) \cup Range(broadcast) : e \in Nat /\ e <= published
<1>1. published \in Nat
  BY TravellingTypes
<1>2. 1..published \subseteq Nat
  BY <1>1
<1>3. queue \in Seq(1..published) /\ broadcast \in Seq(1..published)
  BY DEF HubInv, Travelling
<1>4. queue \in Seq(Nat) /\ broadcast \in Seq(Nat)
  BY <1>2, <1>3, SeqWiden
<1>5. hub.event \in 0..published
  BY DEF HubInv, TypeOK, HubTypeOK
<1>6. Range(queue) \subseteq 1..published /\ Range(broadcast) \subseteq 1..published
  BY <1>3, RangeOfSeq
<1>. QED
  BY <1>1, <1>4, <1>5, <1>6

LEMMA StreamKeepsOrder ==
  ASSUME OrderInv, PublishStatus \/ StartConsuming \/ ConsumeStatusReturns \/ DispatchStatus
  PROVE  OrderInv'
<1>1. /\ UNCHANGED <<hub, connVars, clientVars, received, up>>
      /\ HubInv /\ HubInv' /\ InTransit /\ Walks /\ Heard
  BY StreamKeeps
  DEF OrderInv, PublishStatus, StartConsuming, ConsumeStatusReturns, DispatchStatus
<1>2. UNCHANGED <<subs, cpc, since, gone>>
  BY <1>1 DEF connVars, clientVars
<1>3. Walks'
  BY <1>1, <1>2 DEF Walks
<1>4. lost \subseteq lost'
  BY DEF PublishStatus, StartConsuming, ConsumeStatusReturns, DispatchStatus
<1>5. \A c \in Conns : Ahead(c)' = Ahead(c) /\ (Stays(c)' <=> Stays(c))
  BY <1>1, <1>2 DEF Ahead, Due, Stays
<1>6. \A c \in Conns : Told(c)'
  <2> SUFFICES ASSUME NEW c \in Conns PROVE Told(c)'
    OBVIOUS
  <2>1. Told(c)
    BY <1>1 DEF Heard
  <2>. QED
    BY <1>1, <1>2, <1>4, <1>5, <2>1, ToldKept
<1>7. Heard'
  BY <1>1, <1>6 DEF Heard
<1>8. InTransit'
  <2>1. /\ queue \in Seq(Nat) /\ broadcast \in Seq(Nat)
        /\ published \in Nat /\ hub.event \in Nat /\ hub.event <= published
        /\ \A e \in Range(queue) \cup Range(broadcast) : e \in Nat /\ e <= published
    BY <1>1, TransitTypes
  <2>2. CASE PublishStatus
    <3>1. published' = published + 1 /\ broadcast' = broadcast /\ hub' = hub
      BY <2>2 DEF PublishStatus
    <3>2. \A e \in Range(queue) \cup Range(broadcast) : e < published'
      BY <2>1, <3>1
    <3>3. \A e \in (hub.event + 1)..published' : e = published' \/ e \in (hub.event + 1)..published
      BY <2>1, <3>1
    <3>4. CASE consumer = "consuming"
      <4>1. queue' = Append(queue, published') /\ lost' = lost
        BY <2>2, <3>4 DEF PublishStatus
      <4>2. Increasing(queue') /\ Range(queue') = Range(queue) \cup {published'}
        BY <1>1, <2>1, <3>1, <3>2, <4>1, IncreasingAppend DEF InTransit
      <4>3. \A f \in Range(queue') : hub.event < f /\ \A e \in Range(broadcast) : e < f
        BY <1>1, <2>1, <3>1, <3>2, <4>2 DEF InTransit
      <4>4. \A e \in (hub.event + 1)..published' :
              e \in lost' \cup Range(queue') \cup Range(broadcast)
        BY <1>1, <3>3, <4>1, <4>2 DEF InTransit
      <4>. QED
        BY <1>1, <3>1, <4>2, <4>3, <4>4 DEF InTransit
    <3>5. CASE consumer # "consuming"
      <4>1. queue' = queue /\ lost' = lost \cup {published'}
        BY <2>2, <3>5 DEF PublishStatus
      <4>2. \A e \in (hub.event + 1)..published' :
              e \in lost' \cup Range(queue) \cup Range(broadcast)
        BY <1>1, <3>3, <4>1 DEF InTransit
      <4>. QED
        BY <1>1, <3>1, <4>1, <4>2 DEF InTransit
    <3>. QED
      BY <3>4, <3>5
  <2>3. CASE StartConsuming
    BY <1>1, <2>3 DEF StartConsuming, InTransit
  <2>4. CASE ConsumeStatusReturns
    <3>1. /\ queue' = <<>> /\ lost' = lost \cup Range(queue)
          /\ broadcast' = broadcast /\ published' = published
      BY <2>4 DEF ConsumeStatusReturns
    <3>2. Range(<<>>) = {} /\ Increasing(<<>>)
      BY DEF Range, Increasing
    <3>3. Increasing(queue') /\ Range(queue') = {}
      BY <3>1, <3>2
    <3>. QED
      BY <1>1, <3>1, <3>3 DEF InTransit
  <2>5. CASE DispatchStatus
    <3>1. /\ queue # <<>> /\ queue' = Tail(queue) /\ published' = published
      BY <2>5 DEF DispatchStatus
    <3>2. /\ Increasing(queue') /\ Range(queue') \subseteq Range(queue)
          /\ Head(queue) \in Range(queue)
          /\ \A e \in Range(queue) : e = Head(queue) \/ e \in Range(queue')
          /\ \A e \in Range(queue') : Head(queue) < e
      BY <1>1, <2>1, <3>1, IncreasingTail DEF InTransit
    <3>3. CASE Len(broadcast) < Cap
      <4>1. broadcast' = Append(broadcast, Head(queue)) /\ lost' = lost
        BY <2>5, <3>3 DEF DispatchStatus
      <4>2. Head(queue) \in Nat /\ \A e \in Range(broadcast) : e < Head(queue)
        BY <1>1, <2>1, <3>2 DEF InTransit
      <4>3. Increasing(broadcast') /\ Range(broadcast') = Range(broadcast) \cup {Head(queue)}
        BY <1>1, <2>1, <4>1, <4>2, IncreasingAppend DEF InTransit
      <4>4. \A f \in Range(queue') : hub.event < f /\ \A e \in Range(broadcast') : e < f
        BY <1>1, <3>2, <4>3 DEF InTransit
      <4>5. \A e \in Range(broadcast') : hub.event < e
        BY <1>1, <3>2, <4>3 DEF InTransit
      <4>6. \A e \in (hub.event + 1)..published :
              e \in lost' \cup Range(queue') \cup Range(broadcast')
        BY <1>1, <3>2, <4>1, <4>3 DEF InTransit
      <4>. QED
        BY <1>1, <3>1, <3>2, <4>3, <4>4, <4>5, <4>6 DEF InTransit
    <3>4. CASE ~(Len(broadcast) < Cap)
      <4>1. broadcast' = broadcast /\ lost' = lost \cup {Head(queue)}
        BY <2>5, <3>4 DEF DispatchStatus
      <4>2. \A e \in (hub.event + 1)..published :
              e \in lost' \cup Range(queue') \cup Range(broadcast)
        BY <1>1, <3>2, <4>1 DEF InTransit
      <4>. QED
        BY <1>1, <3>1, <3>2, <4>1, <4>2 DEF InTransit
    <3>. QED
      BY <3>3, <3>4
  <2>. QED
    BY <2>2, <2>3, <2>4, <2>5
<1>. QED
  BY <1>1, <1>3, <1>7, <1>8 DEF OrderInv

-----------------------------------------------------------------------------
\* What c asked for of an event is for its notification or for its batch.
LEMMA WalkIds ==
  ASSUME HubInv, Walks, hub.pc # "idle"
  PROVE  /\ hub.event \in Nat /\ hub.event > 0 /\ hub.event \in Events
         /\ Stream[hub.event] \in Notifs
         /\ hub.id = Stream[hub.event] \/ (hub.id = BatchOf[Stream[hub.event]] /\ hub.id \notin Notifs)
         /\ BatchOf[Stream[hub.event]] \notin Notifs
         /\ hub.id \in Ids
         /\ \A c \in Conns : \A i \in Matching(c, hub.event) :
              i \in Ids /\ i \in Filter[c]
              /\ (i = Stream[hub.event] \/ i = BatchOf[Stream[hub.event]])
<1>1. hub.event \in 1..published /\ hub.id \in Ids
  BY DEF HubInv, HubKnows
<1>2. hub.event \in Nat /\ hub.event > 0 /\ hub.event \in Events
  BY <1>1, TravellingTypes, StreamTypes DEF Events
<1>3. Stream[hub.event] \in Notifs
  BY <1>2, StreamTypes DEF Events
<1>4. BatchOf[Stream[hub.event]] \in Batches \cup {None} /\ Notifs \cap Batches = {} /\ None \notin Ids
  BY <1>3, HubAssumption
<1>. QED
  BY <1>1, <1>2, <1>3, <1>4, HubAssumption DEF Walks, Matching, Ids

LEMMA HubKeepsOrder ==
  ASSUME OrderInv, HubStep
  PROVE  OrderInv'
<1>1. /\ UNCHANGED <<published, consumer, queue, lost, subs, cpc, since, gone, up>>
      /\ HubInv /\ HubInv' /\ InTransit /\ Walks /\ Heard /\ Membership
  BY HubKeeps
  DEF HubStep, TakeMessage, ReadInnerMap, NextConn, EndOfMap, WriteMessage, streamVars, connVars,
      clientVars, OrderInv, HubInv
<1>2. /\ queue \in Seq(Nat) /\ broadcast \in Seq(Nat)
      /\ published \in Nat /\ hub.event \in Nat /\ hub.event <= published
      /\ \A e \in Range(queue) \cup Range(broadcast) : e \in Nat /\ e <= published
  BY <1>1, TransitTypes
<1>3. hub.left \cup hub.maybe \subseteq IF hub.shared THEN subs[hub.id] ELSE {}
  BY <1>1 DEF HubInv, TypeOK
<1>4. hub \in HubFields /\ hub' \in HubFields
  BY <1>1 DEF HubInv
<1>5. \A c \in Conns : received[c] \in Seq(Events) /\ since[c] \in Nat /\ Told(c)
  BY <1>1 DEF HubInv, TypeOK, Heard
\* The steps that send nothing and take nothing.
<1>6. ASSUME hub'.event = hub.event, received' = received, broadcast' = broadcast, Walks',
             \A c \in Conns :
               /\ Ahead(c)' \subseteq Ahead(c)
               /\ Stays(c) /\ since[c] < hub.event => Ahead(c)' = Ahead(c)
      PROVE  OrderInv'
  <2>1. \A c \in Conns : Told(c)'
    <3> SUFFICES ASSUME NEW c \in Conns PROVE Told(c)'
      OBVIOUS
    <3>1. Stays(c)' = Stays(c) /\ since'[c] = since[c] /\ received'[c] = received[c] /\ lost \subseteq lost'
      BY <1>1, <1>6 DEF Stays
    <3>. QED
      BY <1>1, <1>5, <1>6, <3>1, ToldKept
  <2>2. Heard'
    BY <1>1, <1>6, <2>1 DEF Heard
  <2>3. InTransit'
    BY <1>1, <1>6 DEF InTransit
  <2>. QED
    BY <1>1, <1>6, <2>2, <2>3 DEF OrderInv
<1>7. ASSUME TakeMessage PROVE OrderInv'
  <2> DEFINE e == Head(broadcast)
  <2>1. /\ broadcast # <<>> /\ hub.pc = "idle" /\ broadcast' = Tail(broadcast) /\ received' = received
        /\ hub' = [hub EXCEPT !.pc = "lookup", !.event = Head(broadcast), !.id = Stream[Head(broadcast)]]
    BY <1>7 DEF TakeMessage, HubIdle
  <2>2. /\ hub'.pc = "lookup" /\ hub'.event = e /\ hub'.id = Stream[e]
        /\ hub'.left = hub.left /\ hub'.maybe = hub.maybe
    BY <1>4, <2>1 DEF HubFields
  <2>3. /\ Increasing(Tail(broadcast)) /\ Range(Tail(broadcast)) \subseteq Range(broadcast)
        /\ e \in Range(broadcast)
        /\ \A x \in Range(broadcast) : x = e \/ x \in Range(Tail(broadcast))
        /\ \A x \in Range(Tail(broadcast)) : e < x
    BY <1>1, <1>2, <2>1, IncreasingTail DEF InTransit
  <2>4. e \in Nat /\ hub.event < e /\ e <= published
    BY <1>1, <1>2, <2>3 DEF InTransit
  <2>5. \A x \in (hub.event + 1)..(e - 1) : x \in lost
    <3> SUFFICES ASSUME NEW x \in (hub.event + 1)..(e - 1) PROVE x \in lost
      OBVIOUS
    <3>1. x \in (hub.event + 1)..published /\ x < e /\ x \in Nat
      BY <1>2, <2>4
    <3>2. x \in lost \cup Range(queue) \cup Range(broadcast)
      BY <1>1, <3>1 DEF InTransit
    <3>3. x \notin Range(queue)
      <4>1. SUFFICES ASSUME x \in Range(queue) PROVE FALSE
        OBVIOUS
      <4>2. e < x
        BY <1>1, <2>3, <4>1 DEF InTransit
      <4>. QED
        BY <2>4, <3>1, <4>2
    <3>4. x \notin Range(broadcast)
      <4>1. SUFFICES ASSUME x \in Range(broadcast) PROVE FALSE
        OBVIOUS
      <4>2. x = e \/ e < x
        BY <2>3, <4>1
      <4>. QED
        BY <2>4, <3>1, <4>2
    <3>. QED
      BY <3>2, <3>3, <3>4
  <2>6. InTransit'
    <3>1. \A x \in (e + 1)..published : x \in (hub.event + 1)..published /\ x # e
      BY <1>2, <2>4
    <3>2. \A x \in (e + 1)..published : x \in lost \cup Range(queue) \cup Range(Tail(broadcast))
      BY <1>1, <2>3, <3>1 DEF InTransit
    <3>3. \A f \in Range(queue) : e < f /\ \A x \in Range(Tail(broadcast)) : x < f
      BY <1>1, <2>3 DEF InTransit
    <3>. QED
      BY <1>1, <2>1, <2>2, <2>3, <3>2, <3>3 DEF InTransit
  <2>7. hub.left = {} /\ hub.maybe = {}
    <3>1. ~hub.shared
      BY <1>1, <2>1 DEF HubInv, HubKnows
    <3>. QED
      BY <1>3, <3>1
  <2>8. Walks'
    BY <2>2, <2>7 DEF Walks
  <2>9. ASSUME NEW c \in Conns PROVE Told(c)'
    <3>1. \A i \in DOMAIN received[c] : received[c][i] \in Nat /\ received[c][i] <= hub.event
      <4>1. \A i \in DOMAIN received[c] : received[c][i] \in Events
        BY <1>5
      <4>. QED
        BY <1>1, <4>1, StreamTypes DEF Heard, Events
    <3>2. \A x \in Nat : x > hub.event => Times(c, x) = 0
      <4> SUFFICES ASSUME NEW x \in Nat, x > hub.event PROVE Times(c, x) = 0
        OBVIOUS
      <4>1. \A i \in DOMAIN received[c] : received[c][i] # x
        BY <1>2, <3>1
      <4>. QED
        BY <4>1, NeverGot
    <3>3. \A x : Times(c, x)' = Times(c, x)
      BY <2>1 DEF Times
    <3>4. Ahead(c)' = Matching(c, e)
      <4>1. Stream[e] \in Notifs
        BY <1>1, <1>2, <2>4, TravellingTypes, StreamTypes
      <4>2. Ahead(c)' = {i \in Matching(c, e) :
                           IF i = Stream[e] THEN TRUE ELSE Stream[e] \in Notifs}
        BY <2>2 DEF Ahead
      <4>. QED
        BY <4>1, <4>2
    <3>5. \A x : Cardinality(Matching(c, x)) \in Nat
      BY PartOfMatching
    <3>6. Times(c, e) = 0
      BY <2>4, <3>2
    <3>7. Times(c, e) + Cardinality(Matching(c, e)) = Cardinality(Matching(c, e))
      BY <3>5, <3>6
    <3>8. ASSUME NEW x \in 1..(e - 1)
          PROVE  /\ Times(c, x) <= Cardinality(Matching(c, x))
                 /\ Stays(c) /\ since[c] < x /\ x \notin lost =>
                      Times(c, x) = Cardinality(Matching(c, x))
      <4>1. x \in Nat /\ x < e /\ x > 0
        BY <2>4
      <4>2. CASE x > hub.event
        <5>1. x \in (hub.event + 1)..(e - 1)
          BY <1>2, <2>4, <4>1, <4>2
        <5>2. Times(c, x) = 0 /\ x \in lost
          BY <2>5, <3>2, <4>1, <4>2, <5>1
        <5>. QED
          BY <3>5, <5>2
      <4>3. CASE x = hub.event
        <5>1. Ahead(c) = {}
          BY <2>1 DEF Ahead
        <5>2. Cardinality(Ahead(c)) = 0 /\ Times(c, x) \in Nat
          BY <1>1, <5>1, FS_EmptySet, TimesType
        <5>3. /\ Times(c, x) + 0 <= Cardinality(Matching(c, x))
              /\ Stays(c) /\ since[c] < x => Times(c, x) + 0 = Cardinality(Matching(c, x))
          BY <1>5, <4>1, <4>3, <5>2 DEF Told
        <5>. QED
          BY <3>5, <5>2, <5>3
      <4>4. CASE x < hub.event
        <5>1. x \in 1..(hub.event - 1)
          BY <1>2, <4>1, <4>4
        <5>. QED
          BY <1>5, <5>1 DEF Told
      <4>. QED
        BY <1>2, <4>1, <4>2, <4>3, <4>4
    <3>9. Stays(c)' = Stays(c) /\ since'[c] = since[c] /\ lost' = lost
      BY <1>1 DEF Stays
    <3>10. Cardinality(Ahead(c)') = Cardinality(Matching(c, e))
      BY <3>4
    <3>11. Times(c, e) + Cardinality(Ahead(c)') <= Cardinality(Matching(c, e))
      BY <3>5, <3>7, <3>10
    <3>. QED
      BY <2>2, <3>3, <3>7, <3>8, <3>9, <3>10, <3>11 DEF Told
  <2>10. Heard'
    <3>1. \A c \in Conns : \A i \in DOMAIN received[c] : received[c][i] <= e
      <4>1. \A c \in Conns : \A i \in DOMAIN received[c] :
              received[c][i] \in Events /\ received[c][i] <= hub.event
        BY <1>1, <1>5 DEF Heard
      <4>. QED
        BY <1>2, <2>4, <4>1, StreamTypes DEF Events
    <3>. QED
      BY <1>1, <2>1, <2>2, <2>9, <3>1 DEF Heard
  <2>. QED
    BY <1>1, <2>6, <2>8, <2>10 DEF OrderInv
<1>8. ASSUME ReadInnerMap PROVE OrderInv'
  <2>1. /\ hub.pc = "lookup" /\ received' = received /\ broadcast' = broadcast
        /\ hub' = [hub EXCEPT !.pc = "range", !.left = subs[hub.id], !.maybe = {},
                              !.shared = subs[hub.id] # {}]
    BY <1>8 DEF ReadInnerMap, streamVars
  <2>2. /\ hub'.pc = "range" /\ hub'.event = hub.event /\ hub'.id = hub.id
        /\ hub'.left = subs[hub.id] /\ hub'.maybe = {}
    BY <1>4, <2>1 DEF HubFields
  <2>3. Walks'
    BY <1>1, <2>1, <2>2 DEF Walks
  <2>4. ASSUME NEW c \in Conns
        PROVE  /\ Ahead(c)' \subseteq Ahead(c)
               /\ Stays(c) /\ since[c] < hub.event => Ahead(c)' = Ahead(c)
    <3>1. Ahead(c)' = {i \in Matching(c, hub.event) :
                         IF i = hub.id THEN Due(c)' ELSE hub.id \in Notifs}
      BY <2>2 DEF Ahead
    <3>2. Ahead(c) = {i \in Matching(c, hub.event) :
                         IF i = hub.id THEN TRUE ELSE hub.id \in Notifs}
      BY <2>1 DEF Ahead
    <3>3. ASSUME Stays(c), hub.id \in Matching(c, hub.event) PROVE Due(c)'
      <4>1. Maps(c) = Filter[c]
        BY <1>1, <3>3 DEF Membership, Stays
      <4>2. hub.id \in Filter[c]
        BY <3>3 DEF Matching
      <4>. QED
        BY <2>2, <4>1, <4>2 DEF Maps, Due
    <3>. QED
      BY <3>1, <3>2, <3>3
  <2>. QED
    BY <1>6, <2>1, <2>2, <2>3, <2>4
<1>9. ASSUME NextConn PROVE OrderInv'
  <2>1. PICK c \in hub.left \cup hub.maybe :
          hub' = [hub EXCEPT !.pc = "write", !.conn = c, !.left = @ \ {c}, !.maybe = @ \ {c}]
    BY <1>9 DEF NextConn
  <2>2. hub.pc = "range" /\ received' = received /\ broadcast' = broadcast
    BY <1>9 DEF NextConn, streamVars
  <2>3. /\ hub'.pc = "write" /\ hub'.event = hub.event /\ hub'.id = hub.id /\ hub'.conn = c
        /\ hub'.left = hub.left \ {c} /\ hub'.maybe = hub.maybe \ {c}
    BY <1>4, <2>1 DEF HubFields
  <2>4. c \in Conns /\ c \in subs[hub.id] /\ hub.id \in Ids
    BY <1>1, <1>3, <1>4, <2>1, <2>2 DEF HubFields, HubInv, HubKnows
  <2>5. hub.id \in Filter[c]
    <3>1. hub.id \in Maps(c)
      BY <2>4 DEF Maps
    <3>2. cpc[c] \in {"new", "addNotif", "addBatch", "reading", "closed"}
      BY <1>1, <2>4 DEF HubInv, TypeOK
    <3>3. Maps(c) \subseteq Filter[c]
      BY <1>1, <2>4, <3>2 DEF Membership
    <3>. QED
      BY <3>1, <3>3
  <2>6. Walks'
    BY <1>1, <2>2, <2>3, <2>4, <2>5 DEF Walks
  <2>7. ASSUME NEW d \in Conns PROVE Ahead(d)' = Ahead(d)
    <3>1. Due(d)' <=> Due(d)
      BY <1>1, <2>1, <2>2, <2>3 DEF Due
    <3>. QED
      BY <2>2, <2>3, <3>1 DEF Ahead
  <2>. QED
    BY <1>6, <2>2, <2>3, <2>6, <2>7
<1>10. ASSUME EndOfMap PROVE OrderInv'
  <2>1. hub.pc = "range" /\ hub.left = {} /\ received' = received /\ broadcast' = broadcast
    BY <1>10 DEF EndOfMap, streamVars
  <2>2. /\ hub.event > 0 /\ Stream[hub.event] \in Notifs
        /\ hub.id = Stream[hub.event] \/ (hub.id = BatchOf[Stream[hub.event]] /\ hub.id \notin Notifs)
        /\ BatchOf[Stream[hub.event]] \notin Notifs
        /\ hub.id \in Ids
        /\ \A c \in Conns : \A i \in Matching(c, hub.event) :
              i \in Ids /\ i \in Filter[c]
              /\ (i = Stream[hub.event] \/ i = BatchOf[Stream[hub.event]])
    BY <1>1, <2>1, WalkIds
  \* Of a client that stays, the walk that ends has left nothing to send.
  <2>3. ASSUME NEW c \in Conns, Stays(c), since[c] < hub.event, hub.id \in Filter[c] PROVE ~Due(c)
    <3>1. c \in subs[hub.id]
      BY <1>1, <2>2, <2>3 DEF Membership, Maps, Stays
    <3>2. c \notin hub.maybe
      <4>1. c \in hub.maybe => since[c] = hub.event
        BY <1>1 DEF Walks
      <4>. QED
        BY <1>2, <1>5, <2>3, <4>1
    <3>. QED
      BY <2>1, <3>1, <3>2 DEF Due
  <2>4. CASE hub.id \in Notifs /\ BatchOf[hub.id] # None
    <3>1. hub' = [AtRest EXCEPT !.pc = "lookup", !.event = hub.event, !.id = BatchOf[hub.id]]
      BY <1>10, <2>4 DEF EndOfMap
    <3>2. hub.id = Stream[hub.event]
      BY <2>2, <2>4
    <3>3. BatchOf[hub.id] \in Batches
      BY <2>4, HubAssumption
    <3>4. hub' = [pc |-> "lookup", event |-> hub.event, id |-> BatchOf[hub.id], left |-> {},
                  maybe |-> {}, shared |-> FALSE, conn |-> None]
      BY <3>1 DEF AtRest
    <3>5. hub'.pc = "lookup" /\ hub'.event = hub.event /\ hub'.id = BatchOf[hub.id] /\ hub'.maybe = {}
      BY <3>4, Zenon
    <3>6. Walks'
      BY <3>2, <3>3, <3>5 DEF Walks
    <3>7. ASSUME NEW c \in Conns
          PROVE  /\ Ahead(c)' \subseteq Ahead(c)
                 /\ Stays(c) /\ since[c] < hub.event => Ahead(c)' = Ahead(c)
      <4>1. Ahead(c)' = {i \in Matching(c, hub.event) : i = BatchOf[hub.id]}
        BY <2>2, <3>2, <3>5 DEF Ahead
      <4>2. Ahead(c) = {i \in Matching(c, hub.event) : i = hub.id => Due(c)}
        BY <2>1, <2>4 DEF Ahead
      <4>3. \A i \in Matching(c, hub.event) : i # hub.id <=> i = BatchOf[hub.id]
        BY <2>2, <2>4, <3>2
      <4>4. Stays(c) /\ since[c] < hub.event => (hub.id \in Matching(c, hub.event) => ~Due(c))
        BY <2>2, <2>3
      <4>. QED
        BY <4>1, <4>2, <4>3, <4>4
    <3>. QED
      BY <1>6, <2>1, <3>5, <3>6, <3>7
  <2>5. CASE ~(hub.id \in Notifs /\ BatchOf[hub.id] # None)
    <3>1. hub' = [AtRest EXCEPT !.event = hub.event]
      BY <1>10, <2>5 DEF EndOfMap
    <3>2. hub' = [pc |-> "idle", event |-> hub.event, id |-> None, left |-> {},
                  maybe |-> {}, shared |-> FALSE, conn |-> None]
      BY <3>1 DEF AtRest
    <3>3. hub'.pc = "idle" /\ hub'.event = hub.event /\ hub'.maybe = {}
      BY <3>2, Zenon
    <3>4. Walks'
      BY <3>3 DEF Walks
    <3>5. ASSUME NEW c \in Conns
          PROVE  /\ Ahead(c)' \subseteq Ahead(c)
                 /\ Stays(c) /\ since[c] < hub.event => Ahead(c)' = Ahead(c)
      <4>1. Ahead(c)' = {}
        BY <3>3 DEF Ahead
      <4>2. Ahead(c) \subseteq {i \in Matching(c, hub.event) :
                                  IF i = hub.id THEN Due(c) ELSE hub.id \in Notifs}
        BY <2>1 DEF Ahead
      <4>3. ASSUME NEW i \in Matching(c, hub.event), i # hub.id, hub.id \in Notifs PROVE FALSE
        <5>1. hub.id = Stream[hub.event] /\ BatchOf[hub.id] = None
          BY <2>2, <2>5, <4>3
        <5>2. i \in Ids /\ i = None
          BY <2>2, <4>3, <5>1
        <5>. QED
          BY <5>2, HubAssumption
      <4>4. Stays(c) /\ since[c] < hub.event => (hub.id \in Matching(c, hub.event) => ~Due(c))
        BY <2>2, <2>3
      <4>. QED
        BY <4>1, <4>2, <4>3, <4>4
    <3>. QED
      BY <1>6, <2>1, <3>3, <3>4, <3>5
  <2>. QED
    BY <2>4, <2>5
<1>11. ASSUME WriteMessage PROVE OrderInv'
  <2>0. PICK c, e : c = hub.conn /\ e = hub.event
    OBVIOUS
  <2>1. /\ hub.pc = "write" /\ broadcast' = broadcast
        /\ hub' = [hub EXCEPT !.pc = "range", !.conn = None]
        /\ received' = IF c \in gone THEN received ELSE [received EXCEPT ![c] = Append(@, e)]
    BY <1>11, <2>0 DEF WriteMessage, streamVars
  <2>2. /\ hub'.pc = "range" /\ hub'.event = e /\ hub'.id = hub.id
        /\ hub'.left = hub.left /\ hub'.maybe = hub.maybe
    BY <1>4, <2>0, <2>1 DEF HubFields
  <2>3. c \in Conns /\ hub.id \in Filter[c] /\ c \notin hub.left \cup hub.maybe
        /\ (c \in subs[hub.id] \/ cpc[c] = "closed")
    BY <1>1, <2>0, <2>1 DEF HubInv, HubKnows, Walks
  <2>4. Walks'
    BY <1>1, <2>1, <2>2 DEF Walks
  <2>5. e \in Nat /\ e > 0 /\ e \in Events
        /\ (hub.id = Stream[e] \/ hub.id = BatchOf[Stream[e]])
    BY <1>1, <2>0, <2>1, WalkIds
  <2>6. hub.id \in Matching(c, e)
    BY <2>3, <2>5 DEF Matching
  <2>7. Due(c) /\ ~Due(c)' /\ \A d \in Conns \ {c} : Due(d)' <=> Due(d)
    BY <1>1, <2>0, <2>1, <2>2, <2>3 DEF Due
  <2>8. Ahead(c)' = Ahead(c) \ {hub.id} /\ hub.id \in Ahead(c)
        /\ \A d \in Conns \ {c} : Ahead(d)' = Ahead(d)
    BY <2>0, <2>1, <2>2, <2>6, <2>7 DEF Ahead
  <2>9. ASSUME NEW d \in Conns, received'[d] = received[d], d # c \/ d \in gone
        PROVE  Told(d)'
    <3>1. /\ Stays(d)' => Stays(d) /\ d # c
          /\ since'[d] = since[d] /\ lost \subseteq lost' /\ Ahead(d)' \subseteq Ahead(d)
      BY <1>1, <2>8, <2>9 DEF Stays
    <3>2. Stays(d)' => Ahead(d)' = Ahead(d)
      BY <2>8, <3>1
    <3>. QED
      BY <1>1, <1>5, <2>0, <2>2, <2>9, <3>1, <3>2, ToldKept
  <2>10. CASE c \in gone
    <3>1. received' = received
      BY <2>1, <2>10
    <3>2. \A d \in Conns : Told(d)'
      BY <2>9, <2>10, <3>1
    <3>. QED
      BY <1>1, <2>0, <2>1, <2>2, <2>4, <3>1, <3>2 DEF OrderInv, Heard, InTransit
  <2>11. CASE c \notin gone
    <3>1. received' = [received EXCEPT ![c] = Append(@, e)]
      BY <2>1, <2>11
    <3>2. received'[c] = Append(received[c], e) /\ \A d \in Conns \ {c} : received'[d] = received[d]
      BY <1>1, <2>3, <3>1 DEF HubInv, TypeOK
    <3>3. \A x : Times(c, x)' = IF x = e THEN Times(c, x) + 1 ELSE Times(c, x)
      <4> SUFFICES ASSUME NEW x PROVE Times(c, x)' = IF x = e THEN Times(c, x) + 1 ELSE Times(c, x)
        OBVIOUS
      <4>1. Times(c, x) = Cardinality(Positions(received[c], x))
            /\ Times(c, x)' = Cardinality(Positions(Append(received[c], e), x))
        BY <3>2 DEF Times, Positions
      <4>. QED
        BY <1>5, <2>3, <2>5, <4>1, PositionsAppend
    <3>4. Told(c)'
      <4>1. Ahead(c) \in SUBSET Matching(c, e) /\ Matching(c, e) \in SUBSET Matching(c, e)
        BY <2>0 DEF Ahead
      <4>2. IsFiniteSet(Ahead(c)) /\ Cardinality(Ahead(c)) \in Nat /\ Cardinality(Matching(c, e)) \in Nat
        BY <4>1, PartOfMatching
      <4>3. Cardinality(Ahead(c)') = Cardinality(Ahead(c)) - 1
        BY <2>8, <4>2, FS_RemoveElement
      <4>4. Times(c, e) \in Nat /\ Times(c, e)' = Times(c, e) + 1
        BY <1>1, <2>3, <3>3, TimesType
      <4>5. /\ Times(c, e) + Cardinality(Ahead(c)) <= Cardinality(Matching(c, e))
            /\ Stays(c) /\ since[c] < e =>
                 Times(c, e) + Cardinality(Ahead(c)) = Cardinality(Matching(c, e))
        BY <1>5, <2>0, <2>3, <2>5 DEF Told
      <4>6. Times(c, e)' + Cardinality(Ahead(c)') = Times(c, e) + Cardinality(Ahead(c))
        BY <4>2, <4>3, <4>4
      <4>7. \A x \in 1..(e - 1) : Times(c, x)' = Times(c, x)
        BY <2>5, <3>3
      <4>8. Stays(c)' = Stays(c) /\ since'[c] = since[c] /\ lost' = lost
        BY <1>1 DEF Stays
      <4>9. \A x \in 1..(e - 1) :
              /\ Times(c, x) <= Cardinality(Matching(c, x))
              /\ Stays(c) /\ since[c] < x /\ x \notin lost =>
                   Times(c, x) = Cardinality(Matching(c, x))
        BY <1>5, <2>0, <2>3 DEF Told
      <4>. QED
        BY <2>2, <4>5, <4>6, <4>7, <4>8, <4>9 DEF Told
    <3>5. \A d \in Conns : Told(d)'
      BY <2>9, <3>2, <3>4
    <3>6. ASSUME NEW d \in Conns
          PROVE  InOrder(received'[d]) /\ \A i \in DOMAIN received'[d] : received'[d][i] <= e
      <4>1. InOrder(received[d]) /\ \A i \in DOMAIN received[d] : received[d][i] <= e
        BY <1>1, <2>0 DEF Heard
      <4>2. CASE d = c
        <5>1. /\ DOMAIN received[c] = 1..Len(received[c]) /\ Len(received[c]) \in Nat
              /\ DOMAIN received'[c] = 1..(Len(received[c]) + 1)
              /\ \A i \in 1..Len(received[c]) : received'[c][i] = received[c][i]
              /\ received'[c][Len(received[c]) + 1] = e
          BY <1>5, <2>3, <2>5, <3>2
        <5>2. \A i \in DOMAIN received'[c] : received'[c][i] <= e
          BY <2>5, <4>1, <4>2, <5>1
        <5>3. InOrder(received'[c])
          <6> SUFFICES ASSUME NEW i \in 1..(Len(received[c]) + 1),
                              NEW j \in 1..(Len(received[c]) + 1), i < j
                       PROVE  received'[c][i] <= received'[c][j]
            BY <5>1 DEF InOrder
          <6>1. i \in 1..Len(received[c])
            BY <5>1
          <6>2. CASE j = Len(received[c]) + 1
            BY <4>1, <4>2, <5>1, <6>1, <6>2
          <6>3. CASE j # Len(received[c]) + 1
            <7>1. j \in 1..Len(received[c])
              BY <5>1, <6>3
            <7>. QED
              BY <4>1, <4>2, <5>1, <6>1, <7>1 DEF InOrder
          <6>. QED
            BY <6>2, <6>3
        <5>. QED
          BY <4>2, <5>2, <5>3
      <4>3. CASE d # c
        BY <3>2, <4>1, <4>3
      <4>. QED
        BY <4>2, <4>3
    <3>7. Heard'
      BY <2>2, <3>5, <3>6 DEF Heard
    <3>. QED
      BY <1>1, <2>0, <2>1, <2>2, <2>4, <3>7 DEF OrderInv, InTransit
  <2>. QED
    BY <2>10, <2>11
<1>. QED
  BY <1>7, <1>8, <1>9, <1>10, <1>11 DEF HubStep

-----------------------------------------------------------------------------
\* The handlers of the connections and the clients send nothing and take no
\* event; a connection joins a walk in progress at most once.
LEMMA ConnKeepsOrder ==
  ASSUME OrderInv, NEW c \in Conns, ConnStep(c) \/ ConcurrentMapAccess(c) \/ ClientStep(c)
  PROVE  OrderInv'
<1>1. /\ UNCHANGED <<published, consumer, queue, broadcast, lost, received>>
      /\ HubInv /\ HubInv' /\ InTransit /\ Walks /\ Heard /\ Membership
  BY ConnKeeps
  DEF ConnStep, HandleWS, AddNotif, AddBatch, Add, RemoveConn, ConcurrentMapAccess, ClientStep,
      ClientLeaves, ClientStalls, ClientResumes, streamVars, OrderInv, HubInv
<1>2. /\ hub \in HubFields /\ hub' \in HubFields
      /\ subs \in [Ids -> SUBSET Conns] /\ since \in [Conns -> Nat]
      /\ cpc \in [Conns -> {"new", "addNotif", "addBatch", "reading", "closed"}]
      /\ hub.left \cup hub.maybe \subseteq IF hub.shared THEN subs[hub.id] ELSE {}
      /\ hub.pc # "idle" => hub.id \in Ids
      /\ hub.event \in Nat
  BY <1>1 DEF HubInv, TypeOK, HubKnows, HubFields
<1>3. ASSUME hub'.event = hub.event, Walks',
             \A d \in Conns :
               /\ Ahead(d)' \subseteq Ahead(d)
               /\ Stays(d)' /\ since'[d] < hub.event =>
                    Stays(d) /\ since'[d] = since[d] /\ Ahead(d)' = Ahead(d)
      PROVE  OrderInv'
  <2>1. \A d \in Conns : Told(d)'
    <3> SUFFICES ASSUME NEW d \in Conns PROVE Told(d)'
      OBVIOUS
    <3>1. received'[d] = received[d] /\ lost \subseteq lost' /\ Told(d)
      BY <1>1 DEF Heard
    <3>. QED
      BY <1>1, <1>3, <3>1, ToldKept
  <2>2. Heard' /\ InTransit'
    BY <1>1, <1>3, <2>1 DEF Heard, InTransit
  <2>. QED
    BY <1>1, <1>3, <2>2 DEF OrderInv
<1>4. CASE HandleWS(c)
  <2>1. /\ UNCHANGED <<hub, subs, since, gone>> /\ cpc[c] = "new"
        /\ cpc'[c] \in {"addBatch", "addNotif"} /\ \A d \in Conns \ {c} : cpc'[d] = cpc[d]
    BY <1>2, <1>4 DEF HandleWS, clientVars
  <2>2. Walks'
    <3>1. hub.pc = "write" => hub.conn \in Conns
      BY <1>1 DEF HubInv, HubKnows
    <3>2. hub.pc = "write" /\ cpc[hub.conn] = "closed" => cpc'[hub.conn] = "closed"
      BY <2>1, <3>1
    <3>. QED
      BY <1>1, <2>1, <3>2 DEF Walks
  <2>3. \A d \in Conns : (Due(d)' <=> Due(d)) /\ (Stays(d)' => Stays(d) /\ d # c)
    BY <2>1 DEF Due, Stays
  <2>4. \A d \in Conns : Ahead(d)' = Ahead(d)
    BY <2>1, <2>3 DEF Ahead
  <2>. QED
    BY <1>3, <2>1, <2>2, <2>3, <2>4
<1>5. ASSUME NEW i \in Ids, Add(c, i), i \in Filter[c],
             \/ cpc[c] = "addNotif" /\ i \in Notifs
             \/ cpc[c] = "addBatch" /\ i \in Batches
      PROVE  OrderInv'
  <2>1. /\ subs' = [subs EXCEPT ![i] = @ \cup {c}]
        /\ hub' = IF hub.pc \in {"range", "write"} /\ hub.id = i /\ hub.shared
                    THEN [hub EXCEPT !.maybe = @ \cup {c}] ELSE hub
        /\ cpc' = [cpc EXCEPT ![c] = AfterAdd(c, Notifs \cup {i})]
        /\ since' = [since EXCEPT ![c] = hub.event]
        /\ gone' = gone
    BY <1>5 DEF Add, clientVars
  <2>2. /\ hub'.event = hub.event /\ hub'.pc = hub.pc /\ hub'.id = hub.id
        /\ hub'.left = hub.left /\ hub'.conn = hub.conn
        /\ hub'.maybe = hub.maybe \/ (hub.id = i /\ hub'.maybe = hub.maybe \cup {c})
    BY <1>2, <2>1 DEF HubFields
  <2>3. /\ subs'[i] = subs[i] \cup {c} /\ \A j \in Ids \ {i} : subs'[j] = subs[j]
        /\ since'[c] = hub.event /\ cpc'[c] \in {"reading", "addBatch"}
        /\ \A d \in Conns \ {c} : since'[d] = since[d] /\ cpc'[d] = cpc[d]
    BY <1>2, <2>1 DEF AfterAdd
  \* It was not in the map before.
  <2>4. c \notin subs[i] /\ cpc[c] # "closed"
    <3>1. i \notin Maps(c)
      <4>1. CASE cpc[c] = "addNotif"
        BY <1>1, <4>1 DEF Membership
      <4>2. CASE cpc[c] = "addBatch" /\ i \in Batches
        <5>1. Maps(c) = Filter[c] \cap Notifs
          BY <1>1, <4>2 DEF Membership
        <5>. QED
          BY <4>2, <5>1, HubAssumption
      <4>. QED
        BY <1>5, <4>1, <4>2
    <3>. QED
      BY <1>5, <3>1 DEF Maps
  <2>5. Walks'
    <3>1. hub.pc = "write" => /\ hub.conn \in Conns /\ hub.id \in Ids
                              /\ hub.conn \in subs[hub.id] \/ cpc[hub.conn] = "closed"
                              /\ hub.conn \notin hub.left \cup hub.maybe /\ hub.id \in Filter[hub.conn]
      BY <1>1, <1>2 DEF HubInv, HubKnows, Walks
    <3>2. hub.pc = "write" => hub.conn \in subs'[hub.id] \/ cpc'[hub.conn] = "closed"
      BY <2>3, <2>4, <3>1
    <3>3. hub.pc = "write" => hub.conn \notin hub'.left \cup hub'.maybe
      BY <2>2, <2>4, <3>1
    <3>4. \A d \in hub'.maybe : since'[d] = hub.event
      <4>1. hub.maybe \subseteq Conns /\ \A d \in hub.maybe : since[d] = hub.event
        BY <1>1, <1>2 DEF Walks, HubFields
      <4>. QED
        BY <2>2, <2>3, <4>1
    <3>. QED
      BY <1>1, <2>2, <3>1, <3>2, <3>3, <3>4 DEF Walks
  <2>6. \A d \in Conns \ {c} : Ahead(d)' = Ahead(d) /\ (Stays(d)' <=> Stays(d))
    <3> SUFFICES ASSUME NEW d \in Conns \ {c} PROVE Ahead(d)' = Ahead(d) /\ (Stays(d)' <=> Stays(d))
      OBVIOUS
    <3>1. hub.pc # "idle" => (Due(d)' <=> Due(d))
      BY <1>2, <2>2, <2>3 DEF Due
    <3>. QED
      BY <2>1, <2>2, <2>3, <3>1 DEF Ahead, Stays
  <2>7. Ahead(c)' \subseteq Ahead(c)
    <3>1. hub.pc # "idle" /\ Due(c)' => Due(c)
      BY <1>2, <2>2, <2>3, <2>4 DEF Due
    <3>. QED
      BY <2>2, <3>1 DEF Ahead
  <2>8. ~(since'[c] < hub.event)
    BY <1>2, <2>3
  <2>. QED
    BY <1>3, <2>2, <2>3, <2>5, <2>6, <2>7, <2>8
<1>6. CASE RemoveConn(c)
  <2>1. /\ UNCHANGED <<since, gone>> /\ cpc[c] = "reading"
        /\ subs' = Without(c)
        /\ hub' = IF hub.pc \in {"range", "write"} /\ hub.shared
                    THEN [hub EXCEPT !.left = @ \ {c}, !.maybe = @ \ {c},
                                     !.shared = subs'[hub.id] # {}]
                    ELSE hub
        /\ cpc' = [cpc EXCEPT ![c] = "closed"]
    BY <1>6 DEF RemoveConn, clientVars
  <2>2. /\ hub'.event = hub.event /\ hub'.pc = hub.pc /\ hub'.id = hub.id /\ hub'.conn = hub.conn
        /\ hub'.left \subseteq hub.left /\ hub.left \subseteq hub'.left \cup {c}
        /\ hub'.maybe \subseteq hub.maybe /\ hub.maybe \subseteq hub'.maybe \cup {c}
    BY <1>2, <2>1 DEF HubFields
  <2>3. /\ \A j \in Ids : subs'[j] = subs[j] \ {c}
        /\ cpc'[c] = "closed" /\ \A d \in Conns \ {c} : cpc'[d] = cpc[d]
    BY <1>2, <2>1 DEF Without
  <2>4. Walks'
    <3>1. hub.pc = "write" => /\ hub.conn \in Conns /\ hub.id \in Ids
                              /\ hub.conn \in subs[hub.id] \/ cpc[hub.conn] = "closed"
      BY <1>1, <1>2 DEF HubInv, HubKnows, Walks
    <3>2. hub.pc = "write" => hub.conn \in subs'[hub.id] \/ cpc'[hub.conn] = "closed"
      BY <2>3, <3>1
    <3>. QED
      BY <1>1, <2>1, <2>2, <3>2 DEF Walks
  <2>5. \A d \in Conns \ {c} : Ahead(d)' = Ahead(d) /\ (Stays(d)' <=> Stays(d))
    <3> SUFFICES ASSUME NEW d \in Conns \ {c} PROVE Ahead(d)' = Ahead(d) /\ (Stays(d)' <=> Stays(d))
      OBVIOUS
    <3>1. hub.pc # "idle" => (Due(d)' <=> Due(d))
      BY <1>2, <2>2, <2>3 DEF Due
    <3>. QED
      BY <2>1, <2>2, <2>3, <3>1 DEF Ahead, Stays
  <2>6. Ahead(c)' \subseteq Ahead(c) /\ ~Stays(c)'
    <3>1. Due(c)' => Due(c)
      BY <2>2, <2>3 DEF Due
    <3>. QED
      BY <2>2, <2>3, <3>1 DEF Ahead, Stays
  <2>. QED
    BY <1>3, <2>1, <2>2, <2>4, <2>5, <2>6
<1>7. CASE ConcurrentMapAccess(c) \/ ClientStep(c)
  <2>1. UNCHANGED <<hub, subs, cpc, since>> /\ gone \subseteq gone'
    BY <1>7 DEF ConcurrentMapAccess, ClientStep, ClientLeaves, ClientStalls, ClientResumes, connVars,
                clientVars
  <2>2. Walks' /\ \A d \in Conns : Ahead(d)' = Ahead(d) /\ (Stays(d)' => Stays(d))
    BY <1>1, <2>1 DEF Walks, Ahead, Due, Stays
  <2>. QED
    BY <1>3, <2>1, <2>2
<1>. QED
  BY <1>4, <1>5, <1>6, <1>7 DEF ConnStep, AddNotif, AddBatch, Ids

LEMMA InitOrder == Init => OrderInv
<1> SUFFICES ASSUME Init PROVE OrderInv
  OBVIOUS
<1>1. HubInv
  BY InitHubInv
<1>2. /\ queue = <<>> /\ broadcast = <<>> /\ published = 0 /\ hub.event = 0 /\ hub.pc = "idle"
      /\ hub.maybe = {} /\ received = [c \in Conns |-> <<>>]
  BY DEF Init, InitHub, AtRest
<1>3. Increasing(<<>>) /\ InOrder(<<>>) /\ Range(<<>>) = {} /\ DOMAIN <<>> = {}
  BY DEF Increasing, InOrder, Range
<1>4. InTransit /\ Walks
  BY <1>2, <1>3 DEF InTransit, Walks
<1>5. Heard
  BY <1>2, <1>3 DEF Heard, Told
<1>. QED
  BY <1>1, <1>4, <1>5 DEF OrderInv

LEMMA OrderInvariant == Spec => []OrderInv
<1>1. OrderInv /\ [Next]_vars => OrderInv'
  <2> SUFFICES ASSUME OrderInv, [Next]_vars PROVE OrderInv'
    OBVIOUS
  <2>1. CASE UNCHANGED vars
    <3>1. UNCHANGED <<published, queue, broadcast, lost, hub, subs, cpc, since, gone, received>>
      BY <2>1 DEF vars, streamVars, connVars, clientVars
    <3>2. HubInv /\ HubInv'
      BY <2>1 DEF vars, streamVars, connVars, clientVars, OrderInv, HubInv, TypeOK, HubTypeOK,
                  Travelling, HubKnows, Membership, Maps
    <3>3. InTransit' /\ Walks'
      BY <3>1 DEF OrderInv, InTransit, Walks
    <3>4. \A c \in Conns : Ahead(c)' = Ahead(c) /\ (Stays(c)' <=> Stays(c))
      BY <3>1 DEF Ahead, Due, Stays
    <3>5. \A c \in Conns : Told(c)'
      BY <3>1, <3>2, <3>4, ToldKept DEF OrderInv, Heard
    <3>. QED
      BY <3>1, <3>2, <3>3, <3>5 DEF OrderInv, Heard
  <2>. QED
    BY <2>1, StreamKeepsOrder, HubKeepsOrder, ConnKeepsOrder DEF Next
<1>. QED
  BY <1>1, InitOrder, PTL DEF Spec

-----------------------------------------------------------------------------
\* An event the hub has not taken was sent to nobody; of each it has, a client
\* was sent no more copies than ids it asked for.
LEMMA Counted ==
  ASSUME OrderInv, NEW c \in Conns, NEW e \in 1..hub.event
  PROVE  /\ Times(c, e) <= Cardinality(Matching(c, e))
         /\ Stays(c) /\ since[c] < e /\ e \notin lost /\ Written(e) =>
              Times(c, e) = Cardinality(Matching(c, e))
<1>1. HubInv /\ Told(c) /\ hub.event \in Nat
  BY DEF OrderInv, Heard, HubInv, HubFields
<1>2. Times(c, e) \in Nat /\ Cardinality(Matching(c, e)) \in Nat
  BY <1>1, TimesType, PartOfMatching
<1>3. CASE e < hub.event
  <2>1. e \in 1..(hub.event - 1)
    BY <1>1, <1>3
  <2>. QED
    BY <1>1, <2>1 DEF Told
<1>4. CASE e = hub.event
  <2>1. Ahead(c) \in SUBSET Matching(c, e)
    BY <1>4 DEF Ahead
  <2>2. Cardinality(Ahead(c)) \in Nat
    BY <2>1, PartOfMatching
  <2>3. /\ Times(c, e) + Cardinality(Ahead(c)) <= Cardinality(Matching(c, e))
        /\ Stays(c) /\ since[c] < e =>
             Times(c, e) + Cardinality(Ahead(c)) = Cardinality(Matching(c, e))
    BY <1>1, <1>4 DEF Told
  <2>4. Written(e) => Cardinality(Ahead(c)) = 0
    <3>1. HubIdle => Ahead(c) = {}
      BY DEF HubIdle, Ahead
    <3>2. Written(e) => HubIdle
      BY <1>1, <1>4 DEF Written
    <3>. QED
      BY <3>1, <3>2, FS_EmptySet
  <2>5. Times(c, e) <= Cardinality(Matching(c, e))
    BY <1>2, <2>2, <2>3
  <2>6. ASSUME Stays(c), since[c] < e, Written(e) PROVE Times(c, e) = Cardinality(Matching(c, e))
    BY <1>2, <2>2, <2>3, <2>4, <2>6
  <2>. QED
    BY <2>5, <2>6
<1>. QED
  BY <1>1, <1>3, <1>4

\* Every client gets the events it asked for in the order the workers published
\* them, and no more copies than ids it asked for, for any number of
\* connections that join and leave during any walk of run().
THEOREM HeardInOrderHolds == Spec => []HeardInOrder
<1>1. OrderInv => HeardInOrder
  <2> SUFFICES ASSUME OrderInv, NEW c \in Conns
               PROVE  /\ InOrder(received[c])
                      /\ \A e \in Range(received[c]) : Times(c, e) <= Cardinality(Matching(c, e))
    BY DEF HeardInOrder, InOrder
  <2>1. InOrder(received[c]) /\ received[c] \in Seq(Events)
        /\ \A i \in DOMAIN received[c] : received[c][i] <= hub.event
    BY DEF OrderInv, Heard, HubInv, TypeOK
  <2>2. hub.event \in Nat
    BY DEF OrderInv, HubInv, HubFields
  <2>3. ASSUME NEW e \in Range(received[c]) PROVE e \in 1..hub.event
    <3>1. PICK i \in DOMAIN received[c] : e = received[c][i]
      BY <2>3 DEF Range
    <3>2. e \in Events
      BY <2>1, <2>3, RangeOfSeq
    <3>3. e \in Nat /\ e > 0
      BY <3>2, StreamTypes DEF Events
    <3>. QED
      BY <2>1, <2>2, <3>1, <3>3
  <2>. QED
    BY <2>1, <2>3, Counted
<1>. QED
  BY <1>1, OrderInvariant, PTL

\* A client that stays connected gets every event that entered the hub's channel
\* after its handler registered it and that the hub is done with, once for each
\* id it asked for: removing other connections never unsubscribes it.
THEOREM StayingClientHearsHolds == Spec => []StayingClientHears
<1>1. OrderInv => StayingClientHears
  <2> SUFFICES ASSUME OrderInv, NEW c \in Conns, Stays(c),
                      NEW e \in (since[c] + 1)..hub.event, Written(e), e \notin lost
               PROVE  Times(c, e) = Cardinality(Matching(c, e))
    BY DEF StayingClientHears, Stays
  <2>1. since[c] \in Nat /\ hub.event \in Nat
    BY DEF OrderInv, HubInv, TypeOK, HubFields
  <2>2. e \in 1..hub.event /\ since[c] < e
    BY <2>1
  <2>. QED
    BY <2>2, Counted
<1>. QED
  BY <1>1, OrderInvariant, PTL
=============================================================================
