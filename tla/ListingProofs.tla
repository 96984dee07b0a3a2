--------------------------- MODULE ListingProofs ----------------------------
(***************************************************************************)
(* What TLAPS proves of the listing of Intake, for every set of requests,  *)
(* every order of the ids, every query and every cap on the page: a client *)
(* that follows next_cursor sees no row twice and misses none, while rows  *)
(* are committed and leave the filter.                                     *)
(***************************************************************************)
EXTENDS IntakeProofs, FiniteSetTheorems

\* The pages put together are rows of the table in the order of a listing.
SeenInOrder ==
  /\ pager.seen \in Seq(rows)
  /\ \A i, j \in DOMAIN pager.seen : i < j => Before(pager.seen[i], pager.seen[j])

\* The cursor separates what was seen from what is still to come.
CursorSeparates ==
  pager.state = "more" =>
    /\ \A i \in DOMAIN pager.seen : ~After(pager.seen[i], pager.cursor)
    /\ \A row \in pager.first :
         Matches(row, pager.query) => row \in Range(pager.seen) \/ After(row, pager.cursor)

\* At the end nothing is left, unless the limit was above the cap.
EndReached ==
  pager.state = "end" /\ pager.query.limit <= MaxPage =>
    \A row \in pager.first : Matches(row, pager.query) => row \in Range(pager.seen)

CursorTypeOK ==
  /\ pager.state = "idle" => pager.seen = <<>>
  /\ pager.state # "idle" => pager.query \in Queries
  /\ pager.cursor \in [at : Nat, id : Nat]
  /\ pager.first \subseteq rows

ListingInv ==
  IntakeInv /\ IsFiniteSet(rows) /\ CursorTypeOK /\ SeenInOrder /\ CursorSeparates /\ EndReached

-----------------------------------------------------------------------------
(* The order of a listing *)

\* The order is total: a creation time, then an id that no other row has.
LEMMA OrderIsTotal ==
  ASSUME TypeOK, NEW p \in rows, NEW q \in rows, NEW z \in rows
  PROVE  /\ CreatedAt(p) \in Nat /\ IdOrder[p] \in Nat
         /\ ~Before(p, p)
         /\ p # q => Before(p, q) \/ Before(q, p)
         /\ Before(p, q) => ~Before(q, p)
         /\ Before(p, q) /\ Before(q, z) => Before(p, z)
<1>1. rows \subseteq Requests \X (1..MaxItems) /\ clock \in Nat /\ began \in [Requests -> 0..clock]
  BY DEF TypeOK, RowIds
<1>2. \A row \in rows : row[1] \in Requests /\ IdOrder[row] \in Nat
  BY <1>1, ListingAssumption
<1>3. \A row \in rows : CreatedAt(row) \in Nat
  BY <1>1, <1>2 DEF CreatedAt
<1>4. IdOrder[p] = IdOrder[q] => p = q
  BY <1>1, ListingAssumption
<1>. QED
  BY <1>2, <1>3, <1>4 DEF Before

\* How many rows of S a listing shows before a row.
Rank(S, row) == Cardinality({p \in S : Before(p, row)})

\* The ranks of n rows are the numbers from 0 to n - 1, each once.
LEMMA RankGrows ==
  ASSUME TypeOK, NEW S \in SUBSET rows, IsFiniteSet(S), NEW p \in S
  PROVE  /\ Rank(S, p) \in Nat /\ Rank(S, p) < Cardinality(S)
         /\ \A q \in S : Before(p, q) => Rank(S, p) < Rank(S, q)
<1>1. ASSUME NEW q \in S
      PROVE  /\ IsFiniteSet({x \in S : Before(x, q)})
             /\ Rank(S, q) \in Nat
  <2>1. {x \in S : Before(x, q)} \in SUBSET S
    OBVIOUS
  <2>. QED
    BY <2>1, FS_Subset, FS_CardinalityType DEF Rank
<1>2. Rank(S, p) < Cardinality(S)
  <2>1. {x \in S : Before(x, p)} \in SUBSET S /\ {x \in S : Before(x, p)} # S
    BY OrderIsTotal
  <2>2. Rank(S, p) <= Cardinality(S) /\ Rank(S, p) # Cardinality(S)
    BY <2>1, FS_Subset DEF Rank
  <2>3. Rank(S, p) \in Nat /\ Cardinality(S) \in Nat
    BY <1>1, FS_CardinalityType
  <2>. QED
    BY <2>2, <2>3
<1>3. ASSUME NEW q \in S, Before(p, q) PROVE Rank(S, p) < Rank(S, q)
  <2> DEFINE P == {x \in S : Before(x, p)}
             Q == {x \in S : Before(x, q)}
  <2>1. P \in SUBSET Q
    BY <1>3, OrderIsTotal
  <2>2. p \in Q /\ p \notin P
    BY <1>3, OrderIsTotal
  <2>3. Cardinality(P) <= Cardinality(Q) /\ Cardinality(P) # Cardinality(Q)
    BY <1>1, <2>1, <2>2, FS_Subset
  <2>. QED
    BY <1>1, <2>3 DEF Rank
<1>. QED
  BY <1>1, <1>2, <1>3

LEMMA RankIsOnto ==
  ASSUME TypeOK, NEW S \in SUBSET rows, IsFiniteSet(S)
  PROVE  /\ Cardinality(S) \in Nat
         /\ \A p, q \in S : Rank(S, p) = Rank(S, q) => p = q
         /\ \A i \in 1..Cardinality(S) : \E row \in S : Rank(S, row) = i - 1
<1> DEFINE n == Cardinality(S)
           f == [row \in S |-> Rank(S, row) + 1]
<1>1. n \in Nat /\ IsFiniteSet(1..n) /\ Cardinality(1..n) = n
  BY FS_CardinalityType, FS_Interval
<1>2. \A row \in S : Rank(S, row) \in Nat /\ Rank(S, row) < n
  BY RankGrows
<1>3. ASSUME NEW p \in S, NEW q \in S, p # q PROVE Rank(S, p) # Rank(S, q)
  <2>1. Before(p, q) \/ Before(q, p)
    BY <1>3, OrderIsTotal
  <2>2. Rank(S, p) < Rank(S, q) \/ Rank(S, q) < Rank(S, p)
    BY <2>1, RankGrows
  <2>. QED
    BY <1>2, <2>2
<1>4. f \in [S -> 1..n]
  BY <1>1, <1>2
<1>5. \A p, q \in S : f[p] = f[q] => p = q
  BY <1>2, <1>3
<1>6. f \in Injection(S, 1..n)
  BY <1>4, <1>5 DEF Injection, IsInjective
<1>7. f \in Surjection(S, 1..n)
  BY <1>1, <1>6, FS_Injection
<1>8. \A i \in 1..n : \E row \in S : f[row] = i
  BY <1>7, Zenon DEF Surjection
<1>9. \A i \in 1..n : \E row \in S : Rank(S, row) = i - 1
  BY <1>1, <1>2, <1>8
<1>. QED
  BY <1>1, <1>3, <1>9

\* InListOrder holds each row of a finite set once, in order.
LEMMA ListOrder ==
  ASSUME TypeOK, NEW S \in SUBSET rows, IsFiniteSet(S)
  PROVE  /\ InListOrder(S) \in Seq(S) /\ Len(InListOrder(S)) = Cardinality(S)
         /\ \A i \in 1..Cardinality(S) : InListOrder(S)[i] \in S /\ Rank(S, InListOrder(S)[i]) = i - 1
         /\ \A row \in S : Rank(S, row) \in 0..(Cardinality(S) - 1)
                           /\ row = InListOrder(S)[Rank(S, row) + 1]
<1> DEFINE n == Cardinality(S)
<1>1. n \in Nat /\ \A i \in 1..n : \E row \in S : Rank(S, row) = i - 1
  BY RankIsOnto
<1>2. InListOrder(S) = [i \in 1..n |-> CHOOSE row \in S : Rank(S, row) = i - 1]
  BY DEF InListOrder, Rank
<1>3. \A i \in 1..n : InListOrder(S)[i] \in S /\ Rank(S, InListOrder(S)[i]) = i - 1
  <2> SUFFICES ASSUME NEW i \in 1..n PROVE InListOrder(S)[i] \in S /\ Rank(S, InListOrder(S)[i]) = i - 1
    OBVIOUS
  <2>1. InListOrder(S)[i] = CHOOSE row \in S : Rank(S, row) = i - 1
    BY <1>2
  <2>2. \E row \in S : Rank(S, row) = i - 1
    BY <1>1
  <2>. QED
    BY <2>1, <2>2
<1>4. InListOrder(S) \in Seq(S) /\ Len(InListOrder(S)) = n
  BY <1>1, <1>2, <1>3
<1>5. ASSUME NEW row \in S
      PROVE  Rank(S, row) \in 0..(n - 1) /\ row = InListOrder(S)[Rank(S, row) + 1]
  <2>1. Rank(S, row) \in Nat /\ Rank(S, row) < n
    BY RankGrows
  <2>2. Rank(S, row) + 1 \in 1..n
    BY <1>1, <2>1
  <2>3. Rank(S, InListOrder(S)[Rank(S, row) + 1]) = Rank(S, row)
        /\ InListOrder(S)[Rank(S, row) + 1] \in S
    BY <1>3, <2>1, <2>2
  <2>. QED
    BY <1>1, <2>1, <2>3, RankIsOnto
<1>. QED
  BY <1>3, <1>4, <1>5

\* What one SELECT returns: rows that match, each once, in order, as many as
\* the limit allows and there are; a row that is left out comes after all of it.
Page(q, from) ==
  /\ Listed(q, from) \in Seq({row \in from : Matches(row, q)})
  /\ Len(Listed(q, from)) <= MaxPage /\ Len(Listed(q, from)) <= q.limit
  /\ \A i, j \in DOMAIN Listed(q, from) : i < j => Before(Listed(q, from)[i], Listed(q, from)[j])
  /\ \A row \in from : Matches(row, q) =>
       \/ row \in Range(Listed(q, from))
       \/ \A i \in DOMAIN Listed(q, from) : Before(Listed(q, from)[i], row)
  /\ Len(Listed(q, from)) < q.limit /\ q.limit <= MaxPage =>
       \A row \in from : Matches(row, q) => row \in Range(Listed(q, from))

LEMMA PageIsListed ==
  ASSUME TypeOK, IsFiniteSet(rows), NEW q \in Queries, NEW from \in SUBSET rows
  PROVE  Page(q, from)
<1> DEFINE S == {row \in from : Matches(row, q)}
           n == Cardinality(S)
           all == InListOrder(S)
           limit == IF q.limit > MaxPage THEN MaxPage ELSE q.limit
           k == IF n < limit THEN n ELSE limit
           page == Listed(q, from)
<1>1. S \in SUBSET rows /\ IsFiniteSet(S)
  BY FS_Subset
<1>2. n \in Nat /\ limit \in Nat /\ k \in Nat /\ k <= n /\ k <= limit
      /\ limit <= MaxPage /\ limit <= q.limit /\ q.limit \in Nat /\ MaxPage \in Nat
  BY <1>1, FS_CardinalityType, ListingAssumption
<1>3. /\ all \in Seq(S) /\ Len(all) = n
      /\ \A i \in 1..n : all[i] \in S /\ Rank(S, all[i]) = i - 1
      /\ \A row \in S : Rank(S, row) \in 0..(n - 1) /\ row = all[Rank(S, row) + 1]
  BY <1>1, ListOrder
<1>4. page = SubSeq(all, 1, k)
  BY <1>3 DEF Listed
<1> HIDE DEF S, n, all, limit, k, page
<1>5. /\ page \in Seq(S) /\ Len(page) = k /\ DOMAIN page = 1..k
      /\ \A i \in 1..k : page[i] = all[i]
  BY <1>2, <1>3, <1>4
<1>6. ASSUME NEW i \in 1..k, NEW row \in S, i - 1 < Rank(S, row) PROVE Before(page[i], row)
  <2>1. i \in 1..n /\ page[i] \in S /\ Rank(S, page[i]) = i - 1
    BY <1>2, <1>3, <1>5
  <2>2. page[i] # row /\ Rank(S, row) \in Nat
    BY <1>2, <1>3, <1>6, <2>1
  <2>3. ~Before(row, page[i])
    <3>1. Before(row, page[i]) => Rank(S, row) < Rank(S, page[i])
      BY <1>1, <2>1, RankGrows
    <3>. QED
      BY <1>6, <2>1, <2>2, <3>1
  <2>. QED
    BY <1>1, <2>1, <2>2, <2>3, OrderIsTotal
<1>7. \A i, j \in 1..k : i < j => Before(page[i], page[j])
  <2> SUFFICES ASSUME NEW i \in 1..k, NEW j \in 1..k, i < j PROVE Before(page[i], page[j])
    OBVIOUS
  <2>1. page[j] \in S /\ Rank(S, page[j]) = j - 1
    BY <1>2, <1>3, <1>5
  <2>2. i - 1 < j - 1
    BY <1>2
  <2>. QED
    BY <1>6, <2>1, <2>2
<1>8. ASSUME NEW row \in S
      PROVE  IF Rank(S, row) < k THEN row \in Range(page) ELSE \A i \in 1..k : Before(page[i], row)
  <2>1. Rank(S, row) \in 0..(n - 1) /\ row = all[Rank(S, row) + 1] /\ Rank(S, row) \in Nat
    BY <1>2, <1>3
  <2>2. CASE Rank(S, row) < k
    <3>1. Rank(S, row) + 1 \in 1..k
      BY <1>2, <2>1, <2>2
    <3>2. page[Rank(S, row) + 1] = row
      BY <1>5, <2>1, <3>1
    <3>. QED
      BY <1>5, <2>2, <3>1, <3>2 DEF Range
  <2>3. CASE ~(Rank(S, row) < k)
    <3>1. \A i \in 1..k : i - 1 < Rank(S, row)
      BY <1>2, <2>1, <2>3
    <3>. QED
      BY <1>6, <2>3, <3>1
  <2>. QED
    BY <2>2, <2>3
<1>9. k < q.limit /\ q.limit <= MaxPage => k = n
  BY <1>2 DEF k, limit
<1>10. ASSUME k < q.limit, q.limit <= MaxPage, NEW row \in S PROVE row \in Range(page)
  <2>1. Rank(S, row) < k
    BY <1>2, <1>3, <1>9, <1>10
  <2>. QED
    BY <1>8, <2>1
<1>11. \A row : row \in S <=> row \in from /\ Matches(row, q)
  BY DEF S
<1>12. page = Listed(q, from) /\ S = {row \in from : Matches(row, q)} /\ k <= MaxPage /\ k <= q.limit
  BY <1>2 DEF page, S
<1>13. \A row \in from : Matches(row, q) =>
         row \in Range(page) \/ \A i \in DOMAIN page : Before(page[i], row)
  BY <1>5, <1>8, <1>11
<1>. QED
  BY <1>5, <1>7, <1>10, <1>11, <1>12, <1>13 DEF Page

-----------------------------------------------------------------------------
(* The steps *)

\* A page put behind what was seen: every position is in one or the other.
LEMMA Behind ==
  ASSUME NEW R, NEW s \in Seq(R), NEW t \in Seq(R)
  PROVE  /\ s \o t \in Seq(R) /\ DOMAIN (s \o t) = 1..(Len(s) + Len(t))
         /\ Len(s) \in Nat /\ Len(t) \in Nat /\ DOMAIN s = 1..Len(s) /\ DOMAIN t = 1..Len(t)
         /\ \A i \in 1..Len(s) : (s \o t)[i] = s[i]
         /\ \A i \in 1..Len(t) : (s \o t)[Len(s) + i] = t[i]
         /\ \A i \in 1..(Len(s) + Len(t)) : i \in 1..Len(s) \/ (i - Len(s) \in 1..Len(t)
                                                               /\ i = Len(s) + (i - Len(s)))
         /\ Range(s) \subseteq Range(s \o t) /\ Range(t) \subseteq Range(s \o t)
<1>1. /\ s \o t \in Seq(R) /\ DOMAIN (s \o t) = 1..(Len(s) + Len(t))
      /\ Len(s) \in Nat /\ Len(t) \in Nat /\ DOMAIN s = 1..Len(s) /\ DOMAIN t = 1..Len(t)
      /\ \A i \in 1..Len(s) : (s \o t)[i] = s[i]
      /\ \A i \in 1..Len(t) : (s \o t)[Len(s) + i] = t[i]
  OBVIOUS
<1>2. \A i \in 1..(Len(s) + Len(t)) : i \in 1..Len(s) \/ (i - Len(s) \in 1..Len(t)
                                                          /\ i = Len(s) + (i - Len(s)))
  BY <1>1
<1>3. ASSUME NEW x \in Range(s) PROVE x \in Range(s \o t)
  <2>1. PICK i \in 1..Len(s) : x = s[i]
    BY <1>1, <1>3 DEF Range
  <2>2. i \in 1..(Len(s) + Len(t)) /\ (s \o t)[i] = x
    BY <1>1, <2>1
  <2>. QED
    BY <1>1, <2>2 DEF Range
<1>4. ASSUME NEW x \in Range(t) PROVE x \in Range(s \o t)
  <2>1. PICK i \in 1..Len(t) : x = t[i]
    BY <1>1, <1>4 DEF Range
  <2>2. Len(s) + i \in 1..(Len(s) + Len(t)) /\ (s \o t)[Len(s) + i] = x
    BY <1>1, <2>1
  <2>. QED
    BY <1>1, <2>2 DEF Range
<1>. QED
  BY <1>1, <1>2, <1>3, <1>4

\* A request's rows are finitely many.
LEMMA FreshFinite ==
  ASSUME IntakeInv, NEW r \in Requests PROVE IsFiniteSet(Fresh(r))
<1>1. Len(results[r]) \in Nat /\ DOMAIN results[r] = 1..Len(results[r])
  BY BodyTypes DEF IntakeInv
<1>2. IsFiniteSet({r}) /\ IsFiniteSet(1..Len(results[r]))
  <2>1. IsFiniteSet(1..Len(results[r]))
    BY <1>1, FS_Interval
  <2>. QED
    BY <2>1, FS_Singleton
<1>3. Fresh(r) \in SUBSET ({r} \X (1..Len(results[r])))
  BY <1>1 DEF Fresh
<1>. QED
  BY <1>2, <1>3, FS_Product, FS_Subset

\* While the client waits, rows join the table and leave the filter, and no row
\* changes its place.
LEMMA OthersKeepPages ==
  ASSUME ListingInv, pager' = pager, rows \subseteq rows', left \subseteq left',
         \A row \in rows : CreatedAt(row)' = CreatedAt(row)
  PROVE  CursorTypeOK' /\ SeenInOrder' /\ CursorSeparates' /\ EndReached'
<1>1. CursorTypeOK /\ SeenInOrder /\ CursorSeparates /\ EndReached
  BY DEF ListingInv
<1>2. pager.first \subseteq rows /\ \A i \in DOMAIN pager.seen : pager.seen[i] \in rows
  BY <1>1 DEF CursorTypeOK, SeenInOrder
<1>3. \A row \in rows : Matches(row, pager.query)' => Matches(row, pager.query)
  BY DEF Matches
<1>4. \A row \in rows : After(row, pager.cursor)' <=> After(row, pager.cursor)
  BY DEF After
<1>5. \A p, q \in rows : Before(p, q)' <=> Before(p, q)
  BY DEF Before
<1>6. CursorTypeOK'
  BY <1>1 DEF CursorTypeOK
<1>7. SeenInOrder'
  <2>1. pager.seen \in Seq(rows')
    <3>1. pager.seen \in Seq(rows)
      BY <1>1 DEF SeenInOrder
    <3>2. DOMAIN pager.seen = 1..Len(pager.seen) /\ \A i \in DOMAIN pager.seen : pager.seen[i] \in rows'
      BY <3>1
    <3>. QED
      BY <3>1, <3>2
  <2>. QED
    BY <1>1, <1>2, <1>5, <2>1 DEF SeenInOrder
<1>8. CursorSeparates'
  BY <1>1, <1>2, <1>3, <1>4 DEF CursorSeparates
<1>9. EndReached'
  BY <1>1, <1>2, <1>3 DEF EndReached
<1>. QED
  BY <1>6, <1>7, <1>8, <1>9

LEMMA CreateKeepsPages ==
  ASSUME ListingInv, CreateNext, UNCHANGED listVars
  PROVE  IsFiniteSet(rows') /\ CursorTypeOK' /\ SeenInOrder' /\ CursorSeparates' /\ EndReached'
<1>1. IntakeInv /\ IsFiniteSet(rows) /\ pager' = pager /\ left' = left
  BY DEF ListingInv, listVars
<1>2. rows' = rows \/ \E r \in Requests : rows' = rows \cup Fresh(r)
  BY DEF CreateNext, RequestStep, ReceiveCreate, BeginTx, InsertNotification, InsertConflicts,
         FindByIdempotencyKey, ConstraintFails, DeadlockVictim, CommitTx, AbortTx, CommitFails,
         CreateTemplate
<1>3. IsFiniteSet(rows') /\ rows \subseteq rows'
  BY <1>1, <1>2, FreshFinite, FS_Union
<1>4. began' = began \/ \E r \in Requests : BeginTx(r)
  BY DEF CreateNext, RequestStep, ReceiveCreate, InsertNotification, InsertConflicts,
         FindByIdempotencyKey, ConstraintFails, DeadlockVictim, CommitTx, AbortTx, CommitFails,
         CreateTemplate
<1>5. \A row \in rows : CreatedAt(row)' = CreatedAt(row)
  <2>1. CASE began' = began
    BY <2>1 DEF CreatedAt
  <2>2. ASSUME NEW r \in Requests, BeginTx(r), NEW row \in rows PROVE CreatedAt(row)' = CreatedAt(row)
    <3>1. rpc[r] = "begin" /\ began' = [began EXCEPT ![r] = clock'] /\ began \in [Requests -> 0..clock]
      BY <1>1, <2>2 DEF BeginTx, Answer, IntakeInv, TypeOK
    <3>2. row[1] # r /\ row[1] \in Requests
      BY <1>1, <3>1 DEF IntakeInv, TypeOK, RowIds
    <3>. QED
      BY <3>1, <3>2 DEF CreatedAt
  <2>. QED
    BY <1>4, <2>1, <2>2
<1>. QED
  BY <1>1, <1>3, <1>5, OthersKeepPages

\* A page of rows that all come after what was seen, and that leaves none out
\* before its last row.
LEMMA AnswerKeepsPages ==
  ASSUME ListingInv, NEW q \in Queries, NEW from \in SUBSET rows, NEW first \in SUBSET rows,
         Answered(Listed(q, from), q, first),
         UNCHANGED <<rows, left, began>>,
         \A i \in DOMAIN pager.seen : \A row \in from : Before(pager.seen[i], row),
         \A row \in first : Matches(row, q) => row \in Range(pager.seen) \/ row \in from
  PROVE  CursorTypeOK' /\ SeenInOrder' /\ CursorSeparates' /\ EndReached'
<1>0. PICK page, seen, cursor, n :
        page = Listed(q, from) /\ seen = pager'.seen /\ cursor = pager'.cursor /\ n = Len(pager.seen)
  OBVIOUS
<1>1. TypeOK /\ IsFiniteSet(rows) /\ CursorTypeOK /\ SeenInOrder
  BY DEF ListingInv, IntakeInv
<1>2. Page(q, from)
  BY <1>1, PageIsListed
<1>3. page \in Seq(rows) /\ pager.seen \in Seq(rows) /\ Range(page) \subseteq from
  <2>1. page \in Seq({row \in from : Matches(row, q)})
    BY <1>0, <1>2 DEF Page
  <2>2. DOMAIN page = 1..Len(page) /\ \A i \in DOMAIN page : page[i] \in from
    BY <2>1
  <2>. QED
    BY <1>1, <2>1, <2>2 DEF SeenInOrder, Range
<1>4. /\ seen = pager.seen \o page
      /\ pager'.query = q /\ pager'.first = first
      /\ pager'.state = IF Len(page) = q.limit THEN "more" ELSE "end"
      /\ cursor = IF Len(page) = q.limit THEN EncodeCursor(Last(page)) ELSE pager.cursor
  BY <1>0 DEF Answered
<1>5. /\ seen \in Seq(rows) /\ DOMAIN seen = 1..(n + Len(page))
      /\ n \in Nat /\ Len(page) \in Nat /\ DOMAIN pager.seen = 1..n /\ DOMAIN page = 1..Len(page)
      /\ \A i \in 1..n : seen[i] = pager.seen[i]
      /\ \A i \in 1..Len(page) : seen[n + i] = page[i]
      /\ \A i \in 1..(n + Len(page)) : i \in 1..n \/ (i - n \in 1..Len(page) /\ i = n + (i - n))
      /\ Range(pager.seen) \subseteq Range(seen) /\ Range(page) \subseteq Range(seen)
  BY <1>0, <1>3, <1>4, Behind
<1>6. \A p, z \in rows : Before(p, z)' <=> Before(p, z)
  BY DEF Before, CreatedAt
<1>7. \A row \in rows : Matches(row, q)' <=> Matches(row, q)
  BY DEF Matches, CreatedAt
<1>8. \A i, j \in 1..Len(page) : i < j => Before(page[i], page[j])
  BY <1>0, <1>2, <1>5 DEF Page
<1>9. SeenInOrder'
  <2> SUFFICES ASSUME NEW i \in 1..(n + Len(page)), NEW j \in 1..(n + Len(page)), i < j
               PROVE  Before(seen[i], seen[j])
    <3>1. \A i \in DOMAIN seen : seen[i] \in rows
      BY <1>5
    <3>. QED
      BY <1>0, <1>5, <1>6, <3>1 DEF SeenInOrder
  <2>1. CASE j \in 1..n
    <3>1. i \in 1..n
      BY <1>5, <2>1
    <3>. QED
      BY <1>0, <1>1, <1>5, <2>1, <3>1 DEF SeenInOrder
  <2>2. CASE i \in 1..n /\ j - n \in 1..Len(page)
    <3>1. seen[j] = page[j - n] /\ page[j - n] \in from
      BY <1>3, <1>5, <2>2 DEF Range
    <3>. QED
      BY <1>5, <2>2, <3>1
  <2>3. CASE i - n \in 1..Len(page) /\ j - n \in 1..Len(page)
    <3>1. i - n < j - n
      BY <1>5
    <3>2. seen[n + (i - n)] = page[i - n] /\ seen[n + (j - n)] = page[j - n]
      BY <1>5, <2>3
    <3>3. n + (i - n) = i /\ n + (j - n) = j
      BY <1>5
    <3>. QED
      BY <1>8, <2>3, <3>1, <3>2, <3>3
  <2>. QED
    BY <1>5, <2>1, <2>2, <2>3
<1>10. CursorSeparates'
  <2> SUFFICES ASSUME Len(page) = q.limit
               PROVE  /\ \A i \in DOMAIN seen : ~After(seen[i], cursor)'
                      /\ \A row \in first :
                           Matches(row, q) => row \in Range(seen) \/ After(row, cursor)'
    BY <1>0, <1>4, <1>7 DEF CursorSeparates
  <2> DEFINE last == page[Len(page)]
  <2>1. Len(page) >= 1 /\ last \in rows /\ last \in from /\ Last(page) = last
        /\ seen[n + Len(page)] = last
    <3>1. Len(page) >= 1
      BY <1>5, ListingAssumption
    <3>. QED
      BY <1>3, <1>5, <3>1 DEF Last, Range
  <2>2. \A row \in rows : After(row, cursor)' <=> Before(last, row)
    <3>1. cursor = [at |-> CreatedAt(last), id |-> IdOrder[last]]
      BY <1>4, <2>1 DEF EncodeCursor
    <3>2. CreatedAt(last) \in Nat /\ IdOrder[last] \in Nat
          /\ \A row \in rows : CreatedAt(row) \in Nat /\ IdOrder[row] \in Nat /\ CreatedAt(row)' = CreatedAt(row)
      BY <1>1, <2>1, OrderIsTotal DEF CreatedAt
    <3>3. cursor.at = CreatedAt(last) /\ cursor.id = IdOrder[last]
      BY <3>1
    <3>. QED
      BY <3>2, <3>3 DEF After, Before
  <2>3. ASSUME NEW i \in DOMAIN seen PROVE ~Before(last, seen[i])
    <3>1. seen[i] \in rows /\ i \in 1..(n + Len(page))
      BY <1>5
    <3>2. seen[i] = last \/ Before(seen[i], last)
      <4>1. n + Len(page) \in 1..(n + Len(page))
        BY <1>5, <2>1
      <4>2. CASE i = n + Len(page)
        BY <2>1, <4>2
      <4>3. CASE i # n + Len(page)
        <5>1. i < n + Len(page)
          BY <1>5, <3>1, <4>3
        <5>2. Before(seen[i], seen[n + Len(page)])'
          BY <1>0, <1>5, <1>9, <3>1, <4>1, <5>1 DEF SeenInOrder
        <5>. QED
          BY <1>6, <2>1, <3>1, <5>2
      <4>. QED
        BY <4>2, <4>3
    <3>. QED
      BY <1>1, <2>1, <3>1, <3>2, OrderIsTotal
  <2>4. ASSUME NEW row \in first, Matches(row, q)
        PROVE  row \in Range(seen) \/ Before(last, row)
    <3>1. CASE row \in Range(pager.seen)
      BY <1>5, <3>1
    <3>2. CASE row \in from
      <4>1. row \in Range(page) \/ \A i \in DOMAIN page : Before(page[i], row)
        BY <1>0, <1>2, <2>4, <3>2 DEF Page
      <4>2. Len(page) \in DOMAIN page
        BY <1>5, <2>1
      <4>. QED
        BY <1>5, <4>1, <4>2
    <3>. QED
      BY <2>4, <3>1, <3>2
  <2>5. \A i \in DOMAIN seen : seen[i] \in rows
    BY <1>5
  <2>. QED
    BY <2>2, <2>3, <2>4, <2>5
<1>11. EndReached'
  <2> SUFFICES ASSUME Len(page) # q.limit, q.limit <= MaxPage, NEW row \in first, Matches(row, q)
               PROVE  row \in Range(seen)
    BY <1>0, <1>4, <1>7 DEF EndReached
  <2>1. Len(page) < q.limit
    <3>1. Len(page) <= q.limit /\ q.limit \in Nat
      BY <1>0, <1>2, ListingAssumption DEF Page
    <3>. QED
      BY <1>5, <3>1
  <2>2. CASE row \in Range(pager.seen)
    BY <1>5, <2>2
  <2>3. CASE row \in from
    <3>1. row \in Range(page)
      BY <1>0, <1>2, <2>1, <2>3 DEF Page
    <3>. QED
      BY <1>5, <3>1
  <2>. QED
    BY <2>2, <2>3
<1>12. CursorTypeOK'
  <2>1. cursor \in [at : Nat, id : Nat]
    <3>1. CASE Len(page) = q.limit
      <4>1. Len(page) \in 1..Len(page)
        BY <1>5, <3>1, ListingAssumption
      <4>2. Last(page) \in rows
        BY <1>3, <1>5, <4>1 DEF Last
      <4>. QED
        BY <1>1, <1>4, <3>1, <4>2, OrderIsTotal DEF EncodeCursor
    <3>2. CASE Len(page) # q.limit
      BY <1>0, <1>1, <1>4, <3>2 DEF CursorTypeOK
    <3>. QED
      BY <3>1, <3>2
  <2>. QED
    BY <1>0, <1>4, <2>1 DEF CursorTypeOK
<1>. QED
  BY <1>9, <1>10, <1>11, <1>12

LEMMA FirstPageKeeps ==
  ASSUME ListingInv, ListFirstPage
  PROVE  CursorTypeOK' /\ SeenInOrder' /\ CursorSeparates' /\ EndReached'
<1>1. PICK q \in Queries : Answered(Listed(q, rows), q, {row \in rows : Matches(row, q)})
  BY DEF ListFirstPage
<1>2. pager.seen = <<>> /\ UNCHANGED <<rows, left, began>>
  BY DEF ListFirstPage, createVars, ListingInv, CursorTypeOK
<1>3. \A i \in DOMAIN pager.seen : \A row \in rows : Before(pager.seen[i], row)
  BY <1>2
<1>. QED
  BY <1>1, <1>2, <1>3, AnswerKeepsPages

\* What comes after the cursor comes after all that was seen.
LEMMA NextPageKeeps ==
  ASSUME ListingInv, ListNextPage
  PROVE  CursorTypeOK' /\ SeenInOrder' /\ CursorSeparates' /\ EndReached'
<1> DEFINE from == {row \in rows : After(row, pager.cursor)}
<1>1. /\ Answered(Listed(pager.query, from), pager.query, pager.first)
      /\ pager.state = "more" /\ UNCHANGED <<rows, left, began>>
  BY DEF ListNextPage, createVars
<1>2. /\ TypeOK /\ CursorTypeOK /\ SeenInOrder /\ CursorSeparates
      /\ pager.query \in Queries /\ pager.first \in SUBSET rows
      /\ pager.cursor.at \in Nat /\ pager.cursor.id \in Nat
  BY <1>1 DEF ListingInv, IntakeInv, CursorTypeOK
<1>3. \A i \in DOMAIN pager.seen : pager.seen[i] \in rows /\ ~After(pager.seen[i], pager.cursor)
  BY <1>1, <1>2 DEF SeenInOrder, CursorSeparates
<1>4. \A p \in rows : CreatedAt(p) \in Nat /\ IdOrder[p] \in Nat
  BY <1>2, OrderIsTotal
<1>5. \A i \in DOMAIN pager.seen : \A row \in from : Before(pager.seen[i], row)
  BY <1>2, <1>3, <1>4 DEF After, Before
<1>6. \A row \in pager.first :
        Matches(row, pager.query) => row \in Range(pager.seen) \/ row \in from
  BY <1>1, <1>2 DEF CursorSeparates
<1>. QED
  BY <1>1, <1>2, <1>5, <1>6, AnswerKeepsPages

LEMMA ListingInvariant == Spec => []ListingInv
<1>1. Init => ListingInv
  <2> SUFFICES ASSUME Init PROVE ListingInv
    OBVIOUS
  <2>1. IntakeInv /\ rows = {} /\ pager.state = "idle" /\ pager.seen = <<>> /\ pager.first = {}
        /\ pager.cursor = [at |-> 0, id |-> 0]
    BY InitIntake DEF Init, InitCreate, InitList
  <2>. QED
    BY <2>1, FS_EmptySet DEF ListingInv, CursorTypeOK, SeenInOrder, CursorSeparates, EndReached
<1>2. ListingInv /\ [Next]_vars => ListingInv'
  <2> SUFFICES ASSUME ListingInv, [Next]_vars PROVE ListingInv'
    OBVIOUS
  <2>1. IntakeInv' /\ IsFiniteSet(rows)
    BY IntakeStep DEF ListingInv
  <2>2. CASE CreateNext /\ UNCHANGED listVars
    BY <2>1, <2>2, CreateKeepsPages DEF ListingInv
  <2>3. CASE ListFirstPage
    <3>1. rows' = rows
      BY <2>3 DEF ListFirstPage, createVars
    <3>. QED
      BY <2>1, <2>3, <3>1, FirstPageKeeps DEF ListingInv
  <2>4. CASE ListNextPage
    <3>1. rows' = rows
      BY <2>4 DEF ListNextPage, createVars
    <3>. QED
      BY <2>1, <2>4, <3>1, NextPageKeeps DEF ListingInv
  <2>5. CASE UNCHANGED vars \/ \E row \in rows : StatusMoves(row)
    <3>1. /\ pager' = pager /\ rows' = rows /\ began' = began /\ left \subseteq left'
      BY <2>5 DEF vars, createVars, listVars, StatusMoves
    <3>2. \A row \in rows : CreatedAt(row)' = CreatedAt(row)
      BY <3>1 DEF CreatedAt
    <3>. QED
      BY <2>1, <3>1, <3>2, OthersKeepPages DEF ListingInv
  <2>. QED
    BY <2>2, <2>3, <2>4, <2>5 DEF Next, ListNext
<1>. QED
  BY <1>1, <1>2, PTL DEF Spec

-----------------------------------------------------------------------------
\* A listing shows no row twice, and a client that followed next_cursor to the
\* end has seen each row that matched at its first page and still does, for any
\* number of rows, any page size up to the cap and any order of the ids,
\* whatever is committed between the pages.
THEOREM ListingCompleteHolds == Spec => []ListingComplete
<1>1. ListingInv => ListingComplete
  <2> SUFFICES ASSUME ListingInv PROVE ListingComplete
    OBVIOUS
  <2>1. TypeOK /\ SeenInOrder /\ EndReached /\ CursorTypeOK
    BY DEF ListingInv, IntakeInv
  <2>2. DOMAIN pager.seen = 1..Len(pager.seen) /\ Len(pager.seen) \in Nat
        /\ \A i \in DOMAIN pager.seen : pager.seen[i] \in rows
    BY <2>1 DEF SeenInOrder
  <2>3. \A i, j \in DOMAIN pager.seen : pager.seen[i] = pager.seen[j] => i = j
    <3> SUFFICES ASSUME NEW i \in DOMAIN pager.seen, NEW j \in DOMAIN pager.seen, i # j
                 PROVE  pager.seen[i] # pager.seen[j]
      OBVIOUS
    <3>1. i < j \/ j < i
      BY <2>2
    <3>2. Before(pager.seen[i], pager.seen[j]) \/ Before(pager.seen[j], pager.seen[i])
      BY <2>1, <3>1 DEF SeenInOrder
    <3>. QED
      BY <2>1, <2>2, <3>2, OrderIsTotal
  <2>4. ASSUME NEW row \in rows
        PROVE  Occurrences(row) = IF row \in Range(pager.seen) THEN 1 ELSE 0
    <3> DEFINE At == {i \in DOMAIN pager.seen : pager.seen[i] = row}
    <3>1. CASE row \in Range(pager.seen)
      <4>1. PICK i \in DOMAIN pager.seen : pager.seen[i] = row
        BY <3>1 DEF Range
      <4>2. At = {i}
        BY <2>3, <4>1
      <4>. QED
        BY <3>1, <4>2, FS_Singleton DEF Occurrences
    <3>2. CASE row \notin Range(pager.seen)
      <4>1. At = {}
        BY <3>2 DEF Range
      <4>. QED
        BY <3>2, <4>1, FS_EmptySet DEF Occurrences
    <3>. QED
      BY <3>1, <3>2
  <2>5. \A row \in rows : Occurrences(row) <= 1
    BY <2>4
  <2>6. pager.first \subseteq rows
    BY <2>1 DEF CursorTypeOK
  <2>. QED
    BY <2>1, <2>4, <2>5, <2>6 DEF ListingComplete, EndReached
<1>. QED
  BY <1>1, ListingInvariant, PTL
=============================================================================
