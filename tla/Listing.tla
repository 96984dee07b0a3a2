------------------------------ MODULE Listing -------------------------------
(***************************************************************************)
(* GET /v1/notifications: one client follows next_cursor from page to page *)
(* while requests commit and notifications change their status.            *)
(***************************************************************************)
EXTENDS CreateBatch, SequencesExt

CONSTANTS
  Queries,   \* what the client may ask for: [pending, from, to, limit]
  IdOrder,   \* how the random id of each row compares: a number for each <<r, i>>
  MaxPage    \* the cap on the limit in Store.List (100 in the code)

\* An id is a primary key; ListNotifications refuses a limit below 1.
ASSUME ListingAssumption ==
  /\ MaxPage \in Nat \ {0}
  /\ IdOrder \in [Requests \X (1..MaxItems) -> Nat]
  /\ \A p, q \in DOMAIN IdOrder : IdOrder[p] = IdOrder[q] => p = q
  /\ Queries \subseteq [pending : BOOLEAN, from : Nat, to : Nat, limit : Nat \ {0}]

VARIABLES
  left,     \* committed rows whose status is no longer pending
  pager     \* the client's listing

listVars == <<left, pager>>

\* query: the request; cursor: the next_cursor it was given; state: "idle", or
\* "more" (there is a cursor) or "end" (it was empty) after a page; seen: the
\* rows of its pages, in order; first: history, the rows that matched at the
\* first page.
NoQuery == [pending |-> FALSE, from |-> 0, to |-> 0, limit |-> 0]
InitList ==
  /\ left = {}
  /\ pager = [state |-> "idle", query |-> NoQuery, cursor |-> [at |-> 0, id |-> 0],
              seen |-> <<>>, first |-> {}]

CreatedAt(row) == began[row[1]]

\* encodeCursor keeps both parts of the order exactly.
EncodeCursor(row) == [at |-> CreatedAt(row), id |-> IdOrder[row]]

\* The order of a listing: newest first, then by id.
Before(p, q) ==
  CreatedAt(p) > CreatedAt(q) \/ (CreatedAt(p) = CreatedAt(q) /\ IdOrder[p] > IdOrder[q])

\* The status, from and to filters; the channel is one more of the same kind.
Matches(row, q) ==
  /\ q.pending => row \notin left
  /\ q.from <= CreatedAt(row) /\ CreatedAt(row) <= q.to

\* Mutant of After: the cursor is compared by its time alone.
AfterTime(row, c) == CreatedAt(row) < c.at

After(row, c) ==
  CreatedAt(row) < c.at \/ (CreatedAt(row) = c.at /\ IdOrder[row] < c.id)

\* The rows of S in the order of a listing: row i has i - 1 before it.
InListOrder(S) ==
  [i \in 1..Cardinality(S) |->
     CHOOSE row \in S : Cardinality({p \in S : Before(p, row)}) = i - 1]

\* The SELECT of Store.List, without and with a cursor.
Listed(q, from) ==
  LET all == InListOrder({row \in from : Matches(row, q)})
      limit == IF q.limit > MaxPage THEN MaxPage ELSE q.limit
  IN  SubSeq(all, 1, IF Len(all) < limit THEN Len(all) ELSE limit)

\* The handler's answer: there is a next cursor when the page is as long as the
\* limit of the request.
Answered(page, q, first) ==
  pager' = [state |-> IF Len(page) = q.limit THEN "more" ELSE "end",
            query |-> q,
            cursor |-> IF Len(page) = q.limit THEN EncodeCursor(Last(page)) ELSE pager.cursor,
            seen |-> pager.seen \o page,
            first |-> first]

ListFirstPage ==
  /\ pager.state = "idle"
  /\ \E q \in Queries :
       Answered(Listed(q, rows), q, {row \in rows : Matches(row, q)})
  /\ UNCHANGED <<createVars, left>>

ListNextPage ==
  /\ pager.state = "more"
  /\ Answered(Listed(pager.query, {row \in rows : After(row, pager.cursor)}),
              pager.query, pager.first)
  /\ UNCHANGED <<createVars, left>>

\* The rest of the system moves a row on from pending, for good.
StatusMoves(row) ==
  /\ row \in rows \ left
  /\ left' = left \cup {row}
  /\ UNCHANGED <<createVars, pager>>

ListNext ==
  \/ ListFirstPage
  \/ ListNextPage
  \/ \E row \in rows : StatusMoves(row)
=============================================================================
