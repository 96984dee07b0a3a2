------------------------------- MODULE Intake -------------------------------
(***************************************************************************)
(* The API's side of the database: concurrent create requests, template    *)
(* requests, and a client that lists meanwhile.                            *)
(***************************************************************************)
EXTENDS Listing

vars == <<createVars, listVars>>

Init == InitCreate /\ InitList

Next ==
  \/ CreateNext /\ UNCHANGED listVars
  \/ ListNext

Spec == Init /\ [][Next]_vars

\* A handler that has begun goes on, a statement whose wait is over returns, and
\* PostgreSQL looks for deadlocks (deadlock_timeout).
Fairness ==
  \A r \in Requests : WF_vars(RequestStep(r) /\ UNCHANGED listVars)

FairSpec == Spec /\ Fairness

-----------------------------------------------------------------------------
(* What it implements *)

KeysOf(items) == [i \in DOMAIN items |-> items[i].key]

\* The answers as the client sees them.
AnswerOf(r) ==
  CASE rpc[r] = "created" -> [code |-> "created", rows |-> results[r]]
    [] rpc[r] \in {"rejected", "failed"} -> [code |-> "error", rows |-> <<>>]
    [] OTHER -> [code |-> "none", rows |-> <<>>]

Promised == INSTANCE Registry WITH
  Requests <- Requests,
  Orders <- {KeysOf(items) : items \in Bodies},
  NoKey <- NoKey,
  asked <- [r \in Requests |-> KeysOf(body[r])],
  answer <- [r \in Requests |-> AnswerOf(r)],
  rows <- rows

\* Each request takes effect at its commit, as a whole, and as if no other ran:
\* its answer names, for every item, the only row there is with that item's key
\* (InsertNotification, notificationByIdempotencyKeyTx, the unique index), and
\* a request that fails leaves all of its rows or none.
RegistryImplemented == Promised!Spec

-----------------------------------------------------------------------------
(* Properties *)

RowIds == Requests \X (1..MaxItems)

\* Every variable keeps its type, a request has handled no more items than it
\* has, and no row of a transaction is visible before its end.
TypeOK ==
  /\ rpc \in [Requests -> RequestLabels]
  /\ body \in [Requests -> Bodies \cup {<<>>}]
  /\ results \in [Requests -> Seq(RowIds)]
  /\ \A r \in Requests : Len(results[r]) <= Len(body[r])
  /\ taken \subseteq Requests
  /\ rows \subseteq RowIds
  /\ \A row \in rows : rpc[row[1]] \in {"created", "failed"}
  /\ clock \in Nat
  /\ began \in [Requests -> 0..clock]
  /\ DOMAIN templates \subseteq Names
  /\ left \subseteq rows
  /\ pager.state \in {"idle", "more", "end"}

\* What validation lets in, the table stores and the worker can build a message
\* of: no accepted row ends in the worker's "missing content" or "empty payload"
\* (ValidateCreateItem, the CHECK of the table and buildOutboundEnvelope agree).
AcceptedCanBeSent ==
  \A row \in rows :
    BuildOutboundEnvelope(Item(row), templates).why \notin {"missing content", "empty payload"}

\* A request that reaches the database is answered: transactions that wait for
\* each other's keys do not wait for ever, and a failed one lets the other go on.
RequestsAnswered ==
  \A r \in Requests : rpc[r] \in {"begin", "insert"} ~> rpc[r] \in {"created", "failed"}

Occurrences(row) == Cardinality({i \in DOMAIN pager.seen : pager.seen[i] = row})

\* Pages never show a row twice, and a client that follows next_cursor to its
\* end has seen every row that matched all along, although rows that began
\* earlier keep being committed, ids are random, and rows leave the filter. A
\* limit above the cap of Store.List is excepted: its page is cut to the cap,
\* never as long as the limit, and so never has a cursor.
ListingComplete ==
  /\ \A row \in rows : Occurrences(row) <= 1
  /\ pager.state = "end" /\ pager.query.limit <= MaxPage =>
       \A row \in pager.first : Matches(row, pager.query) => Occurrences(row) = 1

\* EXAMPLES.md: "If `next_cursor` is non-empty, more rows exist."
CursorMeansMore ==
  [][pager' # pager /\ pager'.state = "more" =>
       \E row \in rows : Matches(row, pager'.query) /\ After(row, pager'.cursor)]_vars
=============================================================================
