---------------------------- MODULE CreateBatch -----------------------------
(***************************************************************************)
(* POST /v1/notifications up to its commit, and POST /v1/templates.  A     *)
(* request is one transaction that inserts its items one statement at a    *)
(* time; PostgreSQL's unique index on idempotency_key makes a statement    *)
(* wait for the transaction that has inserted the same key.  What follows  *)
(* the commit is in ApiServer.                                             *)
(***************************************************************************)
EXTENDS Items

CONSTANTS
  Requests,          \* create requests
  Bodies,            \* what they may ask for: sequences of items
  MaxItems,          \* items per request (1000 in the code)
  TemplateRequests   \* what POST /v1/templates may be asked to create

ASSUME CreateAssumption ==
  /\ MaxItems \in Nat \ {0}
  /\ Bodies \subseteq Seq(AnyItem)
  /\ TemplateRequests \subseteq [named : BOOLEAN, written : BOOLEAN, name : Names,
                                 channel : STRING, vars : SUBSET STRING]

VARIABLES
  rpc,        \* where the handler of each request is
  body,       \* its items
  results,    \* the rows of the items handled so far
  taken,      \* requests whose last INSERT found its key taken, before the SELECT
  rows,       \* the committed rows; <<r, i>> was inserted for item i of request r
  began,      \* the start of each transaction: the created_at of its rows
  clock,      \* the database's clock
  templates   \* the templates that exist, by name

createVars == <<rpc, body, results, taken, rows, began, clock, templates>>

RequestLabels == {"new", "begin", "insert", "created", "rejected", "failed"}

InitCreate ==
  /\ rpc = [r \in Requests |-> "new"]
  /\ body = [r \in Requests |-> <<>>]
  /\ results = [r \in Requests |-> <<>>]
  /\ taken = {}
  /\ rows = {}
  /\ began = [r \in Requests |-> 0]
  /\ clock = 0
  /\ templates = [n \in {} |-> n]

-----------------------------------------------------------------------------
Item(row) == body[row[1]][row[2]]
Key(row) == Item(row).key

\* The rows the transaction of r has inserted (an item that found its key taken
\* names another row than its own).
Fresh(r) == {<<r, i>> : i \in {j \in DOMAIN results[r] : results[r][j] = <<r, j>>}}

\* Mutant of InFlight: the deferred Rollback is missing, and a failed
\* transaction keeps its locks.
InFlightForever(r) == rpc[r] = "insert" \/ (rpc[r] = "failed" /\ Fresh(r) \cap rows = {})

InFlight(r) == rpc[r] = "insert"

ThisItem(r) == Len(results[r]) + 1
ItemsLeft(r) == ThisItem(r) <= Len(body[r])

\* The row that has key k as r sees it: committed, or inserted by r itself.
Holders(r, k) == {row \in rows \cup Fresh(r) : k # NoKey /\ Key(row) = k}

\* r's statement waits for q's transaction to end.
WaitsFor(r, q) ==
  /\ q # r /\ rpc[r] = "insert" /\ InFlight(q)
  /\ ItemsLeft(r) /\ r \notin taken
  /\ \E row \in Fresh(q) : Key(row) = body[r][ThisItem(r)].key /\ Key(row) # NoKey

\* Mutant of Waits: the index on idempotency_key is not unique.
NeverWaits(r) == FALSE

Waits(r) == \E q \in Requests : WaitsFor(r, q)

\* r is in a cycle of transactions each waiting for the next.
Deadlocked(r) ==
  \E S \in SUBSET Requests :
    /\ r \in S
    /\ \A s \in S : (\E q \in S : WaitsFor(s, q)) /\ (\E q \in S : WaitsFor(q, s))

-----------------------------------------------------------------------------
Answer(r, from, code) ==
  /\ rpc[r] = from
  /\ rpc' = [rpc EXCEPT ![r] = code]

\* The checks made of the whole body before the database is touched.
Acceptable(items) ==
  /\ items # <<>>
  /\ Len(items) <= MaxItems
  /\ \A i \in DOMAIN items : ValidateCreateItem(items[i])

\* A client that names a template has its id from the answer that created it.
Knows(items) ==
  \A i \in DOMAIN items : items[i].template \in DOMAIN templates \cup {NoTemplate, Unknown}

ReceiveCreate(r) ==
  /\ rpc[r] = "new"
  /\ \E items \in Bodies :
       /\ Knows(items)
       /\ body' = [body EXCEPT ![r] = items]
       /\ rpc' = [rpc EXCEPT ![r] = IF Acceptable(items) THEN "begin" ELSE "rejected"]
  /\ UNCHANGED <<results, taken, rows, began, clock, templates>>

\* BEGIN fixes now() for the transaction; two may begin in the same microsecond.
\* A request of several items inserts its batch row next, which meets nobody.
BeginTx(r) ==
  /\ Answer(r, "begin", "insert")
  /\ clock' \in {clock, clock + 1}
  /\ began' = [began EXCEPT ![r] = clock']
  /\ UNCHANGED <<body, results, taken, rows, templates>>

\* The statement for r's item violates the CHECK, or inserts a row whose
\* template_id refers to nothing.
Violated(r) ==
  LET item == body[r][ThisItem(r)] IN
  \/ ~BodyCheck(item)
  \/ Holders(r, item.key) = {} /\ item.template = Unknown

\* The INSERT of r's next item returns.
Inserts(r) == rpc[r] = "insert" /\ r \notin taken /\ ItemsLeft(r) /\ ~Waits(r)

\* Mutant of InsertNotification: the statement runs on the pool, not in the transaction.
InsertOutsideTx(r) ==
  /\ Inserts(r) /\ ~Violated(r)
  /\ Holders(r, body[r][ThisItem(r)].key) = {}
  /\ results' = [results EXCEPT ![r] = Append(@, <<r, ThisItem(r)>>)]
  /\ rows' = rows \cup {<<r, ThisItem(r)>>}
  /\ UNCHANGED <<rpc, body, taken, began, clock, templates>>

InsertNotification(r) ==
  /\ Inserts(r) /\ ~Violated(r)
  /\ Holders(r, body[r][ThisItem(r)].key) = {}
  /\ results' = [results EXCEPT ![r] = Append(@, <<r, ThisItem(r)>>)]
  /\ UNCHANGED <<rpc, body, taken, rows, began, clock, templates>>

\* ON CONFLICT DO NOTHING returns no row.
InsertConflicts(r) ==
  /\ Inserts(r) /\ ~Violated(r)
  /\ Holders(r, body[r][ThisItem(r)].key) # {}
  /\ taken' = taken \cup {r}
  /\ UNCHANGED <<rpc, body, results, rows, began, clock, templates>>

\* The SELECT by key that follows, in a snapshot of its own.  Finding nothing
\* has no action: no row is ever deleted, and a request in that situation would
\* stay here, against RequestsAnswered.
FindByIdempotencyKey(r) ==
  /\ rpc[r] = "insert" /\ r \in taken /\ ItemsLeft(r)
  /\ \E row \in Holders(r, body[r][ThisItem(r)].key) :
       results' = [results EXCEPT ![r] = Append(@, row)]
  /\ taken' = taken \ {r}
  /\ UNCHANGED <<rpc, body, rows, began, clock, templates>>

\* A constraint of the table is violated: 500, and the transaction is rolled back.
ConstraintFails(r) ==
  /\ Inserts(r) /\ Violated(r)
  /\ Answer(r, "insert", "failed")
  /\ UNCHANGED <<body, results, taken, rows, began, clock, templates>>

\* PostgreSQL aborts a transaction it finds in a deadlock.
DeadlockVictim(r) ==
  /\ Deadlocked(r)
  /\ Answer(r, "insert", "failed")
  /\ UNCHANGED <<body, results, taken, rows, began, clock, templates>>

\* The database fails or the request's context ends before the commit.
AbortTx(r) ==
  /\ \E from \in {"begin", "insert"} : Answer(r, from, "failed")
  /\ UNCHANGED <<body, results, taken, rows, began, clock, templates>>

CommitTx(r) ==
  /\ ~ItemsLeft(r)
  /\ Answer(r, "insert", "created")
  /\ rows' = rows \cup Fresh(r)
  /\ UNCHANGED <<body, results, taken, began, clock, templates>>

\* Commit returns an error: the connection may have failed before or after the
\* server committed.
CommitFails(r) ==
  /\ ~ItemsLeft(r)
  /\ Answer(r, "insert", "failed")
  /\ rows' \in {rows, rows \cup Fresh(r)}
  /\ UNCHANGED <<body, results, taken, began, clock, templates>>

RequestStep(r) ==
  \/ BeginTx(r) \/ InsertNotification(r) \/ InsertConflicts(r) \/ FindByIdempotencyKey(r)
  \/ ConstraintFails(r) \/ DeadlockVictim(r) \/ CommitTx(r)

-----------------------------------------------------------------------------
(* POST /v1/templates *)

ValidTemplate(t) == t.named /\ t.written /\ t.channel \in Channels

\* Any other outcome (400, 409 for a name that is taken, 500) changes nothing.
CreateTemplate(t) ==
  /\ ValidTemplate(t)
  /\ t.name \notin DOMAIN templates
  /\ templates' = [n \in DOMAIN templates \cup {t.name} |->
                     IF n = t.name THEN [channel |-> t.channel, vars |-> t.vars] ELSE templates[n]]
  /\ UNCHANGED <<rpc, body, results, taken, rows, began, clock>>

CreateNext ==
  \/ \E r \in Requests :
       ReceiveCreate(r) \/ RequestStep(r) \/ AbortTx(r) \/ CommitFails(r)
  \/ \E t \in TemplateRequests : CreateTemplate(t)
=============================================================================
