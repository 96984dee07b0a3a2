----------------------------- MODULE IntakeProofs -----------------------------
(***************************************************************************)
(* What TLAPS proves of Intake for every set of requests, bodies, keys and *)
(* templates: type correctness, that what is accepted can be sent, and     *)
(* that concurrent create requests implement Registry.                     *)
(***************************************************************************)
EXTENDS Intake, TLAPS

\* Where a request stands fixes what it has done so far.
Progress ==
  \A r \in Requests :
    /\ rpc[r] = "new" => body[r] = <<>>
    /\ rpc[r] \in {"new", "begin", "rejected"} => results[r] = <<>>
    /\ rpc[r] \in {"begin", "insert", "created"} => Acceptable(body[r])

\* Every row was inserted for an acceptable item of its request, which names no
\* unknown template.
Stored(row) ==
  /\ row[1] \in Requests /\ row[2] \in DOMAIN body[row[1]]
  /\ Acceptable(body[row[1]])
  /\ Item(row).template # Unknown
RowsStored == \A row \in rows : Stored(row)
FreshStored == \A r \in Requests : \A row \in Fresh(r) : Stored(row)

\* The templates that items refer to exist.
TemplatesKnown ==
  \A r \in Requests : \A i \in DOMAIN body[r] :
    body[r][i].template \in DOMAIN templates \cup {NoTemplate, Unknown}

IntakeInv == TypeOK /\ Progress /\ RowsStored /\ FreshStored /\ TemplatesKnown

-----------------------------------------------------------------------------
(* Type correctness and the rows *)

LEMMA InitIntake == Init => IntakeInv
BY CreateAssumption
DEF Init, InitCreate, InitList, IntakeInv, TypeOK, RequestLabels, Progress, RowsStored,
    FreshStored, Fresh, TemplatesKnown

\* A body is a sequence, and its items are items.
LEMMA BodyTypes ==
  ASSUME TypeOK, NEW r \in Requests
  PROVE  /\ body[r] \in Seq(AnyItem)
         /\ Len(body[r]) \in Nat
         /\ DOMAIN body[r] = 1..Len(body[r])
         /\ results[r] \in Seq(RowIds)
         /\ Len(results[r]) \in Nat
         /\ DOMAIN results[r] = 1..Len(results[r])
         /\ Len(results[r]) <= Len(body[r])
BY CreateAssumption DEF TypeOK

\* A step that touches no result, row or body.
LEMMA RowsKept ==
  ASSUME IntakeInv, UNCHANGED <<body, results, rows, templates>>
  PROVE  RowsStored' /\ FreshStored' /\ TemplatesKnown'
BY DEF IntakeInv, RowsStored, FreshStored, TemplatesKnown, Stored, Fresh, Item, Acceptable

LEMMA ReceiveKeeps ==
  ASSUME IntakeInv, NEW r \in Requests, ReceiveCreate(r), UNCHANGED listVars
  PROVE  IntakeInv'
<1>1. PICK items \in Bodies :
        /\ Knows(items)
        /\ body' = [body EXCEPT ![r] = items]
        /\ rpc' = [rpc EXCEPT ![r] = IF Acceptable(items) THEN "begin" ELSE "rejected"]
  BY DEF ReceiveCreate
<1>2. rpc[r] = "new" /\ body[r] = <<>> /\ results[r] = <<>>
  BY DEF ReceiveCreate, IntakeInv, Progress
<1>3. UNCHANGED <<results, taken, rows, began, clock, templates, left, pager>>
  BY DEF ReceiveCreate, listVars
<1>4. items \in Seq(AnyItem) /\ Len(items) \in Nat
  BY CreateAssumption
<1>5. \A row \in rows : row[1] # r
  BY <1>2 DEF IntakeInv, TypeOK
<1>6. Fresh(r) = {}
  BY <1>2 DEF Fresh
<1>7. TypeOK'
  <2> USE DEF IntakeInv, TypeOK
  <2>1. rpc' \in [Requests -> RequestLabels] /\ body' \in [Requests -> Bodies \cup {<<>>}]
    BY <1>1 DEF RequestLabels
  <2>2. \A q \in Requests : Len(results[q]) <= Len(body'[q])
    BY <1>1, <1>2, <1>4
  <2>3. \A row \in rows : rpc'[row[1]] \in {"created", "failed"}
    BY <1>1, <1>5
  <2>. QED
    BY <1>3, <2>1, <2>2, <2>3
<1>8. Progress'
  BY <1>1, <1>2, <1>3 DEF IntakeInv, TypeOK, Progress, Acceptable
<1>9. RowsStored'
  BY <1>1, <1>3, <1>5 DEF IntakeInv, TypeOK, RowsStored, Stored, Item, Acceptable
<1>10. FreshStored'
  <2> SUFFICES ASSUME NEW q \in Requests, NEW row \in Fresh(q)' PROVE Stored(row)'
    BY DEF FreshStored
  <2>1. Fresh(q)' = Fresh(q)
    BY <1>3 DEF Fresh
  <2>2. row[1] = q
    BY DEF Fresh
  <2>3. q # r
    BY <1>6, <2>1
  <2>. QED
    BY <1>1, <2>1, <2>2, <2>3 DEF IntakeInv, TypeOK, FreshStored, Stored, Item, Acceptable
<1>11. TemplatesKnown'
  BY <1>1, <1>3 DEF IntakeInv, TypeOK, TemplatesKnown, Knows
<1>. QED
  BY <1>7, <1>8, <1>9, <1>10, <1>11 DEF IntakeInv

\* Handling one more item adds its row to those the transaction inserted, when
\* it is its own.
LEMMA OneMoreResult ==
  ASSUME TypeOK, NEW r \in Requests, NEW row \in RowIds,
         results' = [results EXCEPT ![r] = Append(@, row)]
  PROVE  /\ \A q \in Requests \ {r} : Fresh(q)' = Fresh(q)
         /\ Fresh(r)' = Fresh(r) \cup {p \in {row} : p = <<r, ThisItem(r)>>}
         /\ results' \in [Requests -> Seq(RowIds)]
         /\ Len(results'[r]) = Len(results[r]) + 1
<1>1. results[r] \in Seq(RowIds) /\ Len(results[r]) \in Nat
  BY BodyTypes
<1>2. results'[r] = Append(results[r], row) /\ \A q \in Requests \ {r} : results'[q] = results[q]
  BY DEF TypeOK
<1>3. DOMAIN results'[r] = 1..(Len(results[r]) + 1)
  BY <1>1, <1>2
<1>4. \A j \in 1..(Len(results[r]) + 1) :
        results'[r][j] = IF j = Len(results[r]) + 1 THEN row ELSE results[r][j]
  BY <1>1, <1>2
<1>5. DOMAIN results[r] = 1..Len(results[r])
  BY <1>1
<1>6. Fresh(r)' = Fresh(r) \cup {p \in {row} : p = <<r, ThisItem(r)>>}
  <2>1. ASSUME NEW p \in Fresh(r)'
        PROVE  p \in Fresh(r) \cup {x \in {row} : x = <<r, ThisItem(r)>>}
    <3>1. PICK j \in 1..(Len(results[r]) + 1) : p = <<r, j>> /\ results'[r][j] = <<r, j>>
      BY <1>3, <2>1 DEF Fresh
    <3>2. CASE j = Len(results[r]) + 1
      BY <1>4, <3>1, <3>2 DEF ThisItem
    <3>3. CASE j # Len(results[r]) + 1
      <4>1. j \in DOMAIN results[r]
        BY <1>1, <1>5, <3>3
      <4>. QED
        BY <1>4, <3>1, <3>3, <4>1 DEF Fresh
    <3>. QED
      BY <3>2, <3>3
  <2>2. ASSUME NEW p \in Fresh(r) PROVE p \in Fresh(r)'
    <3>1. PICK j \in DOMAIN results[r] : p = <<r, j>> /\ results[r][j] = <<r, j>>
      BY <2>2 DEF Fresh
    <3>2. j \in 1..(Len(results[r]) + 1) /\ j # Len(results[r]) + 1
      BY <1>1, <1>5
    <3>. QED
      BY <1>3, <1>4, <3>1, <3>2 DEF Fresh
  <2>3. ASSUME row = <<r, ThisItem(r)>> PROVE row \in Fresh(r)'
    <3>1. ThisItem(r) \in 1..(Len(results[r]) + 1)
      BY <1>1 DEF ThisItem
    <3>2. results'[r][ThisItem(r)] = row
      BY <1>1, <1>4, <3>1 DEF ThisItem
    <3>. QED
      BY <1>3, <2>3, <3>1, <3>2 DEF Fresh
  <2>. QED
    BY <2>1, <2>2, <2>3
<1>7. \A q \in Requests \ {r} : Fresh(q)' = Fresh(q)
  BY <1>2 DEF Fresh
<1>8. results' \in [Requests -> Seq(RowIds)]
  BY <1>1, <1>2 DEF TypeOK
<1>9. Len(results'[r]) = Len(results[r]) + 1
  BY <1>1, <1>2
<1>. QED
  BY <1>6, <1>7, <1>8, <1>9

\* The next item of a request in its transaction.
LEMMA ThisItemTypes ==
  ASSUME IntakeInv, NEW r \in Requests, rpc[r] = "insert", ItemsLeft(r)
  PROVE  /\ ThisItem(r) \in DOMAIN body[r]
         /\ ThisItem(r) \in 1..MaxItems
         /\ <<r, ThisItem(r)>> \in RowIds
         /\ <<r, ThisItem(r)>> \notin rows \cup Fresh(r)
         /\ Acceptable(body[r])
<1>1. TypeOK /\ Acceptable(body[r])
  BY DEF IntakeInv, Progress
<1>2. ThisItem(r) \in 1..Len(body[r])
  BY <1>1, BodyTypes DEF ItemsLeft, ThisItem
<1>3. Len(body[r]) <= MaxItems /\ MaxItems \in Nat /\ Len(body[r]) \in Nat
  BY <1>1, BodyTypes, CreateAssumption DEF Acceptable
<1>4. <<r, ThisItem(r)>> \notin rows
  BY <1>1 DEF TypeOK
<1>5. ThisItem(r) \notin DOMAIN results[r]
  BY <1>1, BodyTypes DEF ThisItem
<1>6. <<r, ThisItem(r)>> \notin Fresh(r)
  BY <1>5 DEF Fresh
<1>. QED
  BY <1>1, <1>2, <1>3, <1>4, <1>6, BodyTypes DEF RowIds

\* Rows are named by row ids.
LEMMA FreshTypes ==
  ASSUME TypeOK, NEW r \in Requests
  PROVE  /\ Fresh(r) \subseteq RowIds
         /\ \A row \in Fresh(r) : row[1] = r /\ row[2] \in DOMAIN results[r] /\ row[2] \in DOMAIN body[r]
<1>1. \A i \in DOMAIN results[r] : results[r][i] \in RowIds /\ i \in DOMAIN body[r]
  BY BodyTypes
<1>. QED
  BY <1>1 DEF Fresh

LEMMA InsertKeeps ==
  ASSUME IntakeInv, NEW r \in Requests, InsertNotification(r) \/ FindByIdempotencyKey(r),
         UNCHANGED listVars
  PROVE  IntakeInv'
<1>1. /\ rpc[r] = "insert" /\ ItemsLeft(r)
      /\ UNCHANGED <<rpc, body, rows, began, clock, templates, left, pager>>
      /\ taken' \subseteq taken
  BY DEF InsertNotification, Inserts, FindByIdempotencyKey, listVars
<1>2. TypeOK /\ ThisItem(r) \in DOMAIN body[r] /\ <<r, ThisItem(r)>> \in RowIds
      /\ <<r, ThisItem(r)>> \notin rows \cup Fresh(r) /\ Acceptable(body[r])
  BY <1>1, ThisItemTypes DEF IntakeInv
<1>3. PICK row \in RowIds :
        /\ results' = [results EXCEPT ![r] = Append(@, row)]
        /\ row = <<r, ThisItem(r)>> => body[r][ThisItem(r)].template # Unknown
  <2>1. CASE InsertNotification(r)
    <3>1. body[r][ThisItem(r)].template # Unknown
      BY <2>1 DEF InsertNotification, Violated
    <3>. QED
      BY <1>2, <2>1, <3>1 DEF InsertNotification
  <2>2. CASE FindByIdempotencyKey(r)
    <3>1. rows \subseteq RowIds /\ Fresh(r) \subseteq RowIds
      BY <1>2, FreshTypes DEF TypeOK
    <3>. QED
      BY <1>2, <2>2, <3>1 DEF FindByIdempotencyKey, Holders
  <2>. QED
    BY <2>1, <2>2
<1>4. /\ \A q \in Requests \ {r} : Fresh(q)' = Fresh(q)
      /\ Fresh(r)' = Fresh(r) \cup {p \in {row} : p = <<r, ThisItem(r)>>}
      /\ results' \in [Requests -> Seq(RowIds)]
      /\ Len(results'[r]) = Len(results[r]) + 1
  BY <1>2, <1>3, OneMoreResult
<1>5. \A q \in Requests \ {r} : results'[q] = results[q]
  BY <1>2, <1>3 DEF TypeOK
<1>6. Len(results[r]) + 1 <= Len(body[r])
  BY <1>1 DEF ItemsLeft, ThisItem
<1>7. TypeOK'
  BY <1>1, <1>2, <1>4, <1>5, <1>6 DEF TypeOK, RowIds
<1>8. Progress'
  BY <1>1, <1>5 DEF IntakeInv, Progress, Acceptable
<1>9. RowsStored' /\ TemplatesKnown'
  BY <1>1 DEF IntakeInv, RowsStored, TemplatesKnown, Stored, Item, Acceptable
<1>10. FreshStored'
  <2> SUFFICES ASSUME NEW q \in Requests, NEW p \in Fresh(q)' PROVE Stored(p)'
    BY DEF FreshStored
  <2>1. CASE p \in Fresh(q)
    BY <1>1, <2>1 DEF IntakeInv, FreshStored, Stored, Item, Acceptable
  <2>2. CASE p \notin Fresh(q)
    <3>1. q = r /\ p = <<r, ThisItem(r)>> /\ p = row
      BY <1>4, <2>2
    <3>. QED
      BY <1>1, <1>2, <1>3, <3>1 DEF Stored, Item, Acceptable
  <2>. QED
    BY <2>1, <2>2
<1>. QED
  BY <1>7, <1>8, <1>9, <1>10 DEF IntakeInv

\* An INSERT that finds its key taken leaves all but that fact unchanged.
LEMMA ConflictKeeps ==
  ASSUME IntakeInv, NEW r \in Requests, InsertConflicts(r), UNCHANGED listVars
  PROVE  IntakeInv'
<1>1. /\ UNCHANGED <<rpc, body, results, rows, began, clock, templates, left, pager>>
      /\ taken' = taken \cup {r}
  BY DEF InsertConflicts, listVars
<1>2. TypeOK'
  BY <1>1 DEF IntakeInv, TypeOK
<1>3. Progress'
  BY <1>1 DEF IntakeInv, Progress, Acceptable
<1>. QED
  BY <1>1, <1>2, <1>3, RowsKept DEF IntakeInv

\* The transaction begins or ends.
LEMMA TxKeeps ==
  ASSUME IntakeInv, NEW r \in Requests, UNCHANGED listVars,
         BeginTx(r) \/ ConstraintFails(r) \/ DeadlockVictim(r) \/ AbortTx(r)
           \/ CommitTx(r) \/ CommitFails(r)
  PROVE  IntakeInv'
<1>1. /\ UNCHANGED <<body, results, taken, templates, left, pager>>
      /\ \E from, to \in RequestLabels :
           /\ rpc[r] = from /\ rpc' = [rpc EXCEPT ![r] = to]
           /\ \/ from = "begin" /\ to = "insert" /\ UNCHANGED rows
              \/ from \in {"begin", "insert"} /\ to = "failed" /\ UNCHANGED rows
              \/ from = "insert" /\ to \in {"created", "failed"} /\ rows' = rows \cup Fresh(r)
  BY DEF BeginTx, ConstraintFails, DeadlockVictim, AbortTx, CommitTx, CommitFails, Answer,
         Inserts, RequestLabels, listVars
<1>2. clock' \in Nat /\ began' \in [Requests -> 0..clock']
  <2>1. CASE BeginTx(r)
    BY <2>1 DEF BeginTx, IntakeInv, TypeOK
  <2>2. CASE UNCHANGED <<began, clock>>
    BY <2>2 DEF IntakeInv, TypeOK
  <2>. QED
    BY <2>1, <2>2 DEF ConstraintFails, DeadlockVictim, AbortTx, CommitTx, CommitFails
<1>3. Fresh(r) \subseteq RowIds /\ \A row \in Fresh(r) : row[1] = r
  BY FreshTypes DEF IntakeInv
<1>4. TypeOK'
  <2>1. rpc' \in [Requests -> RequestLabels]
    BY <1>1 DEF IntakeInv, TypeOK
  <2>2. rows' \subseteq RowIds /\ left' \subseteq rows'
    BY <1>1, <1>3 DEF IntakeInv, TypeOK
  <2>3. \A row \in rows' : rpc'[row[1]] \in {"created", "failed"}
    BY <1>1, <1>3 DEF IntakeInv, TypeOK
  <2>. QED
    BY <1>1, <1>2, <2>1, <2>2, <2>3 DEF IntakeInv, TypeOK
<1>5. Progress'
  BY <1>1 DEF IntakeInv, TypeOK, Progress, Acceptable
<1>6. FreshStored' /\ TemplatesKnown'
  BY <1>1 DEF IntakeInv, FreshStored, TemplatesKnown, Stored, Fresh, Item, Acceptable
<1>7. rows' \subseteq rows \cup Fresh(r)
  BY <1>1
<1>8. RowsStored'
  BY <1>1, <1>7 DEF IntakeInv, RowsStored, FreshStored, Stored, Item, Acceptable
<1>. QED
  BY <1>4, <1>5, <1>6, <1>8 DEF IntakeInv

LEMMA TemplateKeeps ==
  ASSUME IntakeInv, NEW t \in TemplateRequests, CreateTemplate(t), UNCHANGED listVars
  PROVE  IntakeInv'
<1>1. /\ UNCHANGED <<rpc, body, results, taken, rows, began, clock, left, pager>>
      /\ DOMAIN templates' = DOMAIN templates \cup {t.name}
  BY DEF CreateTemplate, listVars
<1>2. t.name \in Names
  BY CreateAssumption
<1>3. TypeOK'
  BY <1>1, <1>2 DEF IntakeInv, TypeOK
<1>4. Progress' /\ RowsStored' /\ FreshStored'
  BY <1>1 DEF IntakeInv, Progress, RowsStored, FreshStored, Stored, Fresh, Item, Acceptable
<1>5. TemplatesKnown'
  BY <1>1 DEF IntakeInv, TemplatesKnown
<1>. QED
  BY <1>3, <1>4, <1>5 DEF IntakeInv

LEMMA ListingKeeps ==
  ASSUME IntakeInv, ListNext
  PROVE  IntakeInv'
<1>1. UNCHANGED createVars /\ left' \subseteq rows /\ pager'.state \in {"idle", "more", "end"}
  <2> USE DEF IntakeInv, TypeOK
  <2>1. CASE ListFirstPage \/ ListNextPage
    <3>1. ASSUME NEW page, NEW q, NEW first, Answered(page, q, first)
          PROVE  pager'.state \in {"more", "end"}
      BY <3>1, Zenon DEF Answered
    <3>2. \E page, q, first : Answered(page, q, first)
      BY <2>1, Zenon DEF ListFirstPage, ListNextPage
    <3>. QED
      BY <2>1, <3>1, <3>2 DEF ListFirstPage, ListNextPage
  <2>2. ASSUME NEW row \in rows, StatusMoves(row)
        PROVE  UNCHANGED createVars /\ left' \subseteq rows /\ pager'.state \in {"idle", "more", "end"}
    BY <2>2 DEF StatusMoves
  <2>. QED
    BY <2>1, <2>2 DEF ListNext
<1>2. TypeOK'
  BY <1>1 DEF createVars, IntakeInv, TypeOK
<1>3. Progress'
  BY <1>1 DEF createVars, IntakeInv, Progress, Acceptable
<1>. QED
  BY <1>1, <1>2, <1>3, RowsKept DEF createVars, IntakeInv

LEMMA IntakeStep == IntakeInv /\ [Next]_vars => IntakeInv'
<1> SUFFICES ASSUME IntakeInv, [Next]_vars PROVE IntakeInv'
  OBVIOUS
<1>1. CASE UNCHANGED vars
  BY <1>1 DEF vars, createVars, listVars, IntakeInv, TypeOK, Progress, RowsStored, FreshStored,
              Stored, Fresh, Item, Acceptable, TemplatesKnown
<1>2. CASE CreateNext /\ UNCHANGED listVars
  BY <1>2, ReceiveKeeps, InsertKeeps, ConflictKeeps, TxKeeps, TemplateKeeps
  DEF CreateNext, RequestStep
<1>3. CASE ListNext
  BY <1>3, ListingKeeps
<1>. QED
  BY <1>1, <1>2, <1>3 DEF Next

LEMMA IntakeInvariant == Spec => []IntakeInv
BY InitIntake, IntakeStep, PTL DEF Spec

\* Type correctness of the API's side of the database, with what the handler
\* relies on: a transaction's rows are its own until it ends, and no request
\* handles more items than it has.
THEOREM IntakeTypeCorrect == Spec => []TypeOK
<1>1. IntakeInv => TypeOK
  BY DEF IntakeInv
<1>. QED
  BY <1>1, IntakeInvariant, PTL

-----------------------------------------------------------------------------
(* What is accepted can be sent *)

\* An item that passed validation has its text, or a template and a payload.
LEMMA ValidItemsHaveText ==
  ASSUME NEW item \in AnyItem, ValidateCreateItem(item), NEW all
  PROVE  BuildOutboundEnvelope(item, all).why \notin {"missing content", "empty payload"}
BY DEF ValidateCreateItem, BuildOutboundEnvelope, RenderTemplateBody, Text, Refused, HasContent,
       HasTemplate

\* The check at the API and the worker's agree: no stored row ends as one
\* without content or without the payload of its template.
THEOREM AcceptedHolds == Spec => []AcceptedCanBeSent
<1>1. IntakeInv => AcceptedCanBeSent
  <2> SUFFICES ASSUME IntakeInv, NEW row \in rows
               PROVE  BuildOutboundEnvelope(Item(row), templates).why
                        \notin {"missing content", "empty payload"}
    BY DEF AcceptedCanBeSent
  <2>1. Stored(row) /\ TypeOK
    BY DEF IntakeInv, RowsStored
  <2>2. Item(row) \in AnyItem
    BY <2>1, BodyTypes DEF Stored, Item
  <2>3. ValidateCreateItem(Item(row))
    BY <2>1 DEF Stored, Item, Acceptable
  <2>. QED
    BY <2>2, <2>3, ValidItemsHaveText
<1>. QED
  BY <1>1, IntakeInvariant, PTL

-----------------------------------------------------------------------------
(* Idempotency keys.  Rows still inside a transaction count: the unique     *)
(* index makes a second insert of a key wait for the first one's outcome,  *)
(* so that among committed and uncommitted rows together a key has one.    *)

Live(p) == p \in rows \/ \E r \in Requests : rpc[r] = "insert" /\ p \in Fresh(r)

OneLiveRow ==
  \A p, q \in RowIds : Live(p) /\ Live(q) /\ Key(p) = Key(q) /\ Key(p) # NoKey => p = q

\* What a request has noted for an item is a row with the item's key, or its own.
Named ==
  \A r \in Requests : \A i \in DOMAIN results[r] :
    /\ results[r][i] \in rows \cup Fresh(r)
    /\ IF body[r][i].key = NoKey THEN results[r][i] = <<r, i>>
                                 ELSE Key(results[r][i]) = body[r][i].key

RegistryInv == IntakeInv /\ OneLiveRow /\ Named

\* A row that is live belongs to a request whose body is fixed.
LEMMA LiveIsFixed ==
  ASSUME IntakeInv, NEW p \in RowIds, Live(p)
  PROVE  rpc[p[1]] \in {"insert", "created", "failed"}
<1>. QED
  BY FreshTypes DEF IntakeInv, TypeOK, Live

\* Steps that note nothing new for an item: the live rows are some of those
\* there were, no committed row goes, and the bodies of live rows stay.
LEMMA NothingNew ==
  ASSUME RegistryInv, UNCHANGED results, rows \subseteq rows',
         \A p \in RowIds : Live(p)' => Live(p),
         \A r \in Requests : rpc[r] # "new" => body'[r] = body[r]
  PROVE  OneLiveRow' /\ Named'
<1>1. \A p \in RowIds : Live(p) => Key(p)' = Key(p)
  <2> SUFFICES ASSUME NEW p \in RowIds, Live(p) PROVE Key(p)' = Key(p)
    OBVIOUS
  <2>1. p[1] \in Requests /\ rpc[p[1]] # "new"
    BY LiveIsFixed DEF RegistryInv, RowIds
  <2>. QED
    BY <2>1 DEF Key, Item
<1>2. OneLiveRow'
  <2> SUFFICES ASSUME NEW p \in RowIds, NEW q \in RowIds, Live(p)', Live(q)',
                      Key(p)' = Key(q)', Key(p)' # NoKey
               PROVE  p = q
    BY DEF OneLiveRow
  <2>1. Live(p) /\ Live(q)
    OBVIOUS
  <2>. QED
    BY <1>1, <2>1 DEF RegistryInv, OneLiveRow
<1>3. Named'
  <2> SUFFICES ASSUME NEW r \in Requests, NEW i \in DOMAIN results[r]
               PROVE  /\ results[r][i] \in rows' \cup Fresh(r)
                      /\ IF body'[r][i].key = NoKey THEN results[r][i] = <<r, i>>
                                                    ELSE Key(results[r][i])' = body'[r][i].key
    BY DEF Named, Fresh
  <2>1. rpc[r] # "new"
    BY DEF RegistryInv, IntakeInv, Progress
  <2>2. results[r][i] \in rows \cup Fresh(r)
    BY DEF RegistryInv, Named
  <2>3. body'[r] = body[r]
    BY <2>1
  <2>4. Key(results[r][i])' = Key(results[r][i])
    <3>1. CASE results[r][i] \in rows
      <4>1. results[r][i] \in RowIds /\ Live(results[r][i])
        BY <3>1 DEF Live, RegistryInv, IntakeInv, TypeOK
      <4>. QED
        BY <1>1, <4>1
    <3>2. CASE results[r][i] \in Fresh(r)
      <4>1. results[r][i][1] = r
        BY <3>2 DEF Fresh
      <4>. QED
        BY <2>3, <4>1 DEF Key, Item
    <3>. QED
      BY <2>2, <3>1, <3>2
  <2>. QED
    BY <2>2, <2>3, <2>4 DEF RegistryInv, Named
<1>. QED
  BY <1>2, <1>3

LEMMA ReceiveKeepsNames ==
  ASSUME RegistryInv, NEW r \in Requests, ReceiveCreate(r)
  PROVE  OneLiveRow' /\ Named'
<1>1. /\ rpc[r] = "new" /\ results[r] = <<>>
      /\ UNCHANGED <<results, rows>>
      /\ \A q \in Requests \ {r} : rpc'[q] = rpc[q] /\ body'[q] = body[q]
      /\ rpc'[r] # "insert"
  BY DEF ReceiveCreate, RegistryInv, IntakeInv, TypeOK, Progress
<1>2. \A p \in RowIds : Live(p)' => Live(p)
  BY <1>1 DEF Live, Fresh
<1>3. \A q \in Requests : rpc[q] # "new" => body'[q] = body[q]
  BY <1>1
<1>. QED
  BY <1>1, <1>2, <1>3, NothingNew

LEMMA TxKeepsNames ==
  ASSUME RegistryInv, NEW r \in Requests,
         BeginTx(r) \/ ConstraintFails(r) \/ DeadlockVictim(r) \/ AbortTx(r)
           \/ CommitTx(r) \/ CommitFails(r)
  PROVE  OneLiveRow' /\ Named'
<1>1. UNCHANGED <<body, results>> /\ rows \subseteq rows'
  BY DEF BeginTx, ConstraintFails, DeadlockVictim, AbortTx, CommitTx, CommitFails
<1>2. \A p \in RowIds : Live(p)' => Live(p)
  <2>1. CASE BeginTx(r)
    <3>1. results[r] = <<>> /\ UNCHANGED rows /\ rpc' = [rpc EXCEPT ![r] = "insert"]
      BY <2>1 DEF BeginTx, Answer, RegistryInv, IntakeInv, Progress
    <3>2. Fresh(r)' = {}
      BY <1>1, <3>1 DEF Fresh
    <3>. QED
      BY <1>1, <3>1, <3>2 DEF Live, Fresh
  <2>2. CASE ~BeginTx(r)
    <3>1. \E to \in {"created", "failed"} : rpc' = [rpc EXCEPT ![r] = to]
      BY <2>2 DEF ConstraintFails, DeadlockVictim, AbortTx, CommitTx, CommitFails, Answer
    <3>2. rows' = rows \/ (rpc[r] = "insert" /\ rows' = rows \cup Fresh(r))
      BY <2>2 DEF ConstraintFails, DeadlockVictim, AbortTx, CommitTx, CommitFails, Answer
    <3>. QED
      BY <1>1, <3>1, <3>2 DEF Live, Fresh, RegistryInv, IntakeInv, TypeOK
  <2>. QED
    BY <2>1, <2>2
<1>. QED
  BY <1>1, <1>2, NothingNew

\* Inserting adds a row whose key no live row has: r's own view holds none, and
\* no other transaction that has inserted one is still open.
LEMMA InsertKeepsNames ==
  ASSUME RegistryInv, NEW r \in Requests, InsertNotification(r) \/ FindByIdempotencyKey(r)
  PROVE  OneLiveRow' /\ Named'
<1> DEFINE new == <<r, ThisItem(r)>>
           key == body[r][ThisItem(r)].key
<1>1. /\ rpc[r] = "insert" /\ ItemsLeft(r)
      /\ UNCHANGED <<rpc, body, rows>>
  BY DEF InsertNotification, Inserts, FindByIdempotencyKey
<1>2. TypeOK /\ ThisItem(r) \in DOMAIN body[r] /\ new \in RowIds /\ new \notin rows \cup Fresh(r)
  BY <1>1, ThisItemTypes DEF RegistryInv, IntakeInv
<1>3. Key(new) = key
  BY DEF Key, Item
<1>4. PICK row \in RowIds :
        /\ results' = [results EXCEPT ![r] = Append(@, row)]
        /\ \/ row = new /\ Inserts(r) /\ Holders(r, key) = {}
           \/ row \in Holders(r, key)
  <2>1. rows \subseteq RowIds /\ Fresh(r) \subseteq RowIds
    BY <1>2, FreshTypes DEF TypeOK
  <2>. QED
    BY <1>2, <2>1 DEF InsertNotification, FindByIdempotencyKey, Holders
<1>5. /\ \A q \in Requests \ {r} : Fresh(q)' = Fresh(q)
      /\ Fresh(r)' = Fresh(r) \cup {p \in {row} : p = new}
  BY <1>2, <1>4, OneMoreResult
<1>6. \A p \in RowIds : Key(p)' = Key(p)
  BY <1>1 DEF Key, Item
<1>7. \A p \in RowIds : Live(p)' => Live(p) \/ (p = new /\ row = new)
  BY <1>1, <1>5 DEF Live
<1>8. row = new => \A p \in RowIds : Live(p) /\ Key(p) = key => key = NoKey
  <2> SUFFICES ASSUME row = new, NEW p \in RowIds, Live(p), Key(p) = key, key # NoKey PROVE FALSE
    OBVIOUS
  <2>1. Holders(r, key) = {} /\ Inserts(r)
    BY <1>2, <1>4 DEF Holders
  <2>2. p \notin rows \cup Fresh(r)
    BY <2>1 DEF Holders
  <2>3. PICK q \in Requests : rpc[q] = "insert" /\ p \in Fresh(q)
    BY <2>2 DEF Live
  <2>4. WaitsFor(r, q)
    BY <2>1, <2>2, <2>3 DEF WaitsFor, InFlight, Inserts
  <2>. QED
    BY <2>1, <2>4 DEF Waits, Inserts
<1>9. OneLiveRow'
  <2> SUFFICES ASSUME NEW p \in RowIds, NEW q \in RowIds, Live(p)', Live(q)',
                      Key(p)' = Key(q)', Key(p)' # NoKey
               PROVE  p = q
    BY DEF OneLiveRow
  <2>. QED
    BY <1>3, <1>6, <1>7, <1>8 DEF RegistryInv, OneLiveRow
<1>10. Named'
  <2> SUFFICES ASSUME NEW q \in Requests, NEW i \in DOMAIN results'[q]
               PROVE  /\ results'[q][i] \in rows \cup Fresh(q)'
                      /\ IF body[q][i].key = NoKey THEN results'[q][i] = <<q, i>>
                                                   ELSE Key(results'[q][i]) = body[q][i].key
    BY <1>1 DEF Named, Key, Item
  <2>1. CASE q # r \/ i # ThisItem(r)
    <3>1. i \in DOMAIN results[q] /\ results'[q][i] = results[q][i]
      BY <1>2, <1>4, <2>1, BodyTypes DEF TypeOK, ThisItem
    <3>2. Fresh(q) \subseteq Fresh(q)'
      BY <1>5
    <3>. QED
      BY <3>1, <3>2 DEF RegistryInv, Named
  <2>2. CASE q = r /\ i = ThisItem(r)
    <3>1. results'[r][i] = row
      BY <1>2, <1>4, <2>2, BodyTypes DEF TypeOK, ThisItem
    <3>2. row \in rows \cup Fresh(r)'
      BY <1>4, <1>5 DEF Holders
    <3>. QED
      BY <1>3, <1>4, <2>2, <3>1, <3>2 DEF Holders
  <2>. QED
    BY <2>1, <2>2
<1>. QED
  BY <1>9, <1>10

LEMMA RegistryInvariant == Spec => []RegistryInv
<1>1. Init => OneLiveRow /\ Named
  BY DEF Init, InitCreate, OneLiveRow, Named, Live, Fresh
<1>2. RegistryInv /\ [Next]_vars => OneLiveRow' /\ Named'
  <2> SUFFICES ASSUME RegistryInv, [Next]_vars PROVE OneLiveRow' /\ Named'
    OBVIOUS
  <2>1. CASE UNCHANGED <<rpc, body, results, rows>>
    <3>1. \A p \in RowIds : Live(p)' => Live(p)
      BY <2>1 DEF Live, Fresh
    <3>. QED
      BY <2>1, <3>1, NothingNew
  <2>2. CASE CreateNext
    <3>1. ASSUME NEW t \in TemplateRequests, CreateTemplate(t)
          PROVE  UNCHANGED <<rpc, body, results, rows>>
      BY <3>1 DEF CreateTemplate
    <3>2. ASSUME NEW r \in Requests, InsertConflicts(r)
          PROVE  UNCHANGED <<rpc, body, results, rows>>
      BY <3>2 DEF InsertConflicts
    <3>. QED
      BY <2>1, <2>2, <3>1, <3>2, ReceiveKeepsNames, InsertKeepsNames, TxKeepsNames
      DEF CreateNext, RequestStep
  <2>3. CASE ListNext \/ UNCHANGED vars
    BY <2>1, <2>3 DEF ListNext, ListFirstPage, ListNextPage, StatusMoves, vars, createVars
  <2>. QED
    BY <2>2, <2>3 DEF Next
<1>. QED
  BY <1>1, <1>2, IntakeInvariant, PTL DEF Spec, RegistryInv

-----------------------------------------------------------------------------
(* Refinement *)

asked == [r \in Requests |-> KeysOf(body[r])]
answer == [r \in Requests |-> AnswerOf(r)]
RegistryStep == [Promised!Next]_(Promised!vars)

\* The clients' view of a request that keeps its body and is not answered.
LEMMA NothingSeen ==
  ASSUME UNCHANGED <<body, rows>>, \A r \in Requests : AnswerOf(r)' = AnswerOf(r)
  PROVE  RegistryStep
BY DEF RegistryStep, Promised!vars

LEMMA ReceiveIsSubmit ==
  ASSUME RegistryInv, NEW r \in Requests, ReceiveCreate(r)
  PROVE  RegistryStep
<1>1. PICK items \in Bodies : body' = [body EXCEPT ![r] = items]
                              /\ rpc' = [rpc EXCEPT ![r] = IF Acceptable(items) THEN "begin" ELSE "rejected"]
  BY DEF ReceiveCreate
<1>2. /\ rpc[r] = "new" /\ body[r] = <<>> /\ UNCHANGED <<rows, results>>
      /\ rpc \in [Requests -> RequestLabels] /\ body \in [Requests -> Bodies \cup {<<>>}]
  BY DEF ReceiveCreate, RegistryInv, IntakeInv, TypeOK, Progress
<1>3. asked[r] = <<>>
  BY <1>2 DEF asked, KeysOf
<1>4. answer[r] = Promised!Pending
  BY <1>2 DEF answer, AnswerOf, Promised!Pending
<1>5. asked' = [asked EXCEPT ![r] = KeysOf(items)]
  BY <1>1, <1>2 DEF asked
<1>6. \A q \in Requests \ {r} : AnswerOf(q)' = AnswerOf(q)
  BY <1>1, <1>2 DEF AnswerOf
<1>7. AnswerOf(r)' \in {AnswerOf(r), Promised!Error}
  BY <1>1, <1>2 DEF AnswerOf, Promised!Error
<1>8. answer' \in {answer, [answer EXCEPT ![r] = Promised!Error]}
  BY <1>6, <1>7 DEF answer
<1>. QED
  BY <1>2, <1>3, <1>4, <1>5, <1>8
  DEF RegistryStep, Promised!Next, Promised!Submit, asked, answer

\* An error answer changes nothing else.
LEMMA ErrorIsRefuse ==
  ASSUME RegistryInv, NEW r \in Requests, rpc[r] \in {"begin", "insert"},
         rpc' = [rpc EXCEPT ![r] = "failed"], UNCHANGED <<body, results, rows>>
  PROVE  RegistryStep
<1>1. rpc \in [Requests -> RequestLabels]
  BY DEF RegistryInv, IntakeInv, TypeOK
<1>2. answer[r] = Promised!Pending
  BY DEF answer, AnswerOf, Promised!Pending
<1>3. answer' = [answer EXCEPT ![r] = Promised!Error]
  BY <1>1 DEF answer, AnswerOf, Promised!Error
<1>. QED
  BY <1>2, <1>3 DEF RegistryStep, Promised!Next, Promised!Refuse, asked, answer

\* A commit is the moment at which the request takes effect as a whole.
LEMMA CommitIsAccept ==
  ASSUME RegistryInv, RegistryInv', NEW r \in Requests, rpc[r] = "insert", ~ItemsLeft(r),
         rows' = rows \cup Fresh(r), UNCHANGED <<body, results>>,
         rpc' = [rpc EXCEPT ![r] = "created"] \/ rpc' = [rpc EXCEPT ![r] = "failed"]
  PROVE  RegistryStep
<1>1. rpc \in [Requests -> RequestLabels] /\ TypeOK
  BY DEF RegistryInv, IntakeInv, TypeOK
<1>2. DOMAIN results[r] = DOMAIN body[r] /\ results[r] \in Seq(RowIds)
  BY <1>1, BodyTypes DEF ItemsLeft, ThisItem
<1>3. asked[r] = KeysOf(body[r]) /\ DOMAIN asked[r] = DOMAIN body[r]
  BY DEF asked, KeysOf
<1>4. Promised!Own(r) = {<<r, i>> : i \in DOMAIN body[r]}
  BY <1>3 DEF Promised!Own, asked
<1>5. Fresh(r) \subseteq Promised!Own(r)
  BY <1>1, <1>4, FreshTypes, <1>2 DEF Fresh
<1>6. \A p \in rows \cup Fresh(r) : Promised!Key(p) = Key(p) /\ p \in RowIds
  <2> SUFFICES ASSUME NEW p \in rows \cup Fresh(r) PROVE Promised!Key(p) = Key(p) /\ p \in RowIds
    OBVIOUS
  <2>1. p \in RowIds /\ p[1] \in Requests /\ p[2] \in DOMAIN body[p[1]]
    BY <1>1, FreshTypes DEF RegistryInv, IntakeInv, TypeOK, RowsStored, Stored
  <2>. QED
    BY <2>1 DEF Promised!Key, Key, Item, asked, KeysOf
<1>7. results[r] \in Promised!Namings(r)
  <2>1. results[r] \in [DOMAIN body[r] -> rows \cup Promised!Own(r)]
    BY <1>2, <1>5 DEF RegistryInv, Named
  <2>2. ASSUME NEW i \in DOMAIN body[r]
        PROVE  IF body[r][i].key = NoKey THEN results[r][i] = <<r, i>>
                 ELSE Promised!Key(results[r][i]) = body[r][i].key
    BY <1>2, <1>6 DEF RegistryInv, Named
  <2>. QED
    BY <1>3, <2>1, <2>2 DEF Promised!Namings, asked, KeysOf
<1>8. rows' = rows \cup {results[r][i] : i \in DOMAIN results[r]}
  <2>1. \A i \in DOMAIN results[r] : results[r][i] \in rows \cup Fresh(r)
    BY DEF RegistryInv, Named
  <2>2. Fresh(r) \subseteq {results[r][i] : i \in DOMAIN results[r]}
    BY DEF Fresh
  <2>. QED
    BY <2>1, <2>2
<1>9. Promised!OneRowPerKey(rows')
  <2> SUFFICES ASSUME NEW p \in rows', NEW q \in rows',
                      Promised!Key(p) = Promised!Key(q), Promised!Key(p) # NoKey
               PROVE  p = q
    BY DEF Promised!OneRowPerKey
  <2>1. Key(p) = Key(q) /\ Key(p) # NoKey /\ p \in RowIds /\ q \in RowIds
    BY <1>6
  <2>2. Live(p) /\ Live(q)
    BY DEF Live
  <2>. QED
    BY <2>1, <2>2 DEF RegistryInv, OneLiveRow
<1>10. answer[r] = Promised!Pending
  BY DEF answer, AnswerOf, Promised!Pending
<1>11. \/ answer' = [answer EXCEPT ![r] = Promised!Created(results[r])]
       \/ answer' = [answer EXCEPT ![r] = Promised!Error]
  <2>1. \A q \in Requests \ {r} : AnswerOf(q)' = AnswerOf(q)
    BY <1>1 DEF AnswerOf
  <2>2. CASE rpc' = [rpc EXCEPT ![r] = "created"]
    BY <1>1, <2>1, <2>2 DEF answer, AnswerOf, Promised!Created
  <2>3. CASE rpc' = [rpc EXCEPT ![r] = "failed"]
    BY <1>1, <2>1, <2>3 DEF answer, AnswerOf, Promised!Error
  <2>. QED
    BY <2>2, <2>3
<1>12. UNCHANGED asked
  BY DEF asked
<1>13. Promised!Accept(r)
  BY <1>7, <1>8, <1>9, <1>10, <1>11, <1>12 DEF Promised!Accept, asked, answer
<1>. QED
  BY <1>13 DEF RegistryStep, Promised!Next

LEMMA StepIsRegistered ==
  ASSUME RegistryInv, RegistryInv', [Next]_vars
  PROVE  RegistryStep
<1>1. rpc \in [Requests -> RequestLabels]
  BY DEF RegistryInv, IntakeInv, TypeOK
<1>2. CASE UNCHANGED <<rpc, body, results, rows>>
  BY <1>2, NothingSeen DEF AnswerOf
<1>3. ASSUME NEW r \in Requests, ReceiveCreate(r) PROVE RegistryStep
  BY <1>3, ReceiveIsSubmit
<1>4. ASSUME NEW r \in Requests, BeginTx(r) PROVE RegistryStep
  BY <1>1, <1>4, NothingSeen DEF BeginTx, Answer, AnswerOf
<1>5. ASSUME NEW r \in Requests, InsertNotification(r) \/ FindByIdempotencyKey(r) PROVE RegistryStep
  <2>1. rpc[r] = "insert" /\ UNCHANGED <<rpc, body, rows>>
        /\ \A q \in Requests \ {r} : results'[q] = results[q]
    BY <1>5 DEF InsertNotification, Inserts, FindByIdempotencyKey, RegistryInv, IntakeInv, TypeOK
  <2>. QED
    BY <2>1, NothingSeen DEF AnswerOf
<1>6. ASSUME NEW r \in Requests, ConstraintFails(r) \/ DeadlockVictim(r) \/ AbortTx(r)
      PROVE  RegistryStep
  BY <1>6, ErrorIsRefuse DEF ConstraintFails, DeadlockVictim, AbortTx, Answer
<1>7. ASSUME NEW r \in Requests, CommitTx(r) \/ CommitFails(r) PROVE RegistryStep
  BY <1>7, ErrorIsRefuse, CommitIsAccept DEF CommitTx, CommitFails, Answer
<1>8. ASSUME \/ \E r \in Requests : InsertConflicts(r)
             \/ \E t \in TemplateRequests : CreateTemplate(t)
             \/ ListNext \/ UNCHANGED vars
      PROVE  UNCHANGED <<rpc, body, results, rows>>
  BY <1>8 DEF InsertConflicts, CreateTemplate, ListNext, ListFirstPage, ListNextPage, StatusMoves, vars,
               createVars
<1>. QED
  BY <1>2, <1>3, <1>4, <1>5, <1>6, <1>7, <1>8 DEF Next, CreateNext, RequestStep

\* Refinement: for any number of concurrent requests with any keys in any order,
\* deadlocks, aborted transactions and lost commit answers included, what the
\* clients see is a behaviour of Registry, where requests take effect whole.
THEOREM RegistryHolds == Spec => RegistryImplemented
<1>1. Init => Promised!Init
  <2> SUFFICES ASSUME Init PROVE Promised!Init
    OBVIOUS
  <2>1. \A r \in Requests : KeysOf(body[r]) = <<>> /\ AnswerOf(r) = Promised!Pending
    BY DEF Init, InitCreate, KeysOf, AnswerOf, Promised!Pending
  <2>. QED
    BY <2>1 DEF Init, InitCreate, Promised!Init
<1>2. RegistryInv /\ RegistryInv' /\ [Next]_vars => [Promised!Next]_(Promised!vars)
  BY StepIsRegistered DEF RegistryStep
<1>. QED
  BY <1>1, <1>2, RegistryInvariant, PTL DEF Spec, RegistryImplemented, Promised!Spec
=============================================================================
