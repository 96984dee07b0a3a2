------------------------------ MODULE Registry ------------------------------
(***************************************************************************)
(* What POST /v1/notifications promises of idempotency keys to clients that *)
(* may send the same key at the same time, in several requests, in any     *)
(* order: each request takes effect at one moment and as a whole, or not   *)
(* at all.  No transaction, lock or wait appears here.                     *)
(*                                                                         *)
(* A row is <<r, i>> when item i of request r is the one that inserted it. *)
(***************************************************************************)
EXTENDS Naturals, Sequences

CONSTANTS
  Requests,
  Orders,   \* what a request may ask for: sequences of idempotency keys
  NoKey     \* the key of an item without one

VARIABLES
  asked,    \* the keys of each request's items; <<>> before it is sent
  answer,   \* what each request was answered
  rows      \* the rows that exist

vars == <<asked, answer, rows>>

Pending == [code |-> "none", rows |-> <<>>]
Error == [code |-> "error", rows |-> <<>>]
Created(named) == [code |-> "created", rows |-> named]

Key(row) == asked[row[1]][row[2]]
Own(r) == {<<r, i>> : i \in DOMAIN asked[r]}

Init ==
  /\ asked = [r \in Requests |-> <<>>]
  /\ answer = [r \in Requests |-> Pending]
  /\ rows = {}

\* A request is taken in, or refused at once.
Submit(r) ==
  /\ asked[r] = <<>> /\ answer[r] = Pending
  /\ \E keys \in Orders : asked' = [asked EXCEPT ![r] = keys]
  /\ answer' \in {answer, [answer EXCEPT ![r] = Error]}
  /\ UNCHANGED rows

\* The rows that may be named for the items of r: for each item a row with its
\* key, and a row of its own for an item without one.
Namings(r) ==
  {named \in [DOMAIN asked[r] -> rows \cup Own(r)] :
     \A i \in DOMAIN asked[r] :
       IF asked[r][i] = NoKey THEN named[i] = <<r, i>> ELSE Key(named[i]) = asked[r][i]}

OneRowPerKey(S) == \A p, q \in S : Key(p) = Key(q) /\ Key(p) # NoKey => p = q

\* All rows of r come to exist at once.  The answer names the row of each item,
\* or the client learns nothing of it.
Accept(r) ==
  /\ answer[r] = Pending
  /\ \E named \in Namings(r) :
       /\ rows' = rows \cup {named[i] : i \in DOMAIN named}
       /\ OneRowPerKey(rows')
       /\ \/ answer' = [answer EXCEPT ![r] = Created(named)]
          \/ answer' = [answer EXCEPT ![r] = Error]
  /\ UNCHANGED asked

Refuse(r) ==
  /\ answer[r] = Pending
  /\ answer' = [answer EXCEPT ![r] = Error]
  /\ UNCHANGED <<asked, rows>>

Next == \E r \in Requests : Submit(r) \/ Accept(r) \/ Refuse(r)

Spec == Init /\ [][Next]_vars
=============================================================================
