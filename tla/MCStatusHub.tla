---------------------------- MODULE MCStatusHub -----------------------------
(* StatusHub for TLC: one notification in a batch and one outside. *)
EXTENDS StatusHub

CONSTANTS n1, n2, b1, c1, c2

MCNotifs == {n1, n2}
MCBatches == {b1}
MCBatchOf == [n \in MCNotifs |-> IF n = n1 THEN b1 ELSE None]
MCStream == <<n1, n2, n1>>
MCConns == {c1, c2}
MCFilter == [c \in MCConns |-> IF c = c1 THEN {n1, b1} ELSE {n1}]
=============================================================================
