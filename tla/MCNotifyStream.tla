--------------------------- MODULE MCNotifyStream ---------------------------
(* NotifyStream for TLC: the symmetry of the runs that check safety. *)
EXTENDS NotifyStream, TLC

\* Consumers are interchangeable, and so are scheduler replicas.
Symmetry == Permutations(Consumers) \cup Permutations(Runners)
=============================================================================
