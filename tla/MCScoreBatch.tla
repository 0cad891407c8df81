------------------------------ MODULE MCScoreBatch -----------------------------
(* ScoreBatch on small instances: the batches are few because their names are *)
(* used again, and one tick of TTL tells a stale claim from a fresh one.      *)
EXTENDS ScoreBatch, TLC

QuickTTL == [s \in Stages |-> 1]
Symmetry == Permutations(Calls) \cup Permutations(Batches)
===============================================================================
