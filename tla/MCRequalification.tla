--------------------------- MODULE MCRequalification --------------------------
(* Requalification beside the pipeline on one call that nothing is lost of: *)
(* the claims, jobs and reverts of two slots between the pass's read and    *)
(* its write; one tick of TTL tells a stale claim from a fresh one.         *)
EXTENDS Requalification, TLC

QuickTTL == [s \in Stages |-> 1]
Symmetry == Permutations(Workers)
===============================================================================
