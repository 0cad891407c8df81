----------------------------- MODULE MCAuditOverlap -----------------------------
(* Two passes that come one after the other, on either route, where anything *)
(* may fail; or that overlap, where nothing fails and both deals are for the *)
(* judge, who is not off.                                                    *)
EXTENDS MCAudit

VARIABLE apart  (* whether the passes come one after the other *)

Interchangeable == Permutations(Passes) \cup Permutations(Slots)

MCInit == Init /\ apart \in BOOLEAN /\ (~apart => route = Judged)
MCNext ==
  /\ Next /\ UNCHANGED apart
  /\ \/ apart /\ \A p, q \in Passes : p # q => pass'[p] = Idle \/ pass'[q] = Idle
     \/ ~apart /\ failures' = 0 /\ \A p \in Passes : pass'[p] # Idle => pass'[p].mode # "off"
MCSpec == MCInit /\ [][MCNext]_<<vars, apart>>
===============================================================================
