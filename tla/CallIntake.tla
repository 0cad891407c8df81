------------------------------- MODULE CallIntake -------------------------------
(***************************************************************************)
(* What ingestion promises, with no cursor, pages or passes: a recorded    *)
(* call is taken in at some time and for good.                             *)
(***************************************************************************)
CONSTANT Calls

VARIABLES
  recorded,   (* the calls Bitrix lists with a recording *)
  taken       (* the calls the database holds *)

ivars == <<recorded, taken>>

Init == taken = {} /\ recorded \subseteq Calls

TakeIn(S) == S # {} /\ taken' = taken \cup S /\ UNCHANGED recorded

(* A tick of time records any number of calls at once. *)
RecordSome == recorded \subseteq recorded' /\ recorded' \subseteq Calls /\ UNCHANGED taken

Next == RecordSome \/ \E S \in SUBSET recorded : TakeIn(S)

Spec == Init /\ [][Next]_ivars
===============================================================================
