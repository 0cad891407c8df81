------------------------------ MODULE MeetingBoard ------------------------------
(***************************************************************************)
(* What the meeting pipeline promises the companion cabinet, with no       *)
(* stages, attempts or passes: a recording is judged again and again, and  *)
(* what the cabinet shows of it is a verdict that was given, never an      *)
(* older one than it showed before.                                        *)
(***************************************************************************)
EXTENDS Integers

CONSTANT Files

VARIABLES
  judged,   (* how often each recording has been judged *)
  shown     (* which of its verdicts the cabinet shows; 0 for none *)

bvars == <<judged, shown>>

Init == judged = [f \in Files |-> 0] /\ shown = [f \in Files |-> 0]

Judge(f) == judged' = [judged EXCEPT ![f] = @ + 1] /\ UNCHANGED shown

Show ==
  /\ shown' \in [Files -> Nat]
  /\ \A f \in Files : shown[f] <= shown'[f] /\ shown'[f] <= judged[f]
  /\ UNCHANGED judged

Next == Show \/ \E f \in Files : Judge(f)

Spec == Init /\ [][Next]_bvars
===============================================================================
