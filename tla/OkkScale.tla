--------------------------------- MODULE OkkScale ---------------------------------
(***************************************************************************)
(* The arithmetic of a call's score: what the scorer's verdicts add up to  *)
(* (scoring/worker.py _assemble), what an appeal makes of it               *)
(* (scoring/recompute.py), and the scales a percent is shown on            *)
(* (scoring/rubric.py, web/api/v1/okk.py).  A percent is a number of       *)
(* hundredths, as the two decimals the code keeps.                         *)
(***************************************************************************)
EXTENDS Integers, FiniteSetsExt, Functions

CONSTANTS
  Criteria,            (* the elements of the rubric *)
  NaAllowed,           (* those the sheet lets be "not applicable" *)
  ObjectionCriteria    (* the block that drops out when the client objected to nothing *)

NoPercent == -1

(* round(100 * part / whole, 2), for the small denominators of a rubric *)
Hundredths(part, whole) == (20000 * part + whole) \div (2 * whole)

(* What the scorer must have answered for the call to be scored at all. *)
Exercised(objections) == IF objections THEN Criteria ELSE Criteria \ ObjectionCriteria
Omitted(answer, objections) == Exercised(objections) \ (DOMAIN answer \cup NaAllowed)

(* One entry per element that applies: "yes" is 1 of 1, anything else 0 of 1. *)
PerCriterion(answer, objections) ==
  [c \in {x \in Exercised(objections) \cap DOMAIN answer :
            x \in NaAllowed => answer[x] # "na"}
     |-> [score |-> IF answer[c] = "yes" THEN 1 ELSE 0, max |-> 1]]

(* What the columns of a breakdown hold: marks within their maximum. *)
WellMarked(entries) ==
  /\ IsFiniteSet(DOMAIN entries)
  /\ entries \in [DOMAIN entries -> [score : Nat, max : Nat \ {0}]]
  /\ \A c \in DOMAIN entries : entries[c].score <= entries[c].max

PointsOf(entries) == SumFunctionOnSet([c \in DOMAIN entries |-> entries[c].score], DOMAIN entries)
MaxOf(entries) == SumFunctionOnSet([c \in DOMAIN entries |-> entries[c].max], DOMAIN entries)
AssembledPercent(entries) ==
  IF DOMAIN entries = {} THEN 0 ELSE Hundredths(PointsOf(entries), MaxOf(entries))

(* mutant: a confirmed element of a weighted rubric is worth one point *)
AwardOne(entries, confirmed) ==
  [c \in DOMAIN entries |->
     IF c \in confirmed THEN [entries[c] EXCEPT !.score = 1] ELSE entries[c]]

(* A confirmed element is shown and counted at its full marks. *)
Awarded(entries, confirmed) ==
  [c \in DOMAIN entries |->
     IF c \in confirmed THEN [entries[c] EXCEPT !.score = entries[c].max] ELSE entries[c]]

IsBinary(entries) == \A c \in DOMAIN entries : entries[c].max = 1

(* recompute_percent: yes over applicable, or points over maximum for an older rubric. *)
RecomputedPercent(entries, confirmed) ==
  LET yes == {c \in DOMAIN entries : c \in confirmed \/ entries[c].score >= 1}
  IN IF DOMAIN entries = {} THEN 0
     ELSE IF IsBinary(entries) THEN Hundredths(Cardinality(yes), Cardinality(DOMAIN entries))
     ELSE Hundredths(PointsOf(Awarded(entries, confirmed)), MaxOf(entries))

(* The zones of the rubric file. *)
ZoneFor(percent) ==
  IF percent = NoPercent THEN "none"
  ELSE IF percent >= 8500 THEN "strong"
  ELSE IF percent >= 8000 THEN "normal"
  ELSE IF percent >= 7500 THEN "borderline"
  ELSE "risk"

(* The 1-5 modifier of the bonus, 0 for none. *)
Okk5(percent) ==
  IF percent = NoPercent THEN 0
  ELSE IF percent >= 9000 THEN 5
  ELSE IF percent >= 8500 THEN 4
  ELSE IF percent >= 8000 THEN 3
  ELSE IF percent >= 7500 THEN 2
  ELSE 1

(* A mean is shown to a tenth.  ROUND(AVG(percent), 1) of PostgreSQL is exact and  *)
(* takes a mean halfway between two tenths up; round(sum / n, 1) of Python takes it *)
(* where the binary quotient falls (86.25 is shown as 86.2).                        *)
SqlMean(total, n) == IF n = 0 THEN NoPercent ELSE ((2 * total + 10 * n) \div (20 * n)) * 10
Halfway(total, n) == n # 0 /\ (2 * total) % (20 * n) = 10 * n
PythonMean(total, n, up) ==
  IF Halfway(total, n) /\ ~up THEN SqlMean(total, n) - 10 ELSE SqlMean(total, n)
===============================================================================
