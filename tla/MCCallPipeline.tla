---------------------------- MODULE MCCallPipeline ----------------------------
(* CallPipeline on small instances.  One tick stands for a few minutes: the *)
(* download and score TTLs are equal in the settings, transcription's is    *)
(* longer, and the margin is shorter than all three.                        *)
EXTENDS CallPipeline, TLC

ShortTTL == [s \in Stages |-> IF s = "transcribe" THEN 3 ELSE 2]
EvenTTL  == [s \in Stages |-> 2]
Symmetry == Permutations(Calls) \cup Permutations(Workers)

(* An old call has used up its attempts and lies among the FAILED rows. *)
LetterInit ==
  \E old \in Calls :
    /\ old = CHOOSE c \in Calls : TRUE
    /\ analyzable \in {Calls, {old}}
    /\ status = [c \in Calls |-> IF c = old THEN "FAILED" ELSE IF c \in analyzable THEN "NEW" ELSE "SKIPPED"]
    /\ attempts = [c \in Calls |-> IF c = old THEN MaxRetries ELSE 0]
    /\ claimAge = [c \in Calls |-> NoClaim] /\ artifacts = [c \in Calls |-> {}]
    /\ olderFailed = {} /\ today = Calls /\ pending = {}
    /\ queued = [s \in Stages |-> [c \in Calls |-> 0]]
    /\ job = [w \in Workers |-> IdleJob] /\ retryPlan = [c \in Calls |-> "none"] /\ losses = 0
LetterSpec == LetterInit /\ [][Next]_vars /\ Fairness
===============================================================================
