------------------------------- MODULE ScoreSettle -------------------------------
(***************************************************************************)
(* The end of a scoring job (src/AtamuraOKK/scoring/worker.py): one        *)
(* transaction writes the score, turns the speaker labels of the           *)
(* transcript round when the scorer found the manager on the customer's    *)
(* side, and tells the manager of a cash buyer.  Several jobs of one call  *)
(* may be on their way at once, and a job may die at any step.             *)
(***************************************************************************)
EXTENDS Integers, FiniteSets

CONSTANTS
  ScoreJobs,      (* job slots, realtime or batch *)
  MaxJobDeaths    (* bound: jobs that die, and notices whose answer is lost *)

ASSUME SettleAssumption == MaxJobDeaths \in Nat

VARIABLES
  callStatus,   (* the call: "TRANSCRIBED", "SCORING", "SCORED", "FAILED" *)
  scoreJob,     (* what each job knows of the call *)
  scoreRow,     (* the row of scores: "none", "silent" or "notified" (notified_at) *)
  transcript,   (* whether the labels are right, and manager_side_applied *)
  alerts,       (* ghost: notices the manager got *)
  jobDeaths

settleVars == <<callStatus, scoreJob, scoreRow, transcript, alerts, jobDeaths>>

NoJob == [pc |-> "idle", side |-> "unknown", cash |-> FALSE, told |-> FALSE]

SettleInit ==
  /\ callStatus = "TRANSCRIBED" /\ scoreJob = [j \in ScoreJobs |-> NoJob] /\ scoreRow = "none"
  /\ transcript \in [right : BOOLEAN, applied : {FALSE}]
  /\ alerts = 0 /\ jobDeaths = 0

(* Claims, stale reverts, retries and the relabel backfill move the status. *)
StatusMoves ==
  /\ \/ callStatus = "TRANSCRIBED" /\ callStatus' = "SCORING"
     \/ callStatus # "TRANSCRIBED" /\ callStatus' = "TRANSCRIBED"
  /\ UNCHANGED <<scoreJob, scoreRow, transcript, alerts, jobDeaths>>

JobReads(j) ==
  /\ scoreJob[j].pc = "idle" /\ callStatus = "SCORING"
  /\ \E side \in {"unknown", IF transcript.right THEN "A" ELSE "B"}, cash \in BOOLEAN :
       scoreJob' = [scoreJob EXCEPT ![j] = [NoJob EXCEPT !.pc = "scored", !.side = side, !.cash = cash]]
  /\ UNCHANGED <<callStatus, scoreRow, transcript, alerts, jobDeaths>>

JobVerifies(j) ==
  /\ scoreJob[j].pc = "scored"
  /\ scoreJob' = [scoreJob EXCEPT ![j] =
       IF callStatus = "SCORING" THEN [@ EXCEPT !.pc = "verified"] ELSE NoJob]
  /\ UNCHANGED <<callStatus, scoreRow, transcript, alerts, jobDeaths>>

(* mutant: the row is looked up before the upsert takes its lock *)
RowUnlocked(j) == TRUE

(* The upsert holds the row of the score until the end of the transaction. *)
RowFree(j) == \A other \in ScoreJobs : scoreJob[other].pc # "upserted"

JobUpserts(j) ==
  /\ scoreJob[j].pc = "verified" /\ RowFree(j)
  /\ scoreJob' = [scoreJob EXCEPT ![j].pc = "upserted"]
  /\ UNCHANGED <<callStatus, scoreRow, transcript, alerts, jobDeaths>>

(* maybe_notify_cash_buyer: sent before it is recorded; an error is swallowed. *)
JobNotifies(j) ==
  /\ scoreJob[j].pc = "upserted" /\ scoreJob[j].cash /\ ~scoreJob[j].told /\ scoreRow # "notified"
  /\ \E delivered, answered \in BOOLEAN :
       /\ answered => delivered
       /\ answered \/ jobDeaths < MaxJobDeaths
       /\ alerts' = alerts + IF delivered THEN 1 ELSE 0
       /\ jobDeaths' = jobDeaths + IF answered THEN 0 ELSE 1
       /\ scoreJob' = [scoreJob EXCEPT ![j] = [@ EXCEPT !.told = answered, !.cash = answered]]
  /\ UNCHANGED <<callStatus, scoreRow, transcript>>

(* mutant: the labels are turned on the scorer's word alone *)
TurnedAgain(side) ==
  IF side = "unknown" THEN transcript
  ELSE [right |-> (side = "B") # transcript.right, applied |-> TRUE]

(* _reconcile_transcript_labels, on the transcript as the transaction finds it. *)
Reconciled(side) ==
  IF side = "unknown" \/ transcript.applied THEN transcript
  ELSE [right |-> (side = "B") # transcript.right, applied |-> TRUE]

JobCommits(j) ==
  /\ scoreJob[j].pc = "upserted"
  /\ scoreJob[j].cash => scoreJob[j].told \/ scoreRow = "notified"
  /\ callStatus' = "SCORED"
  /\ scoreRow' = IF scoreJob[j].told \/ scoreRow = "notified" THEN "notified" ELSE "silent"
  /\ transcript' = Reconciled(scoreJob[j].side)
  /\ scoreJob' = [scoreJob EXCEPT ![j] = NoJob]
  /\ UNCHANGED <<alerts, jobDeaths>>

(* The scorer fails, or its answer misses a criterion: _assemble raises. *)
JobFails(j) ==
  /\ scoreJob[j].pc = "verified"
  /\ callStatus' = "FAILED" /\ scoreJob' = [scoreJob EXCEPT ![j] = NoJob]
  /\ UNCHANGED <<scoreRow, transcript, alerts, jobDeaths>>

(* The transaction is rolled back, whatever was sent. *)
JobDies(j) ==
  /\ scoreJob[j].pc # "idle" /\ jobDeaths < MaxJobDeaths
  /\ scoreJob' = [scoreJob EXCEPT ![j] = NoJob] /\ jobDeaths' = jobDeaths + 1
  /\ UNCHANGED <<callStatus, scoreRow, transcript, alerts>>

SettleNext ==
  \/ StatusMoves
  \/ \E j \in ScoreJobs :
       \/ JobReads(j) \/ JobVerifies(j) \/ JobUpserts(j) \/ JobNotifies(j)
       \/ JobCommits(j) \/ JobFails(j) \/ JobDies(j)

SettleSpec == SettleInit /\ [][SettleNext]_settleVars

-----------------------------------------------------------------------------
(* maybe_notify_cash_buyer: "Idempotent via scores.notified_at (survives         *)
(* re-score upserts)".  However many jobs of a call end at once and however      *)
(* often it is scored again, its manager is told once, and once more only for    *)
(* each job that died, or whose answer was lost, after it had sent the notice.   *)
AlertedOnce == alerts <= 1 + jobDeaths

(* "so a re-score never double-flips": once the labels are settled the agent is  *)
(* the manager, though a job may have read the transcript before another turned  *)
(* it and settle after.                                                          *)
LabelsSettled == transcript.applied => transcript.right
===============================================================================
