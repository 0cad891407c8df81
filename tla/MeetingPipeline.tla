--------------------------- MODULE MeetingPipeline ---------------------------
(***************************************************************************)
(* The pipeline of recorded meetings (src/AtamuraOKK/scoring/meetings):    *)
(* Disk scan, download, transcription, scoring and push, kept as a status  *)
(* column in a SQLite file.  One process runs the passes (the scheduler's  *)
(* job is max_instances=1); the retry job interleaves with it at its       *)
(* awaits, and an operator's `rescore` is another process on the same      *)
(* file.  A stage claims rows with a plain SELECT and writes each by its   *)
(* primary key when its work is done: nothing marks a claimed row.         *)
(***************************************************************************)
EXTENDS Integers, FiniteSets

CONSTANTS
  NFiles,        (* recordings 1..NFiles, oldest meeting first *)
  BatchLimit,    (* meetings_batch_limit: rows one stage claims in a pass *)
  MaxAttempts,   (* meetings_max_attempts *)
  MaxVerdicts,   (* bound: times one recording is scored *)
  MaxStops       (* bound: times the process stops in the middle of a pass *)

Files == 1..NFiles

ASSUME MeetingAssumption ==
  /\ {NFiles, BatchLimit, MaxAttempts, MaxVerdicts} \subseteq Nat \ {0} /\ MaxStops \in Nat

VARIABLES
  uploaded,   (* recordings in the "ОП" folder of the Bitrix disk *)
  row,        (* the recordings table of meetings.db *)
  meetings,   (* the meetings table of Postgres: the verdict it holds, 0 for none *)
  given,      (* verdicts given so far, so that each has a number of its own *)
  job,        (* the running pass, with the rows its stage has claimed *)
  overtaken,  (* recordings rescored while their old verdict was being pushed *)
  stops

vars == <<uploaded, row, meetings, given, job, overtaken, stops>>

Statuses == {"none", "NEW", "DOWNLOADED", "TRANSCRIBED", "SCORED", "SKIPPED", "FAILED"}
Stages == {"idle", "ingest", "download", "transcribe", "score", "push", "mark", "count"}
Verdicts == 0..MaxVerdicts

NoRow == [status |-> "none", attempts |-> 0, audio |-> FALSE, transcript |-> FALSE,
          verdict |-> 0, pushed |-> FALSE]
Idle == [stage |-> "idle", claimed |-> FALSE, batch |-> {}, drain |-> FALSE,
         payload |-> [f \in Files |-> 0], moved |-> FALSE, stalled |-> 0]

Init ==
  /\ uploaded = {} /\ row = [f \in Files |-> NoRow] /\ job = Idle /\ stops = 0
  /\ meetings = [f \in Files |-> 0] /\ given = [f \in Files |-> 0] /\ overtaken = {}

-----------------------------------------------------------------------------
(* The store: each operator is one UPDATE, committed at once. *)

Downloaded(r) == [r EXCEPT !.status = "DOWNLOADED", !.audio = TRUE]
Transcribed(r) == [r EXCEPT !.status = "TRANSCRIBED", !.transcript = TRUE]
Scored(r, v) == [r EXCEPT !.status = "SCORED", !.verdict = v]
Skipped(r) == [r EXCEPT !.status = "SKIPPED"]

(* mutant: the row is dead-lettered only when the counter is past the maximum *)
BumpedPast(r) ==
  [r EXCEPT !.attempts = @ + 1,
            !.status = IF r.attempts > MaxAttempts THEN "FAILED" ELSE @]

(* bump_attempt: a row that has failed too often is dead-lettered; the counter *)
(* spans all stages.                                                           *)
Bumped(r) ==
  [r EXCEPT !.attempts = @ + 1,
            !.status = IF r.attempts + 1 >= MaxAttempts THEN "FAILED" ELSE @]

(* mutant: a retried row resumes with its audio, transcribed or not *)
ReopenedAtAudio(r) ==
  [r EXCEPT !.attempts = 0,
            !.status = CASE r.audio -> "DOWNLOADED"
                         [] OTHER -> "NEW"]

(* reset_failed: the row resumes at the furthest stage its data supports. *)
Reopened(r) ==
  [r EXCEPT !.attempts = 0,
            !.status = CASE r.transcript -> "TRANSCRIBED"
                         [] ~r.transcript /\ r.audio -> "DOWNLOADED"
                         [] OTHER -> "NEW"]

(* mutant: pushed_at survives *)
RescoredPushed(r) == [r EXCEPT !.status = "TRANSCRIBED", !.attempts = 0, !.verdict = 0]

(* reset_for_rescore *)
Rescored(r) ==
  [r EXCEPT !.status = "TRANSCRIBED", !.attempts = 0, !.verdict = 0, !.pushed = FALSE]

(* upsert_new: a known row keeps its progress. *)
Upserted(r) == IF r.status = "none" THEN [NoRow EXCEPT !.status = "NEW"] ELSE r

(* claim and claim_unpushed: what a stage takes up, oldest meeting first. *)
Takes(stage, r) ==
  CASE stage = "download" -> r.status = "NEW"
    [] stage = "transcribe" -> r.status = "DOWNLOADED"
    [] stage = "score" -> r.status = "TRANSCRIBED"
    [] stage = "push" -> r.status = "SCORED" /\ ~r.pushed
Claim(stage) ==
  LET due == {f \in Files : Takes(stage, row[f])}
  IN {f \in due : Cardinality({g \in due : g <= f}) <= BatchLimit}

-----------------------------------------------------------------------------
(* The pass: run_pipeline, or drain_pipeline, which scans once and then repeats *)
(* the other stages.                                                            *)

After(stage) ==
  CASE stage = "download" -> "transcribe"
    [] stage = "transcribe" -> "score"
    [] stage = "score" -> "push"
    [] stage \in {"push", "mark"} -> IF job.drain THEN "count" ELSE "idle"

Without(f) == [job EXCEPT !.batch = @ \ {f}]
Advanced(f) == [Without(f) EXCEPT !.moved = job.drain]
In(stage, f) == /\ job.stage = stage /\ job.claimed
                /\ f \in job.batch /\ \A g \in job.batch : f <= g

Upload(f) ==
  /\ f \notin uploaded
  /\ uploaded' = uploaded \cup {f}
  /\ UNCHANGED <<row, meetings, given, job, overtaken, stops>>

PassStarts(drain) ==
  /\ job.stage = "idle"
  /\ job' = [Idle EXCEPT !.stage = "ingest", !.drain = drain]
  /\ UNCHANGED <<uploaded, row, meetings, given, overtaken, stops>>

(* ingest_recordings: a scan that fails in the middle ends the pass. *)
Ingest(seen) ==
  /\ job.stage = "ingest"
  /\ row' = [f \in Files |-> IF f \in seen THEN Upserted(row[f]) ELSE row[f]]
  /\ job' = IF seen = uploaded THEN [job EXCEPT !.stage = "download"] ELSE Idle
  /\ UNCHANGED <<uploaded, meetings, given, overtaken, stops>>

StageClaims ==
  /\ job.stage \in {"download", "transcribe", "score", "push"} /\ ~job.claimed
  /\ job' = [job EXCEPT !.claimed = TRUE, !.batch = Claim(job.stage),
               !.payload = [f \in Files |-> IF job.stage = "push" /\ Takes("push", row[f])
                                            THEN row[f].verdict ELSE 0]]
  /\ UNCHANGED <<uploaded, row, meetings, given, overtaken, stops>>

StageEnds ==
  /\ job.stage \in {"download", "transcribe", "score", "push", "mark"}
  /\ job.claimed /\ job.batch = {}
  /\ job' = [job EXCEPT !.stage = After(job.stage), !.claimed = FALSE,
                        !.payload = Idle.payload]
  /\ UNCHANGED <<uploaded, row, meetings, given, overtaken, stops>>

(* download_pending for one row: kept, too short, or failed. *)
Download(f) ==
  /\ In("download", f)
  /\ \/ row' = [row EXCEPT ![f] = Downloaded(@)] /\ job' = Advanced(f)
     \/ row' = [row EXCEPT ![f] = Skipped(@)] /\ job' = Without(f)
     \/ row' = [row EXCEPT ![f] = Bumped(@)] /\ job' = Without(f)
  /\ UNCHANGED <<uploaded, meetings, given, overtaken, stops>>

(* transcribe_pending: the claimed rows are transcribed at the same time. *)
Transcribe(f) ==
  /\ job.stage = "transcribe" /\ job.claimed /\ f \in job.batch
  /\ \/ /\ row[f].audio
        /\ row' = [row EXCEPT ![f] = Transcribed(@)] /\ job' = Advanced(f)
     \/ row' = [row EXCEPT ![f] = Bumped(@)] /\ job' = Without(f)
  /\ UNCHANGED <<uploaded, meetings, given, overtaken, stops>>

(* score_pending for one row. *)
Score(f) ==
  /\ In("score", f)
  /\ \/ /\ row' = [row EXCEPT ![f] = Scored(@, given[f] + 1)]
        /\ given' = [given EXCEPT ![f] = @ + 1]
        /\ job' = Advanced(f)
     \/ row' = [row EXCEPT ![f] = Bumped(@)] /\ job' = Without(f) /\ UNCHANGED given
  /\ UNCHANGED <<uploaded, meetings, overtaken, stops>>

(* mutant: the batch is written from the rows as they are by now *)
PublishLate ==
  /\ job.stage = "push" /\ job.claimed /\ job.batch # {}
  /\ meetings' = [f \in Files |-> IF f \in job.batch THEN row[f].verdict ELSE meetings[f]]
  /\ job' = [job EXCEPT !.stage = "mark"]
  /\ UNCHANGED <<uploaded, row, given, overtaken, stops>>

(* push_pending: all payloads are upserted in one Postgres transaction... *)
Publish ==
  /\ job.stage = "push" /\ job.claimed /\ job.batch # {}
  /\ meetings' = [f \in Files |-> IF f \in job.batch THEN job.payload[f] ELSE meetings[f]]
  /\ job' = [job EXCEPT !.stage = "mark"]
  /\ UNCHANGED <<uploaded, row, given, overtaken, stops>>

(* ... or none is, and the rows stay unpushed. *)
PublishFails ==
  /\ job.stage = "push" /\ job.claimed /\ job.batch # {}
  /\ job' = [job EXCEPT !.batch = {}]
  /\ UNCHANGED <<uploaded, row, meetings, given, overtaken, stops>>

(* mark_pushed, row by row, whatever the row has become. *)
Mark(f) ==
  /\ In("mark", f)
  /\ row' = [row EXCEPT ![f].pushed = TRUE]
  /\ job' = Without(f)
  /\ UNCHANGED <<uploaded, meetings, given, overtaken, stops>>

(* mutant: rounds that move nothing are not counted *)
DrainCountsOn ==
  /\ job.stage = "count"
  /\ LET active == \E f \in Files : row[f].status \in {"NEW", "DOWNLOADED", "TRANSCRIBED"}
     IN job' = IF ~active THEN Idle ELSE [job EXCEPT !.stage = "download", !.moved = FALSE]
  /\ UNCHANGED <<uploaded, row, meetings, given, overtaken, stops>>

(* drain_pipeline: again, unless nothing is left or two rounds moved nothing. *)
DrainCounts ==
  /\ job.stage = "count"
  /\ LET active == \E f \in Files : row[f].status \in {"NEW", "DOWNLOADED", "TRANSCRIBED"}
         stalled == IF job.moved THEN 0 ELSE job.stalled + 1
     IN job' = IF ~active \/ stalled >= 2 THEN Idle
               ELSE [job EXCEPT !.stage = "download", !.moved = FALSE, !.stalled = stalled]
  /\ UNCHANGED <<uploaded, row, meetings, given, overtaken, stops>>

(* The process is stopped, or an error leaves the pass: only the file is left. *)
PassDies ==
  /\ job.stage # "idle" /\ stops < MaxStops
  /\ job' = Idle /\ stops' = stops + 1
  /\ UNCHANGED <<uploaded, row, meetings, given, overtaken>>

-----------------------------------------------------------------------------
(* requeue_failed: the retry job, at the worker's start or on its interval. *)
Retry ==
  /\ \E f \in Files : row[f].status = "FAILED"
  /\ row' = [f \in Files |-> IF row[f].status = "FAILED" THEN Reopened(row[f]) ELSE row[f]]
  /\ UNCHANGED <<uploaded, meetings, given, job, overtaken, stops>>

(* The `rescore` command on some of the scored rows (a length decides which). *)
Rescore(S) ==
  /\ \A f \in S : row[f].status = "SCORED" /\ given[f] < MaxVerdicts
  /\ row' = [f \in Files |-> IF f \in S THEN Rescored(row[f]) ELSE row[f]]
  /\ overtaken' = overtaken \cup
                    IF job.stage \in {"push", "mark"} THEN S \cap job.batch ELSE {}
  /\ UNCHANGED <<uploaded, meetings, given, job, stops>>

Next ==
  \/ \E f \in Files : Upload(f) \/ Download(f) \/ Transcribe(f) \/ Score(f) \/ Mark(f)
  \/ \E drain \in BOOLEAN : PassStarts(drain)
  \/ \E seen \in SUBSET uploaded : Ingest(seen)
  \/ StageClaims \/ StageEnds \/ Publish \/ PublishFails \/ DrainCounts \/ PassDies
  \/ Retry
  \/ \E S \in SUBSET Files \ {{}} : Rescore(S)

Spec == Init /\ [][Next]_vars

(***************************************************************************)
(* The scheduler starts a pass on every interval and a pass goes on while  *)
(* the process lives; every outside call ends, well or badly (all have     *)
(* timeouts).  The disk scan and Postgres do not fail for ever.            *)
(***************************************************************************)
Fairness ==
  /\ WF_vars(\E drain \in BOOLEAN : PassStarts(drain))
  /\ SF_vars(Ingest(uploaded)) /\ WF_vars(\E seen \in SUBSET uploaded : Ingest(seen))
  /\ WF_vars(StageClaims) /\ WF_vars(StageEnds) /\ WF_vars(DrainCounts)
  /\ \A f \in Files : WF_vars(Download(f)) /\ WF_vars(Transcribe(f)) /\ WF_vars(Score(f))
                      /\ WF_vars(Mark(f))
  /\ SF_vars(Publish)

FairSpec == Spec /\ Fairness

-----------------------------------------------------------------------------
MTypeOK ==
  /\ uploaded \subseteq Files /\ overtaken \subseteq Files /\ stops \in 0..MaxStops
  /\ row \in [Files -> [status : Statuses, attempts : 0..MaxAttempts, audio : BOOLEAN,
                        transcript : BOOLEAN, verdict : Verdicts, pushed : BOOLEAN]]
  /\ meetings \in [Files -> Verdicts] /\ given \in [Files -> Verdicts]
  /\ job \in [stage : Stages, claimed : BOOLEAN, batch : SUBSET Files, drain : BOOLEAN,
              payload : [Files -> Verdicts], moved : BOOLEAN, stalled : 0..1]

(* store.py "re-ingesting never clobbers pipeline progress" and reset_failed's *)
(* "resumes at the furthest stage its data supports": through scans, retries,  *)
(* rescores and stopped passes, no stage is ever ahead of a recording for      *)
(* which its paid result is already in the row, and none finds its input gone. *)
WorkIsKept ==
  \A f \in Files : LET r == row[f] IN
    /\ r.status \in {"none", "NEW", "SKIPPED"} => ~r.audio /\ ~r.transcript
    /\ r.status = "DOWNLOADED" => r.audio /\ ~r.transcript
    /\ r.status = "TRANSCRIBED" => r.transcript /\ r.verdict = 0
    /\ r.status = "SCORED" => r.transcript /\ r.verdict = given[f]

(* push_pending: "a row is flagged pushed only after Postgres durably has it". *)
(* What it has is the row's own verdict, also when passes die between the two  *)
(* databases and the meeting is rescored and pushed again; only a meeting      *)
(* rescored in the middle of its own push keeps the flag of the older verdict. *)
PublishedIsCurrent ==
  \A f \in Files :
    row[f].pushed /\ f \notin overtaken => row[f].status = "SCORED" /\ meetings[f] = row[f].verdict

(* The cabinet never shows a verdict that was not given, nor an older one again. *)
Board == INSTANCE MeetingBoard WITH judged <- given, shown <- meetings
ImplementsBoard == Board!Spec

(* Every uploaded recording comes, again and again, to rest: in the cabinet,   *)
(* parked as too short, or dead-lettered; no failing stage, stopped pass or    *)
(* rescore leaves it on the way for ever.                                      *)
AtRest(f) ==
  \/ row[f].status \in {"SKIPPED", "FAILED"}
  \/ row[f].status = "SCORED" /\ row[f].pushed
EveryMeetingRests ==
  \A f \in Files : []<>(f \in uploaded => AtRest(f))
===============================================================================
