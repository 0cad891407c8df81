----------------------------- MODULE CallPipeline -----------------------------
(***************************************************************************)
(* The broker deployment of the call pipeline: the dispatcher claims ready *)
(* rows of `calls` and enqueues one arq job per row, worker slots run the  *)
(* jobs, the reconciler reverts stale claims, and the hourly retry pass    *)
(* puts FAILED calls back.                                                 *)
(*                                                                         *)
(* A job is three steps around a slow external call, as download_one,      *)
(* transcribe_one and score_one are: verify the claim (JobStart), then,    *)
(* when the external call has returned, read the row again (JobReads or    *)
(* JobSuperseded), then commit what was computed (JobSucceeds, JobParks,   *)
(* JobFails).  The last two are one database transaction, but it runs at   *)
(* READ COMMITTED and locks nothing on the read, so another transaction    *)
(* can commit in between; the commit writes by primary key.                *)
(*                                                                         *)
(* Time is a count of ticks since a claim and since a job's start.  A      *)
(* single-process worker (worker.py) and the CLI claim with the same       *)
(* function and run the same jobs: a claim enqueued and started at once.   *)
(***************************************************************************)
EXTENDS CallStages, FiniteSets

CONSTANTS
  Calls,          (* the rows of `calls` that have been ingested             *)
  Workers,        (* job slots: arq max_jobs summed over the stage workers   *)
  NoCall,
  StaleTTL,       (* [Stages -> Nat], claim_stale_seconds_* in ticks         *)
  Margin,         (* claim_job_timeout_margin_seconds in ticks               *)
  MinJobTimeout,  (* the 60 s floor of _job_timeout in ticks                 *)
  MaxQueueWait,   (* the longest a claim waits for its job to start          *)
  Redelivers,     (* whether arq runs a job again when its worker died       *)
  ClaimBatch,     (* claim_batch_size                                        *)
  RetryLimit,     (* the LIMIT of requeue_failed                             *)
  FactsChange,    (* whether a client's facts change after a call has failed *)
  MaxQueued,      (* bound: copies of one job in a queue                     *)
  MaxAge,         (* bound: where the age of a claim stops counting          *)
  MaxTries,       (* bound: no job starts for a call with that many attempts *)
  MaxRedone,      (* bound: the operator leaves a call with that many alone    *)
  MaxLosses       (* bound: jobs, dispatch passes and queues that are lost   *)

NoClaim == -1     (* claimed_at IS NULL *)

(* Mutant: a job may run as long as its claim lasts. *)
JobTimeoutAtTTL(s) == IF StaleTTL[s] > MinJobTimeout THEN StaleTTL[s] ELSE MinJobTimeout

JobTimeout(s) == IF StaleTTL[s] - Margin > MinJobTimeout
                 THEN StaleTTL[s] - Margin ELSE MinJobTimeout

ASSUME PipelineAssumption ==
  /\ NoCall \notin Calls
  /\ StaleTTL \in [Stages -> Nat]
  /\ Margin \in Nat
  /\ MinJobTimeout \in Nat \ {0}
  /\ MaxQueueWait \in Nat
  /\ Redelivers \in BOOLEAN
  /\ FactsChange \in BOOLEAN
  /\ ClaimBatch \in Nat \ {0}
  /\ RetryLimit \in Nat \ {0}
  /\ MaxQueued \in Nat \ {0}
  /\ MaxAge \in Nat
  /\ MaxTries \in Nat /\ MaxRedone \in Nat
  /\ \A s \in Stages : StaleTTL[s] < MaxAge
  /\ MaxLosses \in Nat

VARIABLES
  status,      (* calls.status                                              *)
  claimAge,    (* ticks since calls.claimed_at, or NoClaim                  *)
  attempts,    (* calls.attempts                                            *)
  artifacts,   (* what the call holds: audio, transcript, score             *)
  analyzable,  (* the calls whose analyzable flag is set                    *)
  olderFailed, (* <<d, c>>, both FAILED: d's updated_at is before c's       *)
  today,       (* the calls started since midnight in the report timezone   *)
  pending,     (* <<stage, call>> claimed by a pass that has yet to enqueue *)
  queued,      (* queued[s][c]: jobs for c waiting in queue:<s>             *)
  job,         (* what each worker slot runs                                *)
  retryPlan,   (* the retry pass's unwritten decisions                      *)
  losses       (* how many losses have happened                             *)

row     == <<status, claimAge, attempts, artifacts, analyzable, olderFailed>>
broker  == <<pending, queued>>
vars    == <<status, claimAge, attempts, artifacts, analyzable, olderFailed, today,
             pending, queued, job, retryPlan, losses>>

IdleJob == [pc |-> "idle", stage |-> "download", call |-> NoCall,
            run |-> 0, seen |-> 0]
Live(w) == job[w].pc # "idle"

-------------------------------------------------------------------------------
(* dispatch/claim.py and dispatch/dispatcher.py *)

Claimable(s) == {c \in analyzable : /\ status[c] = ReadyOf(s)
                                    /\ s = "score" => c \in today}

(* Mutant: claimed_at is not stamped. *)
ClaimReadyUnstamped(s) ==
  \E batch \in SUBSET Claimable(s) :
    /\ batch # {} /\ Cardinality(batch) <= ClaimBatch
    /\ \A c \in batch : <<s, c>> \notin pending
    /\ status' = [c \in Calls |-> IF c \in batch THEN InFlightOf(s) ELSE status[c]]
    /\ pending' = pending \cup ({s} \X batch)
    /\ UNCHANGED <<claimAge, attempts, artifacts, analyzable, olderFailed, today, queued,
                   job, retryPlan, losses>>

(***************************************************************************)
(* claim_ready: one UPDATE takes up to ClaimBatch ready rows.  SKIP LOCKED *)
(* makes any part of the ready rows a possible result.                     *)
(***************************************************************************)
ClaimReady(s) ==
  \E batch \in SUBSET Claimable(s) :
    /\ batch # {} /\ Cardinality(batch) <= ClaimBatch
    /\ \A c \in batch : <<s, c>> \notin pending
    /\ status' = [c \in Calls |-> IF c \in batch THEN InFlightOf(s) ELSE status[c]]
    /\ claimAge' = [c \in Calls |-> IF c \in batch THEN 0 ELSE claimAge[c]]
    /\ pending' = pending \cup ({s} \X batch)
    /\ UNCHANGED <<attempts, artifacts, analyzable, olderFailed, today, queued, job,
                   retryPlan, losses>>

(* The rest of the pass: one enqueue_job per claimed id, after the commit. *)
EnqueueJob(s, c) ==
  /\ <<s, c>> \in pending
  /\ queued[s][c] < MaxQueued
  /\ pending' = pending \ {<<s, c>>}
  /\ queued' = [queued EXCEPT ![s][c] = @ + 1]
  /\ UNCHANGED <<row, today, job, retryPlan, losses>>

(* The pass dies, or its Redis call fails, with ids it has not enqueued. *)
DispatchLost ==
  /\ pending # {} /\ losses < MaxLosses
  /\ pending' = {}
  /\ losses' = losses + 1
  /\ UNCHANGED <<row, today, queued, job, retryPlan>>

(* Redis is cache-only: a restart empties the queues. *)
QueuesLost ==
  /\ losses < MaxLosses
  /\ \E s \in Stages, c \in Calls : queued[s][c] > 0
  /\ queued' = [s \in Stages |-> [c \in Calls |-> 0]]
  /\ losses' = losses + 1
  /\ UNCHANGED <<row, today, pending, job, retryPlan>>

(* Mutants: a claim is stale when it reaches the TTL; scoring is not reclaimed. *)
StaleAtTTL(s) == {c \in Calls : status[c] = InFlightOf(s) /\ claimAge[c] >= StaleTTL[s]}
StaleButScore(s) == {c \in Calls : /\ s # "score" /\ status[c] = InFlightOf(s)
                                   /\ claimAge[c] > StaleTTL[s]}

Stale(s) == {c \in Calls : status[c] = InFlightOf(s) /\ claimAge[c] > StaleTTL[s]}

ReclaimStale(s) ==
  /\ Stale(s) # {}
  /\ status' = [c \in Calls |-> IF c \in Stale(s) THEN ReadyOf(s) ELSE status[c]]
  /\ claimAge' = [c \in Calls |-> IF c \in Stale(s) THEN NoClaim ELSE claimAge[c]]
  /\ UNCHANGED <<attempts, artifacts, analyzable, olderFailed, today, broker, job,
                 retryPlan, losses>>

-------------------------------------------------------------------------------
(* The jobs: ingestion/download.py, transcription/worker.py, scoring/worker.py *)

(***************************************************************************)
(* updated_at moves with every UPDATE of a row through the ORM, and only   *)
(* the retry pass reads it, to put the FAILED rows in order: rows written  *)
(* FAILED go to the end, rows written anything else leave.                 *)
(***************************************************************************)
Unfiled(calls)   == {p \in olderFailed : p[1] \notin calls /\ p[2] \notin calls}
FiledLast(calls) == Unfiled(calls) \cup ({d \in Calls \ calls : status[d] = "FAILED"} \X calls)

(***************************************************************************)
(* A slot takes a job and verifies the claim.  A call without the input of *)
(* the stage fails on the spot, without an attempt being counted.          *)
(***************************************************************************)
JobStart(w, s, c) ==
  /\ ~Live(w) /\ queued[s][c] > 0 /\ attempts[c] < MaxTries
  /\ status[c] = InFlightOf(s)
  /\ queued' = [queued EXCEPT ![s][c] = @ - 1]
  /\ IF HasInput(s, artifacts[c])
     THEN /\ job' = [job EXCEPT ![w] = [pc |-> "external", stage |-> s, call |-> c,
                                        run |-> 0, seen |-> 0]]
          /\ UNCHANGED <<status, claimAge, olderFailed>>
     ELSE /\ status' = [status EXCEPT ![c] = "FAILED"]
          /\ claimAge' = [claimAge EXCEPT ![c] = NoClaim]
          /\ olderFailed' = FiledLast({c})
          /\ UNCHANGED job
  /\ UNCHANGED <<attempts, artifacts, analyzable, today, pending, retryPlan, losses>>

(* The row is no longer claimed for this stage: the job returns "skipped". *)
JobSkips(s, c) ==
  /\ queued[s][c] > 0
  /\ status[c] # InFlightOf(s)
  /\ queued' = [queued EXCEPT ![s][c] = @ - 1]
  /\ UNCHANGED <<row, today, pending, job, retryPlan, losses>>

(***************************************************************************)
(* The external call has returned; the settling transaction reads the row. *)
(***************************************************************************)
JobReads(w) ==
  /\ job[w].pc = "external"
  /\ status[job[w].call] = InFlightOf(job[w].stage)
  /\ job' = [job EXCEPT ![w].pc = "settling", ![w].seen = attempts[job[w].call]]
  /\ UNCHANGED <<row, today, broker, retryPlan, losses>>

JobSuperseded(w) ==
  /\ job[w].pc = "external"
  /\ status[job[w].call] # InFlightOf(job[w].stage)
  /\ job' = [job EXCEPT ![w] = IdleJob]
  /\ UNCHANGED <<row, today, broker, retryPlan, losses>>

(* The settling transaction commits: it writes by primary key, whatever the *)
(* row holds by now, and clears the claim.                                  *)
Settle(w, st, tries, held) ==
  LET c == job[w].call IN
    /\ job[w].pc = "settling"
    /\ status' = [status EXCEPT ![c] = st]
    /\ attempts' = [attempts EXCEPT ![c] = tries]
    /\ artifacts' = [artifacts EXCEPT ![c] = held]
    /\ claimAge' = [claimAge EXCEPT ![c] = NoClaim]
    /\ olderFailed' = IF st = "FAILED" THEN FiledLast({c}) ELSE Unfiled({c})
    /\ job' = [job EXCEPT ![w] = IdleJob]
    /\ UNCHANGED <<analyzable, today, broker, retryPlan, losses>>

(* attempts is a column the ORM writes only when the job changed it. *)
JobSucceeds(w) ==
  LET s == job[w].stage
      c == job[w].call
  IN Settle(w, DoneOf(s),
            IF s = "download" THEN SuccessTries(s, job[w].seen) ELSE attempts[c],
            artifacts[c] \cup {Product(s)})

(* Kazakh speech and an engine that cannot handle it: parked, no transcript. *)
JobParks(w) ==
  /\ job[w].stage = "transcribe"
  /\ Settle(w, "PENDING_KK", attempts[job[w].call], artifacts[job[w].call])

(* Mutant: the failure is not counted. *)
JobFailsUncounted(w) ==
  Settle(w, FailureStatus(job[w].stage, job[w].seen), job[w].seen, artifacts[job[w].call])

JobFails(w) ==
  Settle(w, FailureStatus(job[w].stage, job[w].seen + 1), job[w].seen + 1,
         artifacts[job[w].call])

(* The worker dies: the open transaction rolls back, and arq may run the    *)
(* job again because it only leaves the queue when it has finished.         *)
JobKilled(w) ==
  LET s == job[w].stage
      c == job[w].call
  IN /\ Live(w) /\ losses < MaxLosses
     /\ job' = [job EXCEPT ![w] = IdleJob]
     /\ \/ UNCHANGED queued
        \/ /\ Redelivers /\ queued[s][c] < MaxQueued
           /\ queued' = [queued EXCEPT ![s][c] = @ + 1]
     /\ losses' = losses + 1
     /\ UNCHANGED <<row, today, pending, retryPlan>>

(* arq cancels a job at its timeout and does not run it again. *)
JobTimesOut(w) ==
  /\ Live(w) /\ losses < MaxLosses
  /\ job[w].run = JobTimeout(job[w].stage)
  /\ job' = [job EXCEPT ![w] = IdleJob]
  /\ losses' = losses + 1
  /\ UNCHANGED <<row, today, broker, retryPlan>>

-------------------------------------------------------------------------------
(* Passes that move rows without claiming them *)

(* Mutant: the attempt that reaches max_retries is retried once more. *)
RetryableAtCap == {c \in Calls : status[c] = "FAILED" /\ attempts[c] <= MaxRetries}

Failed      == {c \in Calls : status[c] = "FAILED"}
DeadLetters == {c \in Failed : attempts[c] >= MaxRetries}
Retryable   == {c \in Calls : status[c] = "FAILED" /\ attempts[c] < MaxRetries}

(* Mutant: the newest rows first. *)
OldestFailedDesc == {window \in SUBSET Failed :
  /\ Cardinality(window) = (IF Cardinality(Failed) < RetryLimit THEN Cardinality(Failed)
                                                               ELSE RetryLimit)
  /\ \A p \in olderFailed : p[1] \in window => p[2] \in window}

(* The RetryLimit FAILED rows with the least updated_at, dead letters among them. *)
OldestFailed == {window \in SUBSET Failed :
  /\ Cardinality(window) = (IF Cardinality(Failed) < RetryLimit THEN Cardinality(Failed)
                                                               ELSE RetryLimit)
  /\ \A p \in olderFailed : p[2] \in window => p[1] \in window}

(* requeue_failed reads the oldest FAILED rows and the artifacts of those it *)
(* will requeue; it leaves the dead letters among them as they are ...       *)
RetryReads ==
  \E window \in OldestFailed :
    /\ window \cap Retryable # {}
    /\ \A c \in Calls : retryPlan[c] = "none"
    /\ retryPlan' = [c \in Calls |-> IF c \in window \cap Retryable
                                     THEN ResumeStatus(artifacts[c]) ELSE "none"]
    /\ UNCHANGED <<row, today, broker, job, losses>>

(* ... and writes the statuses it decided, by primary key. *)
RetryWrites ==
  /\ \E c \in Calls : retryPlan[c] # "none"
  /\ status' = [c \in Calls |-> IF retryPlan[c] # "none" THEN retryPlan[c] ELSE status[c]]
  /\ olderFailed' = Unfiled({c \in Calls : retryPlan[c] # "none"})
  /\ retryPlan' = [c \in Calls |-> "none"]
  /\ UNCHANGED <<claimAge, attempts, artifacts, analyzable, today, broker, job, losses>>

(* The two backfill commands: PENDING_KK -> DOWNLOADED for a new engine and *)
(* SCORED -> TRANSCRIBED for relabelling, each one statement over ids.      *)
RequeueBatch(from, to) ==
  \E batch \in SUBSET {c \in Calls : status[c] = from /\ attempts[c] < MaxRedone} :
    /\ batch # {}
    /\ status' = [c \in Calls |-> IF c \in batch THEN to ELSE status[c]]
    /\ claimAge' = [c \in Calls |-> IF c \in batch THEN NoClaim ELSE claimAge[c]]
    /\ UNCHANGED <<attempts, artifacts, analyzable, olderFailed, today, broker, job,
                   retryPlan, losses>>

(* Mutant: a parked call is requeued past transcription. *)
RequeuePendingKkScored == RequeueBatch("PENDING_KK", "TRANSCRIBED")

RequeuePendingKk == RequeueBatch("PENDING_KK", "DOWNLOADED")
RequeueScoredForRelabel == RequeueBatch("SCORED", "TRANSCRIBED")

(***************************************************************************)
(* _apply_scope as an ingestion pass runs it: rows at NEW or SKIPPED follow *)
(* the scope rule, whose verdict is the environment's; all others are left. *)
(***************************************************************************)
ApplyScope(c, inScope) ==
  /\ status[c] \in {"NEW", "SKIPPED"}
  /\ status' = [status EXCEPT ![c] = IF inScope THEN "NEW" ELSE "SKIPPED"]
  /\ analyzable' = IF inScope THEN analyzable \cup {c} ELSE analyzable \ {c}
  /\ UNCHANGED <<claimAge, attempts, artifacts, olderFailed, today, broker, job, retryPlan,
                 losses>>

(* The same pass writes what it learnt of a client to every call of theirs; *)
(* to a FAILED one that is a new updated_at.                                *)
ClientFactsChange(c) ==
  /\ FactsChange /\ status[c] = "FAILED"
  /\ olderFailed' = FiledLast({c})
  /\ UNCHANGED <<status, claimAge, attempts, artifacts, analyzable, today, broker, job,
                 retryPlan, losses>>

(* Midnight in the report timezone: no call so far is one of today's. *)
Midnight ==
  /\ today # {}
  /\ today' = {}
  /\ UNCHANGED <<row, broker, job, retryPlan, losses>>

(***************************************************************************)
(* Time passes.  No job outlives its timeout, and no claim waits longer    *)
(* than MaxQueueWait for its job to start (MaxQueueWait > MaxAge: no such  *)
(* promise).                                                               *)
(***************************************************************************)
Waiting(s, c) == /\ status[c] = InFlightOf(s)
                 /\ <<s, c>> \in pending \/ queued[s][c] > 0

Tick ==
  /\ \A w \in Workers : Live(w) => job[w].run < JobTimeout(job[w].stage)
  /\ \A s \in Stages, c \in Calls : Waiting(s, c) => claimAge[c] < MaxQueueWait
  /\ claimAge' = [c \in Calls |-> IF claimAge[c] # NoClaim /\ claimAge[c] < MaxAge
                                  THEN claimAge[c] + 1 ELSE claimAge[c]]
  /\ job' = [w \in Workers |-> IF Live(w) THEN [job[w] EXCEPT !.run = @ + 1] ELSE job[w]]
  /\ UNCHANGED <<status, attempts, artifacts, analyzable, olderFailed, today, broker,
                 retryPlan, losses>>

(* Queues are prompt: a claim that waited as long as it may, and whose job  *)
(* then runs until its timeout, is not stale yet; and no job is redelivered. *)
PromptQueues == /\ ~Redelivers
                /\ \A s \in Stages : MaxQueueWait + JobTimeout(s) <= StaleTTL[s]

-------------------------------------------------------------------------------
Init ==
  /\ analyzable \in SUBSET Calls
  /\ status = [c \in Calls |-> IF c \in analyzable THEN "NEW" ELSE "SKIPPED"]
  /\ claimAge = [c \in Calls |-> NoClaim]
  /\ attempts = [c \in Calls |-> 0]
  /\ artifacts = [c \in Calls |-> {}]
  /\ olderFailed = {}
  /\ today = Calls
  /\ pending = {}
  /\ queued = [s \in Stages |-> [c \in Calls |-> 0]]
  /\ job = [w \in Workers |-> IdleJob]
  /\ retryPlan = [c \in Calls |-> "none"]
  /\ losses = 0

Dispatch(s) == ClaimReady(s) \/ ReclaimStale(s) \/ \E c \in Calls : EnqueueJob(s, c)
TakeJob(s, c) == JobSkips(s, c) \/ \E w \in Workers : JobStart(w, s, c)
FinishJob(w) == JobReads(w) \/ JobSuperseded(w) \/ JobSucceeds(w) \/ JobParks(w) \/ JobFails(w)
Losing == DispatchLost \/ QueuesLost \/ \E w \in Workers : JobKilled(w) \/ JobTimesOut(w)
Retrying == RetryReads \/ RetryWrites
Backfill == RequeuePendingKk \/ RequeueScoredForRelabel

Next ==
  \/ \E s \in Stages : Dispatch(s) \/ \E c \in Calls : TakeJob(s, c)
  \/ \E w \in Workers : FinishJob(w)
  \/ Losing \/ Retrying \/ Backfill \/ Midnight \/ Tick
  \/ \E c \in Calls : ClientFactsChange(c) \/ \E inScope \in BOOLEAN : ApplyScope(c, inScope)

Spec == Init /\ [][Next]_vars

-------------------------------------------------------------------------------
(* Type correctness of the rows, the broker and the jobs. *)
Jobs == [pc : {"idle", "external", "settling"}, stage : Stages,
         call : Calls \cup {NoCall}, run : Nat, seen : Nat]

TypeOK ==
  /\ status \in [Calls -> Statuses]
  /\ claimAge \in [Calls -> {NoClaim} \cup Nat]
  /\ attempts \in [Calls -> Nat]
  /\ artifacts \in [Calls -> SUBSET Artifacts]
  /\ analyzable \in SUBSET Calls
  /\ olderFailed \in SUBSET (Calls \X Calls)
  /\ today \in SUBSET Calls
  /\ pending \in SUBSET (Stages \X Calls)
  /\ queued \in [Stages -> [Calls -> Nat]]
  /\ job \in [Workers -> Jobs]
  /\ \A w \in Workers : Live(w) => job[w].call \in Calls
  /\ retryPlan \in [Calls -> {"none"} \cup ReadyStatuses]
  /\ losses \in Nat

(***************************************************************************)
(* The in-flight status is the claim, and claimed_at is the only way back  *)
(* from a dead worker: an in-flight row whose claimed_at is NULL is never  *)
(* older than the cutoff, so it would stay in flight for good.             *)
(***************************************************************************)
ClaimsRecoverable ==
  \A c \in Calls : status[c] \in InFlightStatuses => claimAge[c] # NoClaim

(***************************************************************************)
(* No status promises an artifact the call does not hold, whatever         *)
(* duplicate jobs, stale commits and requeues come together: the           *)
(* "no audio_object_key" and "no transcript" failures never happen, and no *)
(* requeue sends a call to a stage it has no input for.                    *)
(***************************************************************************)
Needs(st) ==
  IF st \in {"DOWNLOADED", "TRANSCRIBING", "PENDING_KK"} THEN {"audio"}
  ELSE IF st \in {"TRANSCRIBED", "SCORING"} THEN {"audio", "transcript"}
  ELSE IF st = "SCORED" THEN {"audio", "transcript", "score"} ELSE {}

ArtifactsMatchStatus == \A c \in Calls : Needs(status[c]) \subseteq artifacts[c]

(***************************************************************************)
(* "A long job runs twice" never happens: at most one job works on a call. *)
(***************************************************************************)
ExclusiveRun ==
  \A v, w \in Workers : Live(v) /\ Live(w) /\ job[v].call = job[w].call => v = w

(***************************************************************************)
(* "The reconciler never reverts a live job": while a job runs on a call   *)
(* that is claimed for it, no other step makes the call ready again.  The  *)
(* timeout counts from the job's start and the TTL from the claim, so this *)
(* is about the time a claim waits in the queue.                           *)
(***************************************************************************)
ReconcilerSparesLiveJobs ==
  [][\A w \in Workers :
       Live(w) /\ job'[w] = job[w] /\ status[job[w].call] = InFlightOf(job[w].stage)
         => status'[job[w].call] # ReadyOf(job[w].stage)]_vars

(***************************************************************************)
(* max_retries bounds what a call costs: no chain of downloads, failures,  *)
(* retries and stale reverts takes it more than one attempt past the caps. *)
(***************************************************************************)
AttemptCap == IF MaxRetries > MaxDownloadAttempts THEN MaxRetries ELSE MaxDownloadAttempts
AttemptsBounded == \A c \in Calls : attempts[c] <= 1 + AttemptCap

(***************************************************************************)
(* The pipeline implements the lifecycle, under the same names.            *)
(***************************************************************************)
Lifecycle == INSTANCE CallLifecycle
ImplementsLifecycle == Lifecycle!LifecycleSpec

-------------------------------------------------------------------------------
(***************************************************************************)
(* Fairness.  The dispatcher's tick is a cron, so reclaiming, claiming and *)
(* enqueueing go on for ever; claims are taken oldest first, so every      *)
(* ready call gets its turn.  arq serves a queue in order, so a job is not *)
(* passed over for ever while slots come and go (strong fairness).  Time   *)
(* passes, a job ends, the hourly retry pass runs.  Losses, the backfill   *)
(* commands and midnight are not fair.                                     *)
(***************************************************************************)
ClaimsCall(s, c) == ClaimReady(s) /\ <<s, c>> \in pending'

Fairness ==
  /\ WF_vars(Tick) /\ WF_vars(Retrying)
  /\ \A s \in Stages : /\ WF_vars(ReclaimStale(s))
                       /\ \A c \in Calls : /\ WF_vars(ClaimsCall(s, c))
                                           /\ WF_vars(EnqueueJob(s, c))
                                           /\ SF_vars(TakeJob(s, c))
  /\ \A w \in Workers : WF_vars(FinishJob(w))

FairSpec == Spec /\ Fairness

(***************************************************************************)
(* Whatever is lost on the way, a call comes to rest, again and again:     *)
(* scored, parked, out of scope (SKIPPED, or anywhere else when a job was  *)
(* late), dead-lettered, or waiting for the batch path because it is no    *)
(* longer one of today's.  The exception is a FAILED call behind as many   *)
(* dead letters as the retry pass reads rows: no pass sees it.             *)
(***************************************************************************)
Resting(c) == \/ status[c] \in {"SCORED", "PENDING_KK", "SKIPPED"}
              \/ \E s \in Stages : status[c] = ReadyOf(s) /\ c \notin analyzable
              \/ status[c] = "FAILED" /\ attempts[c] >= MaxRetries
              \/ status[c] = "TRANSCRIBED" /\ c \notin today

Starved(c) == /\ status[c] = "FAILED"
              /\ Cardinality({d \in DeadLetters : <<d, c>> \in olderFailed}) >= RetryLimit

EventuallyRests == \A c \in Calls : []<>(Resting(c) \/ Starved(c))
===============================================================================
