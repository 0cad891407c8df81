----------------------------- MODULE SidePassProofs ----------------------------
(***************************************************************************)
(* What runs beside the pipeline: the requalification pass and the batch   *)
(* path.  The first two parts promise nothing about time: whatever rows    *)
(* stale copies overwrite, whoever dies, however late the poller comes and *)
(* in how many batches a call is, claims stay recoverable and no status    *)
(* promises an artifact the call does not hold.  The third part assumes    *)
(* prompt queues and a prompt poller, and proves that the batch path is    *)
(* then as exclusive as the pipeline.                                      *)
(***************************************************************************)
EXTENDS ScoreBatch, Requalification, CallPipelineProofs, FiniteSetTheorems

(* The pipeline starts with nothing claimed and nothing promised.          *)
LEMMA PipelineStart == Init => TypeOK /\ ClaimsRecoverable /\ ArtifactsInv
<1>1. Init => ClaimsRecoverable
  BY DEF Init, ClaimsRecoverable, InFlightStatuses
<1>2. Init => ArtifactsInv
  BY DEF Init, ArtifactsInv, ArtifactsMatchStatus, PlansKept, JobsFed, TranscriptsHeard,
         Live, IdleJob, Needs
<1> QED
  BY <1>1, <1>2, InitTypes

-------------------------------------------------------------------------------
(* The requalification pass. *)
RInv == RTypeOK /\ ClaimsRecoverable /\ ArtifactsInv

(* A write from a stale copy may demote a row, but only out of the scope.  *)
LEMMA WriteKeeps ==
  ASSUME RInv, RequalifyWrites PROVE RInv'
<1>1. PICK qualifiedBefore \in SUBSET loaded :
        /\ status' = [c \in Calls |-> IF c \in qualifiedBefore THEN "SKIPPED" ELSE status[c]]
        /\ analyzable' \in SUBSET Calls
        /\ olderFailed' = Unfiled(qualifiedBefore)
        /\ loaded' = {} /\ flagged' = {}
        /\ UNCHANGED <<claimAge, attempts, artifacts, today, broker, job, retryPlan, losses>>
  BY DEF RequalifyWrites, RInv, RTypeOK, TypeOK
<1>6. olderFailed' \in SUBSET (Calls \X Calls)
  BY <1>1, OrderTypes DEF RInv, RTypeOK
<1>2. RTypeOK'
  BY <1>1, <1>6 DEF RInv, RTypeOK, TypeOK, broker, Live, Statuses
<1>3. ClaimsRecoverable'
  BY <1>1, OutOfFlight DEF RInv, ClaimsRecoverable
<1>4. \A c \in Calls : Needs(status'[c]) \subseteq artifacts[c]
  BY <1>1, NoNeeds DEF RInv, ArtifactsInv, ArtifactsMatchStatus
<1>5. ArtifactsInv'
  BY <1>1, <1>4, MoveKeepsArtifacts DEF RInv
<1> QED
  BY <1>2, <1>3, <1>5 DEF RInv

LEMMA RStep == RInv /\ [RNext]_rvars => RInv'
<1> SUFFICES ASSUME RInv, [RNext]_rvars PROVE RInv'
  OBVIOUS
<1>1. CASE [Next]_vars /\ UNCHANGED <<loaded, flagged>>
  BY <1>1, TypeStep, ClaimsStep, ArtifactsStep DEF RInv, RTypeOK
<1>2. CASE RequalifyLoads
  <2>1. UNCHANGED vars /\ loaded' \in SUBSET Calls /\ flagged' \in SUBSET loaded'
    BY <1>2 DEF RequalifyLoads
  <2>2. TypeOK' /\ ClaimsRecoverable' /\ ArtifactsInv'
    BY <2>1, TypeStep, ClaimsStep, ArtifactsStep DEF RInv, RTypeOK
  <2> QED
    BY <2>1, <2>2 DEF RInv, RTypeOK
<1>3. CASE RequalifyWrites
  BY <1>3, WriteKeeps
<1> QED
  BY <1>1, <1>2, <1>3 DEF RNext, rvars

(* The claim and the artifact guarantees survive the requalification pass. *)
THEOREM RequalificationIsSafe == RSpec => [](ClaimsRecoverable /\ ArtifactsMatchStatus)
<1>1. RInit => RInv
  BY PipelineStart DEF RInit, RInv, RTypeOK
<1>2. RInv => ClaimsRecoverable /\ ArtifactsMatchStatus
  BY DEF RInv, ArtifactsInv
<1> QED
  BY <1>1, <1>2, RStep, PTL DEF RSpec

-------------------------------------------------------------------------------
(* The batch path, whatever the poller does. *)
(* The batch path adds one promise to keep: the transaction that settles a  *)
(* result has read a row in SCORING, so its call holds what a score needs.  *)
ResultFed == poll.reading # NoCall => Needs("SCORING") \subseteq artifacts[poll.reading]

BInv == BTypeOK /\ ClaimsRecoverable /\ ArtifactsInv /\ ResultFed

(* No step takes an artifact away. *)
LEMMA PipelineGrows ==
  ASSUME TypeOK, [Next]_vars PROVE \A c \in Calls : artifacts[c] \subseteq artifacts'[c]
<1>1. ASSUME NEW w \in Workers, NEW st, NEW tries, NEW more,
             Settle(w, st, tries, artifacts[job[w].call] \cup more)
      PROVE  \A c \in Calls : artifacts[c] \subseteq artifacts'[c]
  BY <1>1 DEF Settle, TypeOK
<1>2. ASSUME NEW w \in Workers, JobSucceeds(w)
      PROVE  \A c \in Calls : artifacts[c] \subseteq artifacts'[c]
  BY <1>1, <1>2 DEF JobSucceeds
<1>3. ASSUME NEW w \in Workers, JobParks(w) \/ JobFails(w)
      PROVE  \A c \in Calls : artifacts[c] \subseteq artifacts'[c]
  <2>1. \E st, tries : Settle(w, st, tries, artifacts[job[w].call] \cup {})
    BY <1>3 DEF JobParks, JobFails
  <2> QED
    BY <1>1, <2>1
<1>4. CASE UNCHANGED artifacts
  BY <1>4
<1> QED
  BY <1>2, <1>3, <1>4
     DEF Next, Dispatch, TakeJob, FinishJob, Losing, Retrying, Backfill, ClaimReady, EnqueueJob,
         ReclaimStale, JobStart, JobSkips, JobReads, JobSuperseded, DispatchLost, QueuesLost,
         JobKilled, JobTimesOut, RetryReads, RetryWrites, RequeuePendingKk,
         RequeueScoredForRelabel, RequeueBatch, ClientFactsChange, ApplyScope, Midnight, Tick,
         vars, row, broker

(* The rows of the pipeline are left alone by the bookkeeping of a batch.  *)
LEMMA QuietStep ==
  ASSUME BInv, UNCHANGED vars PROVE TypeOK' /\ ClaimsRecoverable' /\ ArtifactsInv'
BY TypeStep, ClaimsStep, ArtifactsStep DEF BInv, BTypeOK

(* A command that dies touches no row. *)
LEMMA LossKeeps ==
  ASSUME BInv, UNCHANGED <<row, today, broker, job, retryPlan>>, losses' \in Nat
  PROVE  TypeOK' /\ ClaimsRecoverable' /\ ArtifactsInv'
BY DEF BInv, BTypeOK, TypeOK, ClaimsRecoverable, ArtifactsInv, ArtifactsMatchStatus, PlansKept,
       JobsFed, TranscriptsHeard, Live, row, broker

(* A submit claims the calls it has a transcript for, and fails the others. *)
LEMMA ClaimsKeep ==
  ASSUME BInv, SubmitClaims PROVE TypeOK' /\ ClaimsRecoverable' /\ ArtifactsInv'
<1>1. PICK claimed \in SUBSET {c \in analyzable : status[c] = "TRANSCRIBED"} :
        LET covered == {c \in claimed : HasInput("score", artifacts[c])}
            failed  == claimed \ covered
        IN /\ status' = [c \in Calls |-> IF c \in covered THEN "SCORING"
                                         ELSE IF c \in failed THEN "FAILED" ELSE status[c]]
           /\ claimAge' = [c \in Calls |-> IF c \in covered THEN 0
                                           ELSE IF c \in failed THEN NoClaim ELSE claimAge[c]]
           /\ attempts' = [c \in Calls |-> IF c \in failed THEN attempts[c] + 1 ELSE attempts[c]]
           /\ olderFailed' = FiledLast(failed)
  BY DEF SubmitClaims
<1>2. UNCHANGED <<artifacts, analyzable, today, broker, job, retryPlan, losses>>
  BY DEF SubmitClaims
<1> DEFINE covered == {c \in claimed : HasInput("score", artifacts[c])}
           failed  == claimed \ covered
<1>6. olderFailed' \in SUBSET (Calls \X Calls)
  <2>1. failed \in SUBSET Calls
    BY DEF BInv, BTypeOK, TypeOK
  <2> QED
    BY <1>1, <2>1, OrderTypes DEF BInv, BTypeOK
<1>3. TypeOK'
  BY <1>1, <1>2, <1>6
     DEF BInv, BTypeOK, TypeOK, broker, Live, Statuses, InFlightStatuses, NoClaim
<1>4. ClaimsRecoverable'
  BY <1>1, OutOfFlight DEF BInv, BTypeOK, TypeOK, ClaimsRecoverable, NoClaim
<1>5. ArtifactsInv'
  <2>1. Needs("SCORING") = Needs("TRANSCRIBED") /\ Needs("FAILED") = {}
    BY DEF Needs
  <2>2. \A c \in Calls : Needs(status'[c]) \subseteq artifacts[c]
    BY <1>1, <2>1 DEF BInv, ArtifactsInv, ArtifactsMatchStatus
  <2> QED
    BY <1>2, <2>2, MoveKeepsArtifacts DEF BInv
<1> QED
  BY <1>3, <1>4, <1>5

(* A refused chunk's claims go back to TRANSCRIBED. *)
LEMMA RejectionKeeps ==
  ASSUME BInv, SubmitRejected PROVE TypeOK' /\ ClaimsRecoverable' /\ ArtifactsInv'
<1>1. PICK chunk \in SUBSET submitting :
        LET released == {c \in chunk : status[c] = "SCORING"} IN
          /\ status' = [c \in Calls |-> IF c \in released THEN "TRANSCRIBED" ELSE status[c]]
          /\ claimAge' = [c \in Calls |-> IF c \in released THEN NoClaim ELSE claimAge[c]]
  BY DEF SubmitRejected
<1>2. UNCHANGED <<attempts, artifacts, analyzable, olderFailed, today, broker, job, retryPlan,
                  losses>>
  BY DEF SubmitRejected
<1>3. TypeOK'
  BY <1>1, <1>2 DEF BInv, BTypeOK, TypeOK, broker, Live, Statuses, ReadyStatuses, NoClaim
<1>4. ClaimsRecoverable'
  BY <1>1 DEF BInv, BTypeOK, TypeOK, ClaimsRecoverable, InFlightStatuses
<1>5. ArtifactsInv'
  <2>1. Needs("SCORING") = Needs("TRANSCRIBED")
    BY DEF Needs
  <2>2. \A c \in Calls : Needs(status'[c]) \subseteq artifacts[c]
    BY <1>1, <2>1 DEF BInv, ArtifactsInv, ArtifactsMatchStatus
  <2> QED
    BY <1>2, <2>2, MoveKeepsArtifacts DEF BInv
<1> QED
  BY <1>3, <1>4, <1>5

(* A heartbeat renews claims and makes none. *)
LEMMA HeartbeatKeeps ==
  ASSUME BInv, NEW b \in Batches, PollHeartbeats(b)
  PROVE  TypeOK' /\ ClaimsRecoverable' /\ ArtifactsInv'
<1>1. /\ claimAge' = [c \in Calls |-> IF c \in batch[b].calls /\ status[c] = "SCORING"
                                      THEN 0 ELSE claimAge[c]]
      /\ UNCHANGED <<status, attempts, artifacts, analyzable, olderFailed, today, broker, job,
                     retryPlan, losses>>
  BY DEF PollHeartbeats
<1>2. TypeOK'
  BY <1>1 DEF BInv, BTypeOK, TypeOK, broker, Live
<1>3. ClaimsRecoverable'
  BY <1>1 DEF BInv, BTypeOK, TypeOK, ClaimsRecoverable, NoClaim
<1>4. ArtifactsInv'
  BY <1>1 DEF BInv, ArtifactsInv, ArtifactsMatchStatus, PlansKept, JobsFed, TranscriptsHeard, Live
<1> QED
  BY <1>2, <1>3, <1>4

(***************************************************************************)
(* A result lands on whatever the row has become, and whoever has claimed  *)
(* it by then: the row leaves flight together with its stamp, and holds at *)
(* least what it held.                                                     *)
(***************************************************************************)
LEMMA AnswerKeeps ==
  ASSUME BInv, NEW c \in Calls, NEW st \in Statuses \ InFlightStatuses,
         NEW tries \in Nat, NEW held \in SUBSET Artifacts, Answers(c, st, tries, held),
         artifacts[c] \subseteq held, Needs(st) \subseteq held,
         "transcript" \in held => "audio" \in held
  PROVE  TypeOK' /\ ClaimsRecoverable' /\ ArtifactsInv'
<1>1. /\ status' = [status EXCEPT ![c] = st]
      /\ attempts' = [attempts EXCEPT ![c] = tries]
      /\ artifacts' = [artifacts EXCEPT ![c] = held]
      /\ claimAge' = [claimAge EXCEPT ![c] = NoClaim]
      /\ UNCHANGED <<analyzable, today, broker, job, retryPlan, losses>>
  BY DEF Answers
<1>8. olderFailed' \in SUBSET (Calls \X Calls)
  BY OrderTypes DEF Answers, BInv, BTypeOK
<1>2. TypeOK'
  BY <1>1, <1>8 DEF BInv, BTypeOK, TypeOK, broker, Live, NoClaim
<1>3. ClaimsRecoverable'
  BY <1>1 DEF BInv, BTypeOK, TypeOK, ClaimsRecoverable
<1>4. \A d \in Calls : artifacts[d] \subseteq artifacts'[d]
  BY <1>1 DEF BInv, BTypeOK, TypeOK
<1>5. ArtifactsMatchStatus' /\ TranscriptsHeard'
  BY <1>1, <1>4 DEF BInv, BTypeOK, TypeOK, ArtifactsInv, ArtifactsMatchStatus, TranscriptsHeard
<1>6. PlansKept'
  BY <1>1, <1>4 DEF BInv, ArtifactsInv, PlansKept
<1>7. JobsFed'
  <2> SUFFICES ASSUME NEW v \in Workers, Live(v)
               PROVE  Needs(InFlightOf(job[v].stage)) \subseteq artifacts'[job[v].call]
    BY <1>1 DEF JobsFed, Live
  <2>1. job[v].call \in Calls /\ Needs(InFlightOf(job[v].stage)) \subseteq artifacts[job[v].call]
    BY DEF BInv, BTypeOK, TypeOK, ArtifactsInv, JobsFed
  <2> QED
    BY <1>4, <2>1
<1> QED
  BY <1>2, <1>3, <1>5, <1>6, <1>7 DEF ArtifactsInv

LEMMA ResultKeeps ==
  ASSUME BInv, NEW c \in Calls, PollSettles(c)
  PROVE  TypeOK' /\ ClaimsRecoverable' /\ ArtifactsInv'
<1>1. /\ artifacts[c] \in SUBSET Artifacts /\ attempts[c] \in Nat /\ poll.seen \in Nat
      /\ "transcript" \in artifacts[c] => "audio" \in artifacts[c]
  BY DEF BInv, BTypeOK, BatchTypes, Passes, TypeOK, ArtifactsInv, TranscriptsHeard
<1>2. Needs("SCORING") \subseteq artifacts[c]
  BY PipelineAssumption DEF BInv, ResultFed, PollSettles
<1>3. CASE Scored(c)
  <2>1. Needs("SCORED") \subseteq artifacts[c] \cup {"score"} /\ "score" \in Artifacts
    BY <1>2 DEF Needs, Artifacts
  <2>2. "SCORED" \in Statuses \ InFlightStatuses
    BY DEF Statuses, InFlightStatuses
  <2> QED
    BY <1>1, <1>3, <2>1, <2>2, AnswerKeeps DEF Scored
<1>4. CASE Errored(c)
  <2>1. Needs("FAILED") = {} /\ "FAILED" \in Statuses \ InFlightStatuses
    BY NoNeeds DEF Statuses, InFlightStatuses
  <2> QED
    BY <1>1, <1>4, <2>1, AnswerKeeps DEF Errored
<1>5. CASE Expired(c)
  <2>1. Needs("TRANSCRIBED") \subseteq artifacts[c]
    BY <1>2 DEF Needs
  <2>2. "TRANSCRIBED" \in Statuses \ InFlightStatuses
    BY DEF Statuses, ReadyStatuses, InFlightStatuses
  <2> QED
    BY <1>1, <1>5, <2>1, <2>2, AnswerKeeps DEF Expired
<1> QED
  BY <1>3, <1>4, <1>5 DEF PollSettles

-------------------------------------------------------------------------------
LEMMA FreeTypes ==
  /\ FreeBatch \in BatchRows
  /\ NoPass \in Passes
BY DEF FreeBatch, NoPass, Outcomes, BatchRows, Passes

LEMMA RowTypes ==
  ASSUME BatchTypes, NEW b \in Batches
  PROVE  batch[b] \in BatchRows /\ batch[b].calls \in SUBSET Calls
BY DEF BatchTypes, BatchRows

LEMMA SubmitTypes ==
  ASSUME TypeOK, BatchTypes, Submit PROVE BatchTypes'
<1>1. CASE SubmitClaims
  <2>1. submitting' \subseteq analyzable /\ UNCHANGED <<batch, orphans, poll, due>>
    BY <1>1 DEF SubmitClaims
  <2> QED
    BY <2>1 DEF TypeOK, BatchTypes
<1>2. CASE SubmitRejected
  BY <1>2 DEF SubmitRejected, BatchTypes
<1>3. CASE SubmitDies
  <2>1. \A b \in Batches : batch[b].calls \in SUBSET Calls
    BY RowTypes
  <2>2. orphans' \subseteq SUBSET Calls
    BY <1>3, <2>1 DEF SubmitDies, BatchTypes, Accepted
  <2> QED
    BY <1>3, <2>2, FreeTypes DEF SubmitDies, BatchTypes
<1>6. CASE SubmitUnanswered
  BY <1>6 DEF SubmitUnanswered, BatchTypes
<1>4. ASSUME NEW b \in Batches, SubmitSends(b) PROVE BatchTypes'
  <2>1. PICK chunk \in SUBSET submitting :
          /\ batch' = [batch EXCEPT ![b].phase = "accepted", ![b].calls = chunk]
          /\ submitting' = submitting \ chunk
          /\ UNCHANGED <<orphans, poll, due>>
    BY <1>4 DEF SubmitSends
  <2>2. chunk \in SUBSET Calls /\ submitting' \in SUBSET Calls
    BY <2>1 DEF BatchTypes
  <2>3. [batch[b] EXCEPT !.phase = "accepted", !.calls = chunk] \in BatchRows
    BY <2>2, RowTypes DEF BatchRows
  <2>4. batch' \in [Batches -> BatchRows]
    BY <2>1, <2>3 DEF BatchTypes
  <2> QED
    BY <2>1, <2>2, <2>4 DEF BatchTypes
<1>5. ASSUME NEW b \in Batches, SubmitRegisters(b) PROVE BatchTypes'
  <2>1. [batch[b] EXCEPT !.phase = "in_flight"] \in BatchRows
    BY RowTypes DEF BatchRows
  <2>2. batch' \in [Batches -> BatchRows]
    BY <1>5, <2>1 DEF SubmitRegisters, BatchTypes
  <2> QED
    BY <1>5, <2>2 DEF SubmitRegisters, BatchTypes
<1> QED
  BY <1>1, <1>2, <1>3, <1>4, <1>5, <1>6 DEF Submit

LEMMA EndTypes ==
  ASSUME BatchTypes, NEW b \in Batches, ProviderEnds(b) PROVE BatchTypes'
<1>1. PICK outcome \in [batch[b].calls -> Outcomes] :
        batch' = [batch EXCEPT ![b].ended = TRUE,
                               ![b].result = [c \in Calls |-> IF c \in batch[b].calls
                                                              THEN outcome[c] ELSE "expired"]]
  BY DEF ProviderEnds
<1> DEFINE result == [c \in Calls |-> IF c \in batch[b].calls THEN outcome[c] ELSE "expired"]
           ended  == [batch[b] EXCEPT !.ended = TRUE, !.result = result]
<1>2. result \in [Calls -> Outcomes]
  BY DEF Outcomes
<1>3. batch' = [batch EXCEPT ![b] = ended]
  BY <1>1
<1> HIDE DEF result
<1>4. ended \in BatchRows
  BY <1>2, RowTypes DEF BatchRows
<1> HIDE DEF ended
<1>5. batch' \in [Batches -> BatchRows]
  BY <1>3, <1>4 DEF BatchTypes
<1> QED
  BY <1>5 DEF ProviderEnds, BatchTypes

LEMMA PollTypes ==
  ASSUME TypeOK, BatchTypes, Polling PROVE BatchTypes'
<1>0. poll \in Passes
  BY DEF BatchTypes
<1>1. CASE PollStarts
  <2>1. poll' \in Passes
    BY <1>1, FreeTypes DEF PollStarts, Passes, InFlight
  <2> QED
    BY <1>1, <2>1 DEF PollStarts, BatchTypes
<1>2. CASE PollCloses
  <2>1. poll' \in Passes
    BY <1>0, <1>2 DEF PollCloses, Passes
  <2> QED
    BY <1>2, <2>1, FreeTypes DEF PollCloses, BatchTypes
<1>3. CASE PollDies
  BY <1>3, FreeTypes DEF PollDies, BatchTypes
<1>4. ASSUME NEW c \in Calls, TakeResult(c) PROVE BatchTypes'
  <2>1. CASE PollReads(c)
    <3>1. attempts[c] \in Nat /\ poll' = [poll EXCEPT !.reading = c, !.seen = attempts[c]]
      BY <2>1 DEF PollReads, TypeOK
    <3>2. poll' \in Passes
      BY <1>0, <3>1 DEF Passes
    <3> QED
      BY <2>1, <3>2 DEF PollReads, BatchTypes
  <2>2. CASE PollSkips(c)
    <3>1. poll' \in Passes
      BY <1>0, <2>2 DEF PollSkips, Passes
    <3> QED
      BY <2>2, <3>1 DEF PollSkips, BatchTypes
  <2>3. CASE PollSettles(c)
    <3>1. /\ poll' = [poll EXCEPT !.left = @ \ {c}, !.reading = NoCall, !.seen = 0]
          /\ UNCHANGED <<submitting, batch, orphans, due>>
      BY <2>3 DEF PollSettles, Scored, Errored, Expired, Answers
    <3>2. poll.left \ {c} \in SUBSET Calls
      BY <1>0 DEF Passes
    <3>3. poll' \in Passes
      BY <1>0, <3>1, <3>2 DEF Passes
    <3> QED
      BY <3>1, <3>3 DEF BatchTypes
  <2> QED
    BY <1>4, <2>1, <2>2, <2>3 DEF TakeResult
<1>5. ASSUME NEW b \in Batches, PollHeartbeats(b) PROVE BatchTypes'
  <2>1. poll' \in Passes
    BY <1>0, <1>5 DEF PollHeartbeats, Passes
  <2> QED
    BY <1>5, <2>1 DEF PollHeartbeats, BatchTypes
<1>6. ASSUME NEW b \in Batches, PollDrains(b) PROVE BatchTypes'
  <2>1. poll' = [poll EXCEPT !.todo = @ \ {b}, !.at = b, !.left = batch[b].calls]
    BY <1>6 DEF PollDrains
  <2>2. poll' \in Passes
    BY <1>0, <2>1, RowTypes DEF Passes
  <2> QED
    BY <1>6, <2>2 DEF PollDrains, BatchTypes
<1> QED
  BY <1>1, <1>2, <1>3, <1>4, <1>5, <1>6 DEF Polling

-------------------------------------------------------------------------------
(* What a transaction of the poller has read stays true while it is open. *)
LEMMA FedKept ==
  ASSUME BInv, \A c \in Calls : artifacts[c] \subseteq artifacts'[c],
         \/ poll'.reading \in {poll.reading, NoCall}
         \/ poll'.reading \in Calls /\ status[poll'.reading] = "SCORING"
  PROVE  ResultFed'
<1>1. poll.reading \in Calls \cup {NoCall}
  BY DEF BInv, BTypeOK, BatchTypes, Passes
<1>2. CASE poll'.reading = poll.reading
  BY <1>1, <1>2 DEF BInv, ResultFed
<1>3. CASE poll'.reading = NoCall
  BY <1>3 DEF ResultFed
<1>4. CASE poll'.reading \in Calls /\ status[poll'.reading] = "SCORING"
  BY <1>4 DEF BInv, ArtifactsInv, ArtifactsMatchStatus, ResultFed
<1> QED
  BY <1>2, <1>3, <1>4

(* The steps of a submit and of the provider: no result is taken.          *)
LEMMA SubmitKeeps == ASSUME BInv, Submit PROVE BInv'
<1> DEFINE Rows == TypeOK' /\ ClaimsRecoverable' /\ ArtifactsInv'
<1>1. ASSUME SubmitClaims \/ SubmitRejected PROVE Rows
  BY <1>1, ClaimsKeep, RejectionKeeps
<1>2. ASSUME SubmitDies \/ SubmitUnanswered PROVE Rows
  <2>1. UNCHANGED <<row, today, broker, job, retryPlan>> /\ losses' \in Nat
    BY <1>2 DEF SubmitDies, SubmitUnanswered, BInv, BTypeOK, TypeOK
  <2> QED
    BY <2>1, LossKeeps
<1>3. ASSUME NEW b \in Batches, SubmitSends(b) \/ SubmitRegisters(b) PROVE Rows
  BY <1>3, QuietStep DEF SubmitSends, SubmitRegisters
<1>4. Rows
  BY <1>1, <1>2, <1>3 DEF Submit
<1>5. UNCHANGED <<artifacts, poll>>
  BY DEF Submit, SubmitClaims, SubmitRejected, SubmitUnanswered, SubmitDies, SubmitSends,
         SubmitRegisters, vars, row
<1>6. ResultFed'
  BY <1>5, FedKept
<1>7. BatchTypes'
  BY SubmitTypes DEF BInv, BTypeOK
<1> QED
  BY <1>4, <1>6, <1>7 DEF BInv, BTypeOK

LEMMA EndKeeps == ASSUME BInv, NEW b \in Batches, ProviderEnds(b) PROVE BInv'
<1>1. UNCHANGED <<vars, poll>>
  BY DEF ProviderEnds
<1>2. TypeOK' /\ ClaimsRecoverable' /\ ArtifactsInv'
  BY <1>1, QuietStep
<1>3. ResultFed'
  BY <1>1, FedKept DEF vars, row
<1>4. BatchTypes'
  BY EndTypes DEF BInv, BTypeOK
<1> QED
  BY <1>2, <1>3, <1>4 DEF BInv, BTypeOK

LEMMA PollKeeps == ASSUME BInv, Polling PROVE BInv'
<1> DEFINE Rows == TypeOK' /\ ClaimsRecoverable' /\ ArtifactsInv'
<1>0. BatchTypes' /\ poll \in Passes
  BY PollTypes DEF BInv, BTypeOK, BatchTypes
<1>1. ASSUME PollStarts \/ PollCloses PROVE Rows /\ ResultFed'
  <2>1. UNCHANGED vars /\ poll'.reading \in {poll.reading, NoCall}
    BY <1>0, <1>1 DEF PollStarts, PollCloses, NoPass, Passes
  <2> QED
    BY <2>1, QuietStep, FedKept DEF vars, row
<1>2. ASSUME PollDies PROVE Rows /\ ResultFed'
  <2>1. /\ UNCHANGED <<row, today, broker, job, retryPlan>> /\ losses' \in Nat
        /\ poll'.reading = NoCall
    BY <1>2 DEF PollDies, NoPass, BInv, BTypeOK, TypeOK
  <2> QED
    BY <2>1, LossKeeps, FedKept DEF row
<1>3. ASSUME NEW b \in Batches, PollDrains(b) PROVE Rows /\ ResultFed'
  <2>1. UNCHANGED vars /\ poll'.reading = poll.reading
    BY <1>0, <1>3 DEF PollDrains, Passes
  <2> QED
    BY <2>1, QuietStep, FedKept DEF vars, row
<1>4. ASSUME NEW b \in Batches, PollHeartbeats(b) PROVE Rows /\ ResultFed'
  <2>1. UNCHANGED artifacts /\ poll'.reading = poll.reading
    BY <1>0, <1>4 DEF PollHeartbeats, Passes
  <2> QED
    BY <1>4, <2>1, HeartbeatKeeps, FedKept
<1>5. ASSUME NEW c \in Calls, PollReads(c) PROVE Rows /\ ResultFed'
  <2>1. UNCHANGED vars /\ poll'.reading = c /\ status[c] = "SCORING"
    BY <1>0, <1>5 DEF PollReads, Passes
  <2> QED
    BY <2>1, QuietStep, FedKept DEF vars, row
<1>6. ASSUME NEW c \in Calls, PollSkips(c) PROVE Rows /\ ResultFed'
  <2>1. UNCHANGED vars /\ poll'.reading = poll.reading
    BY <1>0, <1>6 DEF PollSkips, Passes
  <2> QED
    BY <2>1, QuietStep, FedKept DEF vars, row
<1>7. ASSUME NEW c \in Calls, PollSettles(c) PROVE Rows /\ ResultFed'
  <2>1. poll' = [poll EXCEPT !.left = @ \ {c}, !.reading = NoCall, !.seen = 0]
    BY <1>7 DEF PollSettles, Scored, Errored, Expired, Answers
  <2>2. poll'.reading = NoCall
    BY <1>0, <2>1 DEF Passes
  <2> QED
    BY <1>7, <2>2, ResultKeeps DEF ResultFed
<1> QED
  BY <1>0, <1>1, <1>2, <1>3, <1>4, <1>5, <1>6, <1>7 DEF Polling, TakeResult, BInv, BTypeOK

LEMMA BStep == BInv /\ [BNext]_bvars => BInv'
<1> SUFFICES ASSUME BInv, [BNext]_bvars PROVE BInv'
  OBVIOUS
<1>1. CASE UNCHANGED bvars
  <2>1. UNCHANGED <<vars, submitting, batch, orphans, poll, due>>
    BY <1>1 DEF bvars
  <2>2. TypeOK' /\ ClaimsRecoverable' /\ ArtifactsInv'
    BY <2>1, QuietStep
  <2>3. ResultFed'
    BY <2>1, FedKept DEF vars, row
  <2> QED
    BY <2>1, <2>2, <2>3 DEF BInv, BTypeOK, BatchTypes
<1>2. ASSUME Next, UNCHANGED <<submitting, batch, orphans, poll>>,
             IF Tick THEN BatchesServed /\ due' = (IF PollerPrompt THEN InFlight ELSE {})
                     ELSE UNCHANGED due
      PROVE  BInv'
  <2>1. TypeOK' /\ ClaimsRecoverable' /\ ArtifactsInv'
    BY <1>2, TypeStep, ClaimsStep, ArtifactsStep DEF BInv, BTypeOK
  <2>2. due' \in SUBSET Batches
    BY <1>2 DEF BInv, BTypeOK, BatchTypes, InFlight
  <2>3. ResultFed'
    BY <1>2, PipelineGrows, FedKept DEF BInv, BTypeOK
  <2> QED
    BY <1>2, <2>1, <2>2, <2>3 DEF BInv, BTypeOK, BatchTypes
<1>3. ASSUME NEW calls, OrphanEnds(calls) PROVE BInv'
  <2>1. UNCHANGED <<vars, submitting, batch, poll, due>> /\ orphans' \subseteq orphans
    BY <1>3 DEF OrphanEnds
  <2>2. TypeOK' /\ ClaimsRecoverable' /\ ArtifactsInv'
    BY <2>1, QuietStep
  <2>3. ResultFed'
    BY <2>1, FedKept DEF vars, row
  <2> QED
    BY <2>1, <2>2, <2>3 DEF BInv, BTypeOK, BatchTypes
<1> QED
  BY <1>1, <1>2, <1>3, SubmitKeeps, PollKeeps, EndKeeps DEF BNext

LEMMA BatchStart == BInit => BInv
<1>1. BInit => BatchTypes
  BY FreeTypes DEF BInit, BatchTypes
<1>2. BInit => ResultFed
  BY DEF BInit, ResultFed, NoPass
<1> QED
  BY <1>1, <1>2, PipelineStart DEF BInit, BInv, BTypeOK

(* The claim and the artifact guarantees survive the batch path: no claim a *)
(* batch holds or forgets is out of the reconciler's reach, and no result,  *)
(* however late and on whosever claim, leaves a row that promises too much. *)
THEOREM BatchesAreSafe == BSpec => [](BTypeOK /\ ClaimsRecoverable /\ ArtifactsMatchStatus)
<1>1. BInv => BTypeOK /\ ClaimsRecoverable /\ ArtifactsMatchStatus
  BY DEF BInv, ArtifactsInv
<1> QED
  BY <1>1, BatchStart, BStep, PTL DEF BSpec

-------------------------------------------------------------------------------
(***************************************************************************)
(* The batch path when queues and the poller are prompt.  A call that a    *)
(* submit or a batch holds is SCORING with a young stamp, in no queue and  *)
(* in no job; time passes only when every open batch has been looked at,   *)
(* so the stamp is at most one tick old when a heartbeat renews it, and    *)
(* the reconciler never finds it stale.  A poller that may die (PollerDies)*)
(* drains a batch twice, and the second time its calls are not its own.    *)
(***************************************************************************)
PromptPoller == PromptQueues /\ PollerPrompt /\ ~PollerDies

(* The calls of a batch that are not settled yet. *)
Owned(b) == IF poll.at = b THEN poll.left ELSE batch[b].calls

Keeps(c, age) == status[c] = "SCORING" /\ Alone(c) /\ claimAge[c] <= age

SubmitHolds == \A c \in submitting : Keeps(c, 0)
BatchesHold == \A b \in Batches : \A c \in Owned(b) : Keeps(c, IF b \in due THEN 1 ELSE 0)

(* No two of the submit and the batches hold a call together. *)
HoldersApart == \A b \in Batches :
  /\ Owned(b) \cap submitting = {}
  /\ \A a \in Batches : a # b => Owned(a) \cap Owned(b) = {}

(* A pass looks at recorded batches, drains one that has ended, and the row it *)
(* has read has not changed since.                                             *)
PassKnows ==
  /\ poll.todo \subseteq InFlight /\ poll.at \notin poll.todo
  /\ IF poll.at = NoBatch THEN poll.left = {}
     ELSE /\ poll.at \in InFlight /\ batch[poll.at].ended
          /\ poll.left \subseteq batch[poll.at].calls
  /\ poll.reading # NoCall => poll.reading \in poll.left /\ poll.seen = attempts[poll.reading]

NamesFree == \A b \in Batches : batch[b].phase = "free" => batch[b].calls = {}

BatchInv == SubmitHolds /\ BatchesHold /\ HoldersApart /\ PassKnows /\ NamesFree

(* A job runs for a tick at least, so a claim one tick old is not stale. *)
LEMMA YoungIsFresh == PromptQueues => StaleTTL["score"] \in Nat /\ 1 <= StaleTTL["score"]
<1> SUFFICES ASSUME PromptQueues PROVE StaleTTL["score"] \in Nat /\ 1 <= StaleTTL["score"]
  OBVIOUS
<1>1. "score" \in Stages
  BY DEF Stages
<1>2. JobTimeout("score") \in Nat /\ 1 <= JobTimeout("score")
  BY <1>1, PipelineAssumption DEF JobTimeout
<1> QED
  BY <1>1, <1>2, PipelineAssumption DEF PromptQueues

(***************************************************************************)
(* No step of the pipeline touches a call that is held with a young stamp: *)
(* nothing waits for it, no job commits on it, no pass but the reconciler  *)
(* moves a SCORING row, and its stamp is too young for the reconciler.     *)
(***************************************************************************)
LEMMA LeavesAlone ==
  ASSUME PromptQueues, TypeOK, ExclusionInv, [Next]_vars, NEW c \in Calls, Keeps(c, 1)
  PROVE  /\ status'[c] = "SCORING" /\ attempts'[c] = attempts[c] /\ Alone(c)'
         /\ \/ claimAge'[c] = claimAge[c]
            \/ Tick /\ claimAge'[c] <= claimAge[c] + 1
<1> DEFINE Left == /\ status'[c] = "SCORING" /\ attempts'[c] = attempts[c] /\ Alone(c)'
                   /\ \/ claimAge'[c] = claimAge[c]
                      \/ Tick /\ claimAge'[c] <= claimAge[c] + 1
<1> SUFFICES Left
  OBVIOUS
<1>1. /\ status[c] = "SCORING" /\ claimAge[c] <= 1 /\ claimAge[c] \in Int
      /\ \A s \in Stages : /\ <<s, c>> \notin pending /\ ~(queued[s][c] > 0)
                           /\ status[c] # ReadyOf(s)
      /\ \A w \in Workers : Live(w) => job[w].call # c
      /\ retryPlan[c] = "none"
  BY DEF TypeOK, Keeps, Alone, Waits, ExclusionInv, PlansFresh, NoClaim, Stages, ReadyOf
<1>2. ASSUME NEW s \in Stages, ClaimReady(s) PROVE Left
  <2>1. PICK taken \in SUBSET Claimable(s) :
          /\ status' = [d \in Calls |-> IF d \in taken THEN InFlightOf(s) ELSE status[d]]
          /\ claimAge' = [d \in Calls |-> IF d \in taken THEN 0 ELSE claimAge[d]]
          /\ pending' = pending \cup ({s} \X taken)
          /\ UNCHANGED <<attempts, queued, job>>
    BY <1>2 DEF ClaimReady
  <2>2. c \notin taken
    BY <1>1, <2>1 DEF Claimable
  <2> QED
    BY <1>1, <2>1, <2>2 DEF Alone, Waits, Live
<1>3. ASSUME NEW s \in Stages, NEW d \in Calls, EnqueueJob(s, d) PROVE Left
  <2>1. d # c /\ UNCHANGED <<status, claimAge, attempts, job>> /\ pending' \subseteq pending
    BY <1>1, <1>3 DEF EnqueueJob, row
  <2>2. \A r \in Stages : queued'[r][c] = queued[r][c]
    BY <1>3, <2>1 DEF TypeOK, EnqueueJob
  <2> QED
    BY <1>1, <2>1, <2>2 DEF Alone, Waits, Live
<1>4. ASSUME NEW s \in Stages, ReclaimStale(s) PROVE Left
  <2>1. c \notin Stale(s)
    <3>1. status[c] = InFlightOf(s) => s = "score"
      BY <1>1 DEF Stages, InFlightOf
    <3> QED
      BY <1>1, <3>1, YoungIsFresh DEF Stale
  <2> QED
    BY <1>1, <1>4, <2>1 DEF ReclaimStale, broker, Alone, Waits, Live
<1>5. ASSUME NEW s \in Stages, NEW d \in Calls, NEW w \in Workers, JobStart(w, s, d) PROVE Left
  <2>1. d # c
    BY <1>1, <1>5 DEF JobStart
  <2>2. /\ status'[c] = status[c] /\ claimAge'[c] = claimAge[c] /\ UNCHANGED <<attempts, pending>>
        /\ \A r \in Stages : queued'[r][c] = queued[r][c]
    BY <1>5, <2>1 DEF TypeOK, JobStart
  <2>3. \A v \in Workers : Live(v)' => job'[v].call # c
    BY <1>1, <1>5, <2>1 DEF TypeOK, JobStart, Live
  <2> QED
    BY <1>1, <2>2, <2>3 DEF Alone, Waits
<1>6. ASSUME NEW s \in Stages, NEW d \in Calls, JobSkips(s, d) PROVE Left
  <2>1. d # c /\ UNCHANGED <<status, claimAge, attempts, job, pending>>
    BY <1>1, <1>6 DEF JobSkips, row
  <2>2. \A r \in Stages : queued'[r][c] = queued[r][c]
    BY <1>6, <2>1 DEF TypeOK, JobSkips
  <2> QED
    BY <1>1, <2>1, <2>2 DEF Alone, Waits, Live
<1>7. ASSUME NEW w \in Workers, JobReads(w) PROVE Left
  <2>1. UNCHANGED <<status, claimAge, attempts, pending, queued>>
    BY <1>7 DEF JobReads, row, broker
  <2>2. \A v \in Workers : Live(v)' => job'[v].call # c
    BY <1>1, <1>7 DEF TypeOK, Jobs, JobReads, Live
  <2> QED
    BY <1>1, <2>1, <2>2 DEF Alone, Waits
<1>8. ASSUME NEW w \in Workers, JobSuperseded(w) \/ JobKilled(w) \/ JobTimesOut(w) PROVE Left
  <2>1. /\ UNCHANGED <<status, claimAge, attempts, pending, queued>>
        /\ job' = [job EXCEPT ![w] = IdleJob]
    BY <1>8 DEF JobSuperseded, JobKilled, JobTimesOut, row, broker, PromptQueues
  <2>2. \A v \in Workers : Live(v)' => job'[v].call # c
    BY <1>1, <2>1 DEF TypeOK, IdleJob, Live
  <2> QED
    BY <1>1, <2>1, <2>2 DEF Alone, Waits
<1>9. ASSUME NEW w \in Workers, NEW st, NEW tries, NEW held, Settle(w, st, tries, held) PROVE Left
  <2>1. job[w].call # c
    BY <1>1, <1>9 DEF Settle, Live
  <2>2. /\ status'[c] = status[c] /\ claimAge'[c] = claimAge[c] /\ attempts'[c] = attempts[c]
        /\ UNCHANGED <<pending, queued>>
    BY <1>9, <2>1 DEF TypeOK, Settle, broker
  <2>3. \A v \in Workers : Live(v)' => job'[v].call # c
    BY <1>1, <1>9 DEF TypeOK, Settle, IdleJob, Live
  <2> QED
    BY <1>1, <2>2, <2>3 DEF Alone, Waits
<1>10. ASSUME NEW w \in Workers, JobSucceeds(w) \/ JobParks(w) \/ JobFails(w) PROVE Left
  BY <1>9, <1>10 DEF JobSucceeds, JobParks, JobFails
<1>11. CASE DispatchLost \/ QueuesLost
  <2>1. /\ UNCHANGED <<status, claimAge, attempts, job>>
        /\ pending' \subseteq pending /\ \A s \in Stages : ~(queued'[s][c] > 0)
    <3>1. CASE DispatchLost
      BY <1>1, <3>1 DEF DispatchLost, row
    <3>2. CASE QueuesLost
      BY <1>1, <3>2 DEF QueuesLost, row
    <3> QED
      BY <1>11, <3>1, <3>2
  <2> QED
    BY <1>1, <2>1 DEF Alone, Waits, Live
<1>12. CASE RetryWrites
  BY <1>1, <1>12 DEF RetryWrites, broker, Alone, Waits, Live
<1>13. CASE Backfill
  BY <1>1, <1>13 DEF Backfill, RequeuePendingKk, RequeueScoredForRelabel, RequeueBatch, broker,
                     Alone, Waits, Live
<1>14. ASSUME NEW d \in Calls, NEW inScope \in BOOLEAN, ApplyScope(d, inScope) PROVE Left
  BY <1>1, <1>14 DEF TypeOK, ApplyScope, broker, Alone, Waits, Live
<1>15. CASE RetryReads \/ Midnight \/ UNCHANGED vars
  BY <1>1, <1>15 DEF RetryReads, Midnight, row, broker, vars, Alone, Waits, Live
<1>17. ASSUME NEW d \in Calls, ClientFactsChange(d) PROVE Left
  BY <1>1, <1>17 DEF ClientFactsChange, broker, Alone, Waits, Live
<1>16. CASE Tick
  <2>1. /\ UNCHANGED <<status, attempts, pending, queued>>
        /\ claimAge'[c] <= claimAge[c] + 1
    BY <1>1, <1>16 DEF Tick, broker
  <2>2. \A v \in Workers : Live(v)' => job'[v].call # c
    BY <1>1, <1>16 DEF TypeOK, Jobs, Tick, Live
  <2> QED
    BY <1>1, <1>16, <2>1, <2>2 DEF Alone, Waits
<1> QED
  BY <1>2, <1>3, <1>4, <1>5, <1>6, <1>7, <1>8, <1>10, <1>11, <1>12, <1>13, <1>14, <1>15, <1>16,
     <1>17
     DEF Next, Dispatch, TakeJob, FinishJob, Losing, Retrying

-----------------------------------------------------------------------------
(* A step that takes no call for a submit or a batch and leaves theirs alone. *)
LEMMA HoldersKept ==
  ASSUME BTypeOK, BatchInv, UNCHANGED <<pending, queued, job>>, submitting' \subseteq submitting,
         \A b \in Batches : Owned(b)' \subseteq Owned(b),
         \A c \in submitting' : status'[c] = status[c] /\ claimAge'[c] = claimAge[c],
         \A b \in Batches : \A c \in Owned(b)' :
           /\ status'[c] = status[c] /\ claimAge'[c] \in {0, claimAge[c]}
           /\ b \in due => b \in due' \/ claimAge'[c] = 0
  PROVE  SubmitHolds' /\ BatchesHold' /\ HoldersApart'
<1>1. \A c \in Calls : Alone(c) => Alone(c)'
  BY DEF Alone, Waits, Live
<1>2. /\ \A b \in Batches : Owned(b) \subseteq Calls
      /\ submitting \subseteq Calls
  BY DEF BTypeOK, BatchTypes, Passes, BatchRows, Owned
<1>3. SubmitHolds'
  BY <1>1, <1>2 DEF BatchInv, SubmitHolds, Keeps
<1>4. BatchesHold'
  <2> SUFFICES ASSUME NEW b \in Batches, NEW c \in Owned(b)'
               PROVE  Keeps(c, IF b \in due THEN 1 ELSE 0)'
    BY DEF BatchesHold
  <2>1. c \in Calls /\ Keeps(c, IF b \in due THEN 1 ELSE 0)
    BY <1>2 DEF BatchInv, BatchesHold
  <2>2. claimAge[c] \in Int /\ claimAge'[c] <= (IF b \in due THEN 1 ELSE 0)
    BY <2>1 DEF BTypeOK, TypeOK, NoClaim, Keeps
  <2>3. claimAge'[c] <= (IF b \in due' THEN 1 ELSE 0)
    BY <2>2
  <2> QED
    BY <1>1, <2>1, <2>3 DEF Keeps
<1>5. HoldersApart'
  BY DEF BatchInv, HoldersApart
<1> QED
  BY <1>3, <1>4, <1>5

(* What a call that is held knows of itself. *)
LEMMA HeldFacts ==
  ASSUME BTypeOK, BatchInv
  PROVE  /\ \A c \in submitting : c \in Calls /\ status[c] = "SCORING" /\ Alone(c) /\ Keeps(c, 1)
         /\ \A b \in Batches : \A c \in Owned(b) :
              c \in Calls /\ status[c] = "SCORING" /\ Alone(c) /\ Keeps(c, 1)
         /\ poll.left # {} => poll.at \in Batches /\ Owned(poll.at) = poll.left
<1>1. /\ \A b \in Batches : Owned(b) \subseteq Calls
      /\ submitting \subseteq Calls
      /\ \A c \in Calls : claimAge[c] \in Int
  BY DEF BTypeOK, BatchTypes, Passes, BatchRows, Owned, TypeOK, NoClaim
<1>2. \A c \in submitting : Keeps(c, 0)
  BY DEF BatchInv, SubmitHolds
<1>3. \A b \in Batches : \A c \in Owned(b) : Keeps(c, 0) \/ Keeps(c, 1)
  BY DEF BatchInv, BatchesHold
<1>4. \A c \in Calls : Keeps(c, 0) => Keeps(c, 1)
  BY <1>1 DEF Keeps
<1>5. poll.left # {} => poll.at \in Batches /\ Owned(poll.at) = poll.left
  BY DEF BTypeOK, BatchTypes, Passes, BatchInv, PassKnows, Owned
<1> QED
  BY <1>1, <1>2, <1>3, <1>4, <1>5 DEF Keeps

(* The pipeline beside the holders; time passes only when every batch is served. *)
LEMMA PipelineSpares ==
  ASSUME PromptPoller, BTypeOK, ExclusionInv, BatchInv, Next, UNCHANGED <<submitting, batch, poll>>,
         IF Tick THEN BatchesServed /\ due' = (IF PollerPrompt THEN InFlight ELSE {})
                 ELSE UNCHANGED due
  PROVE  BatchInv'
<1>1. \A c \in Calls : Keeps(c, 1) =>
        /\ status'[c] = "SCORING" /\ attempts'[c] = attempts[c] /\ Alone(c)'
        /\ \/ claimAge'[c] = claimAge[c]
           \/ Tick /\ claimAge'[c] <= claimAge[c] + 1
  BY LeavesAlone DEF PromptPoller, BTypeOK
<1>2. \A b \in Batches : Owned(b)' = Owned(b)
  BY DEF Owned
<1>3. HoldersApart' /\ NamesFree'
  BY <1>2 DEF BatchInv, HoldersApart, NamesFree
<1>4. PassKnows'
  BY <1>1, HeldFacts DEF BatchInv, PassKnows, InFlight
<1>5. SubmitHolds'
  <2> SUFFICES ASSUME NEW c \in submitting PROVE Keeps(c, 0)'
    BY DEF SubmitHolds
  <2>1. ~Tick
    BY DEF PromptPoller, BatchesServed
  <2> QED
    BY <1>1, <2>1, HeldFacts DEF BatchInv, SubmitHolds, Keeps
<1>6. BatchesHold'
  <2> SUFFICES ASSUME NEW b \in Batches, NEW c \in Owned(b)
               PROVE  Keeps(c, IF b \in due THEN 1 ELSE 0)'
    BY <1>2 DEF BatchesHold
  <2>1. Keeps(c, IF b \in due THEN 1 ELSE 0) /\ c \in Calls /\ claimAge[c] \in Int
    BY HeldFacts DEF BatchInv, BatchesHold, BTypeOK, TypeOK, NoClaim
  <2>2. CASE ~Tick
    BY <1>1, <2>1, <2>2, HeldFacts DEF Keeps
  <2>3. CASE Tick
    <3>1. due = {} /\ Accepted = {} /\ due' = InFlight
      BY <2>3 DEF PromptPoller, BatchesServed
    <3>2. b \in InFlight
      BY <3>1 DEF BTypeOK, BatchTypes, BatchRows, BatchInv, PassKnows, NamesFree, Owned,
                  InFlight, Accepted
    <3>3. claimAge[c] <= 0
      BY <2>1, <3>1 DEF Keeps
    <3>4. claimAge'[c] <= 1 /\ status'[c] = "SCORING" /\ Alone(c)'
      <4>1. Keeps(c, 1)
        BY HeldFacts
      <4>2. /\ status'[c] = "SCORING" /\ Alone(c)'
            /\ claimAge'[c] = claimAge[c] \/ claimAge'[c] <= claimAge[c] + 1
        BY <1>1, <2>1, <4>1
      <4>3. claimAge'[c] \in Int
        BY <2>1, <2>3 DEF Tick
      <4> QED
        BY <2>1, <3>3, <4>2, <4>3
    <3> QED
      BY <3>1, <3>2, <3>4 DEF Keeps
  <2> QED
    BY <2>2, <2>3
<1> QED
  BY <1>3, <1>4, <1>5, <1>6 DEF BatchInv

-----------------------------------------------------------------------------
(* A step of a submit. *)
LEMMA SubmitSpares ==
  ASSUME PromptPoller, BTypeOK, ExclusionInv, ArtifactsInv, BatchInv, Submit
  PROVE  ExclusionInv' /\ BatchInv'
<1>1. /\ poll \in Passes /\ batch \in [Batches -> BatchRows] /\ submitting \in SUBSET Calls
      /\ NoBatch \notin Batches
      /\ poll.at # NoBatch => poll.at \in InFlight
  BY BatchAssumption DEF BTypeOK, BatchTypes, BatchInv, PassKnows
<1>2. CASE SubmitClaims
  <2>1. PICK claimed \in SUBSET {c \in analyzable : status[c] = "TRANSCRIBED"} :
          LET covered == {c \in claimed : HasInput("score", artifacts[c])}
              failed  == claimed \ covered
          IN /\ submitting' = covered
             /\ status' = [c \in Calls |-> IF c \in covered THEN "SCORING"
                                           ELSE IF c \in failed THEN "FAILED" ELSE status[c]]
             /\ claimAge' = [c \in Calls |-> IF c \in covered THEN 0
                                             ELSE IF c \in failed THEN NoClaim ELSE claimAge[c]]
             /\ attempts' = [c \in Calls |-> IF c \in failed THEN attempts[c] + 1 ELSE attempts[c]]
    BY <1>2 DEF SubmitClaims
  <2>2. UNCHANGED <<artifacts, pending, queued, job, retryPlan, poll, batch, due>>
    BY <1>2 DEF SubmitClaims, broker
  <2>3. \A c \in claimed : c \in Calls /\ HasInput("score", artifacts[c])
    BY <2>1 DEF BTypeOK, TypeOK, ArtifactsInv, ArtifactsMatchStatus, Needs, HasInput
  <2>4. /\ submitting' = claimed /\ attempts' = attempts
        /\ \A c \in Calls : /\ status'[c] = IF c \in claimed THEN "SCORING" ELSE status[c]
                            /\ claimAge'[c] = IF c \in claimed THEN 0 ELSE claimAge[c]
    <3>1. {c \in claimed : HasInput("score", artifacts[c])} = claimed /\ claimed \ claimed = {}
      BY <2>3
    <3>2. attempts' = [c \in Calls |-> attempts[c]]
      BY <2>1, <3>1
    <3> QED
      BY <2>1, <3>1, <3>2 DEF BTypeOK, TypeOK
  <2>5. \A c \in claimed : Alone(c) /\ retryPlan[c] = "none" /\ status[c] = "TRANSCRIBED"
    <3> SUFFICES ASSUME NEW c \in claimed
                 PROVE  Alone(c) /\ retryPlan[c] = "none" /\ status[c] = "TRANSCRIBED"
      OBVIOUS
    <3>1. c \in Calls /\ status[c] = "TRANSCRIBED" /\ \A s \in Stages : status[c] # InFlightOf(s)
      BY <2>3 DEF Stages, InFlightOf
    <3>2. Alone(c)
      BY <3>1, AtRest DEF BTypeOK, Alone, Waits
    <3> QED
      BY <3>1, <3>2 DEF ExclusionInv, PlansFresh
  <2>6. ExclusionInv'
    <3>1. \A c \in Calls : c \notin claimed =>
            status'[c] = status[c] /\ claimAge'[c] = claimAge[c]
      BY <2>4
    <3> QED
      BY <2>2, <2>4, <2>5, <3>1, AloneMoves DEF BTypeOK
  <2>7. \A c \in Calls : Alone(c) => Alone(c)'
    BY <2>2 DEF Alone, Waits, Live
  <2>8. \A b \in Batches : Owned(b)' = Owned(b) /\ Owned(b) \cap claimed = {}
    BY <2>2, <2>5, HeldFacts DEF Owned
  <2>9. SubmitHolds' /\ HoldersApart'
    <3>1. \A c \in claimed : c \in Calls /\ status'[c] = "SCORING" /\ Alone(c)' /\ claimAge'[c] <= 0
      BY <2>3, <2>4, <2>5, <2>7
    <3> QED
      BY <2>4, <2>8, <3>1 DEF BatchInv, SubmitHolds, HoldersApart, Keeps
  <2>10. BatchesHold'
    <3> SUFFICES ASSUME NEW b \in Batches, NEW c \in Owned(b)
                 PROVE  Keeps(c, IF b \in due THEN 1 ELSE 0)'
      BY <2>8 DEF BatchesHold
    <3>1. c \in Calls /\ c \notin claimed /\ Keeps(c, IF b \in due THEN 1 ELSE 0)
      BY <2>8, HeldFacts DEF BatchInv, BatchesHold
    <3> QED
      BY <2>2, <2>4, <2>7, <3>1 DEF Keeps
  <2>11. PassKnows' /\ NamesFree'
    BY <2>2, <2>4 DEF BatchInv, PassKnows, NamesFree, InFlight
  <2> QED
    BY <2>6, <2>9, <2>10, <2>11 DEF BatchInv
<1>3. CASE SubmitRejected
  <2>1. PICK chunk \in SUBSET submitting :
          LET released == {c \in chunk : status[c] = "SCORING"} IN
            /\ status' = [c \in Calls |-> IF c \in released THEN "TRANSCRIBED" ELSE status[c]]
            /\ claimAge' = [c \in Calls |-> IF c \in released THEN NoClaim ELSE claimAge[c]]
            /\ submitting' = submitting \ chunk
    BY <1>3 DEF SubmitRejected
  <2>2. UNCHANGED <<attempts, artifacts, pending, queued, job, retryPlan, poll, batch, due>>
    BY <1>3 DEF SubmitRejected, broker
  <2>3. \A c \in Calls \ chunk : status'[c] = status[c] /\ claimAge'[c] = claimAge[c]
    BY <2>1
  <2>4. \A c \in chunk : Alone(c) /\ retryPlan[c] = "none"
    BY <2>1, HeldFacts DEF ExclusionInv, PlansFresh
  <2>5. ExclusionInv'
    BY <2>2, <2>3, <2>4, AloneMoves DEF BTypeOK
  <2>6. \A b \in Batches : Owned(b)' = Owned(b) /\ Owned(b) \cap chunk = {}
    BY <2>1, <2>2 DEF Owned, BatchInv, HoldersApart
  <2>7. SubmitHolds' /\ BatchesHold' /\ HoldersApart'
    BY <2>1, <2>2, <2>3, <2>6, HeldFacts, HoldersKept
  <2>8. PassKnows' /\ NamesFree'
    BY <2>2 DEF BatchInv, PassKnows, NamesFree, InFlight
  <2> QED
    BY <2>5, <2>7, <2>8 DEF BatchInv
<1>4. CASE SubmitDies
  <2>1. /\ submitting' = {} /\ UNCHANGED <<row, broker, job, retryPlan, poll, due>>
        /\ batch' = [b \in Batches |-> IF b \in Accepted THEN FreeBatch ELSE batch[b]]
    BY <1>4 DEF SubmitDies
  <2>2. ExclusionInv'
    BY <2>1, AloneMoves DEF BTypeOK, row, broker
  <2>3. \A b \in Batches : b \in InFlight => b \in InFlight' /\ batch'[b] = batch[b]
    BY <2>1 DEF InFlight, Accepted
  <2>4. \A b \in Batches : Owned(b)' \subseteq Owned(b)
    BY <1>1, <2>1, <2>3 DEF Owned, FreeBatch
  <2>5. SubmitHolds' /\ BatchesHold' /\ HoldersApart'
    BY <2>1, <2>4, HoldersKept DEF row, broker
  <2>6. PassKnows'
    BY <2>1, <2>3 DEF BatchInv, PassKnows, row, InFlight
  <2>7. NamesFree'
    BY <2>1 DEF BatchInv, NamesFree, FreeBatch
  <2> QED
    BY <2>2, <2>5, <2>6, <2>7 DEF BatchInv
<1>7. CASE SubmitUnanswered
  <2>1. UNCHANGED <<row, broker, job, retryPlan, submitting, batch, poll, due>>
    BY <1>7 DEF SubmitUnanswered
  <2>2. ExclusionInv'
    BY <2>1, AloneMoves DEF BTypeOK, row, broker
  <2>3. \A b \in Batches : Owned(b)' = Owned(b)
    BY <2>1 DEF Owned
  <2>4. SubmitHolds' /\ BatchesHold' /\ HoldersApart'
    BY <2>1, <2>3, HoldersKept DEF row, broker
  <2>5. PassKnows' /\ NamesFree'
    BY <2>1 DEF BatchInv, PassKnows, NamesFree, InFlight, row
  <2> QED
    BY <2>2, <2>4, <2>5 DEF BatchInv
<1>5. ASSUME NEW b \in Batches, SubmitSends(b) PROVE ExclusionInv' /\ BatchInv'
  <2>1. PICK chunk \in SUBSET submitting :
          /\ batch' = [batch EXCEPT ![b].phase = "accepted", ![b].calls = chunk]
          /\ submitting' = submitting \ chunk /\ batch[b].phase = "free"
          /\ UNCHANGED <<vars, poll, due>>
    BY <1>5 DEF SubmitSends
  <2>2. /\ batch'[b].calls = chunk /\ batch'[b].phase = "accepted"
        /\ \A a \in Batches \ {b} : batch'[a] = batch[a]
    BY <1>1, <2>1 DEF BatchRows
  <2>3. poll.at # b /\ b \notin InFlight /\ InFlight' = InFlight
    BY <1>1, <2>1, <2>2, BatchAssumption DEF InFlight
  <2>4. Owned(b)' = chunk /\ \A a \in Batches \ {b} : Owned(a)' = Owned(a)
    <3>1. poll' = poll
      BY <2>1
    <3> QED
      BY <2>2, <2>3, <3>1 DEF Owned
  <2>5. ExclusionInv'
    BY <2>1, AloneMoves DEF BTypeOK, vars
  <2>7. SubmitHolds'
    BY <1>1, <2>1 DEF BatchInv, SubmitHolds, vars, Keeps, Alone, Waits, Live
  <2>8. BatchesHold'
    <3> SUFFICES ASSUME NEW a \in Batches, NEW c \in Owned(a)'
                 PROVE  Keeps(c, IF a \in due THEN 1 ELSE 0)
      BY <2>1 DEF BatchesHold, vars, Keeps, Alone, Waits, Live
    <3>1. CASE a # b
      BY <2>4, <3>1 DEF BatchInv, BatchesHold
    <3>2. CASE a = b
      BY <2>1, <2>4, <3>2, HeldFacts DEF BatchInv, SubmitHolds, Keeps
    <3> QED
      BY <3>1, <3>2
  <2>9. HoldersApart'
    BY <2>1, <2>4 DEF BatchInv, HoldersApart
  <2>10. PassKnows'
    <3>1. poll' = poll /\ attempts' = attempts
      BY <2>1 DEF vars
    <3>2. poll.at # NoBatch => batch'[poll.at] = batch[poll.at]
      BY <1>1, <2>2, <2>3 DEF InFlight
    <3> QED
      BY <2>3, <3>1, <3>2 DEF BatchInv, PassKnows
  <2>11. NamesFree'
    BY <2>2 DEF BatchInv, NamesFree
  <2> QED
    BY <2>5, <2>7, <2>8, <2>9, <2>10, <2>11 DEF BatchInv
<1>6. ASSUME NEW b \in Batches, SubmitRegisters(b) PROVE ExclusionInv' /\ BatchInv'
  <2>1. batch' = [batch EXCEPT ![b].phase = "in_flight"] /\ UNCHANGED <<vars, submitting, poll, due>>
    BY <1>6 DEF SubmitRegisters
  <2>2. /\ batch'[b].calls = batch[b].calls /\ batch'[b].ended = batch[b].ended
        /\ batch'[b].phase = "in_flight"
        /\ \A a \in Batches \ {b} : batch'[a] = batch[a]
    BY <1>1, <2>1 DEF BatchRows
  <2>3. ExclusionInv'
    BY <2>1, AloneMoves DEF BTypeOK, vars
  <2>4. \A a \in Batches : Owned(a)' = Owned(a)
    BY <2>1, <2>2 DEF Owned
  <2>5. SubmitHolds' /\ BatchesHold' /\ HoldersApart'
    BY <2>1, <2>4, HoldersKept DEF vars
  <2>6. PassKnows' /\ NamesFree'
    BY <1>1, <2>1, <2>2 DEF BatchInv, PassKnows, NamesFree, InFlight, vars
  <2> QED
    BY <2>3, <2>5, <2>6 DEF BatchInv
<1> QED
  BY <1>2, <1>3, <1>4, <1>5, <1>6, <1>7 DEF Submit

-----------------------------------------------------------------------------
(* The transaction that settles a result finds the row as it has read it, and *)
(* nobody else holds the call.                                                *)
LEMMA SettlesHeld ==
  ASSUME BTypeOK, ExclusionInv, BatchInv, NEW c \in Calls, PollSettles(c)
  PROVE  /\ poll.at \in Batches /\ c \in Owned(poll.at) /\ poll.seen = attempts[c]
         /\ status[c] = "SCORING" /\ Alone(c) /\ retryPlan[c] = "none"
         /\ c \notin submitting /\ \A b \in Batches \ {poll.at} : c \notin Owned(b)
<1>1. c \in poll.left /\ poll.seen = attempts[c]
  BY PipelineAssumption DEF PollSettles, BatchInv, PassKnows
<1>2. poll.at \in Batches /\ c \in Owned(poll.at)
  BY <1>1, HeldFacts
<1>3. c \notin submitting /\ \A b \in Batches \ {poll.at} : c \notin Owned(b)
  BY <1>2 DEF BatchInv, HoldersApart
<1> QED
  BY <1>1, <1>2, <1>3, HeldFacts DEF ExclusionInv, PlansFresh

(* What a settled result writes. *)
LEMMA SettledRow ==
  ASSUME BTypeOK, NEW c \in Calls, PollSettles(c)
  PROVE  /\ poll' = [poll EXCEPT !.left = @ \ {c}, !.reading = NoCall, !.seen = 0]
         /\ \A d \in Calls \ {c} : /\ status'[d] = status[d] /\ claimAge'[d] = claimAge[d]
                                   /\ attempts'[d] = attempts[d] /\ artifacts'[d] = artifacts[d]
         /\ UNCHANGED <<pending, queued, job, retryPlan, submitting, batch, due>>
         /\ \/ /\ status'[c] = "SCORED" /\ attempts'[c] = attempts[c]
               /\ artifacts'[c] = artifacts[c] \cup {"score"}
            \/ /\ status'[c] = "FAILED" /\ attempts'[c] = poll.seen + 1
               /\ artifacts'[c] = artifacts[c]
            \/ /\ status'[c] = "TRANSCRIBED" /\ attempts'[c] = attempts[c]
               /\ artifacts'[c] = artifacts[c]
<1>1. Scored(c) \/ Errored(c) \/ Expired(c)
  BY DEF PollSettles
<1>2. ASSUME NEW st, NEW tries, NEW held, Answers(c, st, tries, held)
      PROVE  /\ poll' = [poll EXCEPT !.left = @ \ {c}, !.reading = NoCall, !.seen = 0]
             /\ \A d \in Calls \ {c} : /\ status'[d] = status[d] /\ claimAge'[d] = claimAge[d]
                                       /\ attempts'[d] = attempts[d] /\ artifacts'[d] = artifacts[d]
             /\ UNCHANGED <<pending, queued, job, retryPlan, submitting, batch, due>>
             /\ status'[c] = st /\ attempts'[c] = tries /\ artifacts'[c] = held
  BY <1>2 DEF Answers, BTypeOK, TypeOK, broker
<1> QED
  BY <1>1, <1>2 DEF Scored, Errored, Expired

(* A step of the poller. *)
LEMMA PollSpares ==
  ASSUME PromptPoller, BTypeOK, ExclusionInv, BatchInv, Polling
  PROVE  ExclusionInv' /\ BatchInv'
<1>1. /\ poll \in Passes /\ batch \in [Batches -> BatchRows] /\ NoBatch \notin Batches
      /\ NoCall \notin Calls /\ poll.left \subseteq Calls
  BY BatchAssumption, PipelineAssumption DEF BTypeOK, BatchTypes, Passes
<1>2. ASSUME UNCHANGED <<vars, submitting>>, \A b \in Batches : Owned(b)' \subseteq Owned(b),
             \A b \in due \ due' : Owned(b)' = {}
      PROVE  ExclusionInv' /\ SubmitHolds' /\ BatchesHold' /\ HoldersApart'
  <2>1. ExclusionInv'
    BY <1>2, AloneMoves DEF BTypeOK, vars
  <2> QED
    BY <1>2, <2>1, HoldersKept DEF vars
<1>3. CASE PollStarts
  <2>1. /\ poll' = [NoPass EXCEPT !.todo = InFlight] /\ poll = NoPass
        /\ UNCHANGED <<vars, submitting, batch, due>>
    BY <1>3 DEF PollStarts
  <2>2. /\ poll.at = NoBatch /\ poll'.at = NoBatch /\ poll'.todo = InFlight
        /\ poll'.left = {} /\ poll'.reading = NoCall
    BY <2>1 DEF NoPass
  <2>3. \A b \in Batches : Owned(b)' = Owned(b)
    BY <1>1, <2>1, <2>2 DEF Owned
  <2>4. PassKnows' /\ NamesFree'
    BY <1>1, <2>1, <2>2 DEF BatchInv, PassKnows, NamesFree, InFlight
  <2> QED
    BY <1>2, <2>1, <2>3, <2>4 DEF BatchInv
<1>4. CASE PollCloses
  <2>1. /\ poll.at # NoBatch /\ poll.left = {} /\ due' = due \ {poll.at}
        /\ batch' = [batch EXCEPT ![poll.at] = FreeBatch] /\ poll' = [poll EXCEPT !.at = NoBatch]
        /\ UNCHANGED <<vars, submitting>>
    BY <1>4 DEF PollCloses
  <2>2. /\ poll'.at = NoBatch /\ poll'.todo = poll.todo /\ poll'.left = {}
        /\ poll'.reading = poll.reading /\ poll'.seen = poll.seen
    BY <1>1, <2>1 DEF Passes
  <2>3. /\ poll.at \in Batches /\ batch'[poll.at] = FreeBatch
        /\ \A b \in Batches \ {poll.at} : batch'[b] = batch[b]
    BY <1>1, <2>1 DEF Passes
  <2>4. \A b \in Batches : Owned(b)' = Owned(b)
    BY <1>1, <2>1, <2>2, <2>3 DEF Owned, FreeBatch
  <2>5. \A b \in due \ due' : Owned(b)' = {}
    BY <2>1, <2>3, <2>4 DEF Owned
  <2>6. PassKnows'
    BY <1>1, <2>1, <2>2, <2>3 DEF BatchInv, PassKnows, InFlight, vars
  <2>7. NamesFree'
    BY <2>3 DEF BatchInv, NamesFree, FreeBatch
  <2> QED
    BY <1>2, <2>1, <2>4, <2>5, <2>6, <2>7 DEF BatchInv
<1>5. CASE PollDies
  BY <1>5 DEF PollDies, PromptPoller
<1>6. ASSUME NEW c \in Calls, PollReads(c) PROVE ExclusionInv' /\ BatchInv'
  <2>1. /\ c \in poll.left /\ poll' = [poll EXCEPT !.reading = c, !.seen = attempts[c]]
        /\ UNCHANGED <<vars, submitting, batch, due>>
    BY <1>6 DEF PollReads
  <2>2. /\ poll'.at = poll.at /\ poll'.todo = poll.todo /\ poll'.left = poll.left
        /\ poll'.reading = c /\ poll'.seen = attempts[c]
    BY <1>1, <2>1 DEF Passes
  <2>3. \A b \in Batches : Owned(b)' = Owned(b)
    BY <2>1, <2>2 DEF Owned
  <2>4. PassKnows' /\ NamesFree'
    BY <2>1, <2>2 DEF BatchInv, PassKnows, NamesFree, InFlight, vars
  <2> QED
    BY <1>2, <2>1, <2>3, <2>4 DEF BatchInv
<1>7. ASSUME NEW c \in Calls, PollSkips(c) PROVE ExclusionInv' /\ BatchInv'
  <2>1. /\ poll.reading = NoCall /\ poll' = [poll EXCEPT !.left = @ \ {c}]
        /\ UNCHANGED <<vars, submitting, batch, due>>
    BY <1>7 DEF PollSkips
  <2>2. /\ poll'.at = poll.at /\ poll'.todo = poll.todo /\ poll'.left = poll.left \ {c}
        /\ poll'.reading = NoCall
    BY <1>1, <2>1 DEF Passes
  <2>3. \A b \in Batches : Owned(b)' \subseteq Owned(b)
    BY <2>1, <2>2 DEF Owned
  <2>4. PassKnows' /\ NamesFree'
    BY <2>1, <2>2 DEF BatchInv, PassKnows, NamesFree, InFlight, vars
  <2> QED
    BY <1>2, <2>1, <2>3, <2>4 DEF BatchInv
<1>8. ASSUME NEW c \in Calls, PollSettles(c) PROVE ExclusionInv' /\ BatchInv'
  <2>1. /\ poll'.at = poll.at /\ poll'.todo = poll.todo /\ poll'.left = poll.left \ {c}
        /\ poll'.reading = NoCall
    BY <1>1, <1>8, SettledRow DEF Passes
  <2>2. UNCHANGED <<pending, queued, job, retryPlan, submitting, batch, due>>
    BY <1>8, SettledRow
  <2>3. \A d \in Calls \ {c} : /\ status'[d] = status[d] /\ claimAge'[d] = claimAge[d]
                               /\ attempts'[d] = attempts[d] /\ artifacts'[d] = artifacts[d]
    BY <1>8, SettledRow
  <2>4. ExclusionInv'
    BY <1>8, <2>2, <2>3, SettlesHeld, AloneMoves DEF BTypeOK
  <2>5. \A b \in Batches : Owned(b)' = Owned(b) \ {c}
    BY <1>8, <2>1, <2>2, SettlesHeld DEF Owned
  <2>6. \A d \in submitting : d \in Calls \ {c}
    BY <1>8, SettlesHeld, HeldFacts
  <2>7. \A b \in Batches : \A d \in Owned(b)' : d \in Calls \ {c}
    BY <2>5, HeldFacts
  <2>8. SubmitHolds' /\ BatchesHold' /\ HoldersApart'
    BY <2>2, <2>3, <2>5, <2>6, <2>7, HoldersKept
  <2>9. PassKnows' /\ NamesFree'
    BY <2>1, <2>2 DEF BatchInv, PassKnows, NamesFree, InFlight
  <2> QED
    BY <2>4, <2>8, <2>9 DEF BatchInv
<1>9. ASSUME NEW b \in Batches, PollHeartbeats(b) PROVE ExclusionInv' /\ BatchInv'
  <2>1. /\ poll.at = NoBatch /\ b \in poll.todo /\ due' = due \ {b}
        /\ claimAge' = [c \in Calls |-> IF c \in batch[b].calls /\ status[c] = "SCORING"
                                        THEN 0 ELSE claimAge[c]]
        /\ poll' = [poll EXCEPT !.todo = @ \ {b}]
        /\ UNCHANGED <<status, attempts, artifacts, pending, queued, job, retryPlan, submitting, batch>>
    BY <1>9 DEF PollHeartbeats, broker
  <2>2. /\ poll'.at = NoBatch /\ poll'.todo = poll.todo \ {b} /\ poll'.left = poll.left
        /\ poll'.reading = poll.reading /\ poll'.seen = poll.seen
    BY <1>1, <2>1 DEF Passes
  <2>3. /\ \A a \in Batches : Owned(a)' = Owned(a)
        /\ Owned(b) = batch[b].calls
    BY <1>1, <2>1, <2>2 DEF Owned
  <2>4. \A c \in Owned(b) : claimAge'[c] = 0 /\ Alone(c) /\ retryPlan[c] = "none"
    BY <2>1, <2>3, HeldFacts DEF ExclusionInv, PlansFresh
  <2>5. \A c \in Calls \ Owned(b) : claimAge'[c] = claimAge[c]
    BY <2>1, <2>3
  <2>6. ExclusionInv'
    BY <2>1, <2>4, <2>5, AloneMoves DEF BTypeOK
  <2>7. SubmitHolds' /\ BatchesHold' /\ HoldersApart'
    <3>1. \A c \in submitting : c \in Calls \ Owned(b)
      BY HeldFacts DEF BatchInv, HoldersApart
    <3>2. \A a \in Batches : \A c \in Owned(a) : c \in Calls
      BY HeldFacts
    <3> QED
      BY <2>1, <2>3, <2>4, <2>5, <3>1, <3>2, HoldersKept
  <2>8. PassKnows' /\ NamesFree'
    BY <2>1, <2>2 DEF BatchInv, PassKnows, NamesFree, InFlight
  <2> QED
    BY <2>6, <2>7, <2>8 DEF BatchInv
<1>10. ASSUME NEW b \in Batches, PollDrains(b) PROVE ExclusionInv' /\ BatchInv'
  <2>1. /\ poll.at = NoBatch /\ b \in poll.todo /\ batch[b].ended
        /\ poll' = [poll EXCEPT !.todo = @ \ {b}, !.at = b, !.left = batch[b].calls]
        /\ UNCHANGED <<vars, submitting, batch, due>>
    BY <1>10 DEF PollDrains
  <2>2. /\ poll'.at = b /\ poll'.todo = poll.todo \ {b} /\ poll'.left = batch[b].calls
        /\ poll'.reading = poll.reading /\ poll'.seen = poll.seen
    BY <1>1, <2>1 DEF Passes
  <2>3. \A a \in Batches : Owned(a)' = Owned(a)
    BY <1>1, <2>1, <2>2 DEF Owned
  <2>4. PassKnows' /\ NamesFree'
    BY <1>1, <2>1, <2>2 DEF BatchInv, PassKnows, NamesFree, InFlight
  <2> QED
    BY <1>2, <2>1, <2>3, <2>4 DEF BatchInv
<1> QED
  BY <1>3, <1>4, <1>5, <1>6, <1>7, <1>8, <1>9, <1>10 DEF Polling, TakeResult

(* The provider ends a batch: no row and no holder changes. *)
LEMMA EndSpares ==
  ASSUME BTypeOK, ExclusionInv, BatchInv, NEW b \in Batches, ProviderEnds(b)
  PROVE  ExclusionInv' /\ BatchInv'
<1>1. PICK outcome :
        /\ batch' = [batch EXCEPT ![b].ended = TRUE,
                               ![b].result = [c \in Calls |-> IF c \in batch[b].calls
                                                              THEN outcome[c] ELSE "expired"]]
        /\ UNCHANGED <<vars, submitting, poll, due>>
  BY DEF ProviderEnds
<1>2. /\ batch \in [Batches -> BatchRows] /\ poll \in Passes
  BY DEF BTypeOK, BatchTypes
<1>3. \A a \in Batches : /\ batch'[a].calls = batch[a].calls /\ batch'[a].phase = batch[a].phase
                         /\ batch[a].ended => batch'[a].ended
  BY <1>1, <1>2 DEF BatchRows
<1>4. ExclusionInv'
  BY <1>1, AloneMoves DEF BTypeOK, vars
<1>5. \A a \in Batches : Owned(a)' = Owned(a)
  BY <1>1, <1>3 DEF Owned
<1>6. SubmitHolds' /\ BatchesHold' /\ HoldersApart'
  BY <1>1, <1>5, HoldersKept DEF vars
<1>7. InFlight' = InFlight /\ NamesFree'
  BY <1>3 DEF InFlight, BatchInv, NamesFree
<1>8. PassKnows'
  BY <1>1, <1>3, <1>7 DEF BatchInv, PassKnows, InFlight, vars
<1> QED
  BY <1>4, <1>6, <1>7, <1>8 DEF BatchInv

PromptInv == BInv /\ ExclusionInv /\ BatchInv

LEMMA PromptStep ==
  ASSUME PromptPoller PROVE PromptInv /\ [BNext]_bvars => PromptInv'
<1> SUFFICES ASSUME PromptInv, [BNext]_bvars PROVE PromptInv'
  OBVIOUS
<1>1. BInv' /\ BTypeOK /\ ExclusionInv /\ ArtifactsInv /\ BatchInv
  BY BStep DEF PromptInv, BInv
<1>2. ASSUME UNCHANGED bvars \/ \E calls : OrphanEnds(calls) PROVE PromptInv'
  <2>1. UNCHANGED <<vars, submitting, batch, poll, due>>
    BY <1>2 DEF bvars, OrphanEnds
  <2>2. ExclusionInv'
    BY <1>1, <2>1, AloneMoves DEF BTypeOK, vars
  <2>3. \A b \in Batches : Owned(b)' = Owned(b)
    BY <2>1 DEF Owned
  <2>4. SubmitHolds' /\ BatchesHold' /\ HoldersApart'
    BY <1>1, <2>1, <2>3, HoldersKept DEF vars
  <2>5. PassKnows' /\ NamesFree'
    BY <1>1, <2>1 DEF BatchInv, PassKnows, NamesFree, InFlight, vars
  <2> QED
    BY <1>1, <2>2, <2>4, <2>5 DEF PromptInv, BatchInv
<1>3. ASSUME Next, UNCHANGED <<submitting, batch, orphans, poll>>,
             IF Tick THEN BatchesServed /\ due' = (IF PollerPrompt THEN InFlight ELSE {})
                     ELSE UNCHANGED due
      PROVE  PromptInv'
  <2>1. ExclusionInv'
    BY <1>1, <1>3, ExclusionStep DEF PromptPoller, BTypeOK
  <2> QED
    BY <1>1, <1>3, <2>1, PipelineSpares DEF PromptInv
<1> QED
  BY <1>1, <1>2, <1>3, SubmitSpares, PollSpares, EndSpares DEF BNext, PromptInv

LEMMA PromptHolds == ASSUME PromptPoller PROVE BSpec => []PromptInv
<1>1. BInit => BInv
  BY BatchStart
<1>2. BInit => ExclusionInv
  BY DEF BInit, Init, ExclusionInv, OneHandover, WaitsInTime, RunsInTime, ExclusiveRun, ReadsFresh,
         PlansFresh, Waits, Live, IdleJob
<1>3. BInit => BatchInv
  <2> SUFFICES ASSUME BInit PROVE BatchInv
    OBVIOUS
  <2>1. /\ submitting = {} /\ \A b \in Batches : batch[b] = FreeBatch
        /\ poll.at = NoBatch /\ poll.todo = {} /\ poll.left = {} /\ poll.reading = NoCall
    BY DEF BInit, NoPass
  <2>2. \A b \in Batches : Owned(b) = {}
    BY <2>1 DEF Owned, FreeBatch
  <2>3. SubmitHolds /\ BatchesHold /\ HoldersApart
    BY <2>1, <2>2 DEF SubmitHolds, BatchesHold, HoldersApart
  <2>4. PassKnows /\ NamesFree
    BY <2>1 DEF PassKnows, NamesFree, FreeBatch
  <2> QED
    BY <2>3, <2>4 DEF BatchInv
<1> QED
  BY <1>1, <1>2, <1>3, PromptStep, PTL DEF BSpec, PromptInv

(* A batch the provider works on has not begun to be drained. *)
LEMMA OwnsWhole ==
  ASSUME BTypeOK, BatchInv, NEW b \in Batches, ~batch[b].ended \/ b # poll.at
  PROVE  Owned(b) = batch[b].calls
BY BatchAssumption DEF BatchInv, PassKnows, Owned

(* "Submitted calls stay claimed for the batch's whole life": while the provider  *)
(* works on a batch its calls are SCORING, however many ticks it takes, if every  *)
(* open batch is looked at in every tick.                                         *)
THEOREM BatchClaimsKept == ASSUME PromptPoller PROVE BSpec => []BatchKeepsClaims
<1>1. PromptInv => BatchKeepsClaims
  BY OwnsWhole, HeldFacts DEF PromptInv, BInv, BatchKeepsClaims
<1> QED
  BY <1>1, PromptHolds, PTL

(* Of all that the system knows of, a call is paid for once at a time: realtime   *)
(* jobs, the submit and the batches it can still read have no call in common.     *)
(* The orphans, which the provider runs and nobody knows, are not among them.     *)
THEOREM BatchPaysOnce == ASSUME PromptPoller PROVE BSpec => []OnePayer
<1>1. PromptInv => OnePayer
  <2> SUFFICES ASSUME PromptInv, NEW c \in Calls
               PROVE  Cardinality(BatchesOn(c)) + Cardinality(JobsOn(c))
                        + (IF c \in submitting THEN 1 ELSE 0) <= 1
    BY DEF OnePayer
  <2> DEFINE batches == {b \in Batches : ~batch[b].ended /\ c \in batch[b].calls}
             jobs    == {w \in Workers : Live(w) /\ job[w].call = c}
  <2>0. BTypeOK /\ BatchInv /\ ExclusionInv
    BY DEF PromptInv, BInv
  <2>1. \A b \in batches : c \in Owned(b)
    BY <2>0, OwnsWhole
  <2>2. \A a, b \in batches : a = b
    BY <2>0, <2>1 DEF BatchInv, HoldersApart
  <2>3. \A v, w \in jobs : v = w
    BY <2>0 DEF ExclusionInv, ExclusiveRun
  <2>4. batches # {} => jobs = {} /\ c \notin submitting
    BY <2>0, <2>1, HeldFacts DEF BatchInv, HoldersApart, Alone
  <2>5. c \in submitting => jobs = {}
    BY <2>0, HeldFacts DEF Alone
  <2>6. /\ batches = {} \/ \E b : batches = {b}
        /\ jobs = {} \/ \E w : jobs = {w}
    BY <2>2, <2>3
  <2> HIDE DEF batches, jobs
  <2>7. /\ Cardinality(batches) = IF batches = {} THEN 0 ELSE 1
        /\ Cardinality(jobs) = IF jobs = {} THEN 0 ELSE 1
    BY <2>6, FS_EmptySet, FS_Singleton
  <2>8. Cardinality(batches) + Cardinality(jobs) + (IF c \in submitting THEN 1 ELSE 0) <= 1
    BY <2>4, <2>5, <2>7
  <2> QED
    BY <2>8 DEF batches, jobs, BatchesOn, JobsOn
<1> QED
  BY <1>1, PromptHolds, PTL

(* A result is never applied to a call that somebody else has claimed by then.    *)
THEOREM ResultsMeetTheirClaim == ASSUME PromptPoller PROVE BSpec => ReclaimedIsLeftAlone
<1>1. PromptInv /\ [BNext]_bvars =>
        [\A c \in Calls : PollSettles(c)
          => /\ c \notin submitting
             /\ \A b \in Batches \ {poll.at} : c \notin batch[b].calls
             /\ \A w \in Workers : Live(w) => job[w].call # c]_bvars
  BY SettlesHeld, OwnsWhole DEF PromptInv, BInv, Alone
<1> QED
  BY <1>1, PromptHolds, PTL DEF BSpec, ReclaimedIsLeftAlone

(* Every step of a submit or of the poller is a step of the lifecycle. *)
LEMMA BatchStep ==
  ASSUME PromptPoller, PromptInv, BNext, NEW c \in Calls
  PROVE  Lifecycle!CallStep(c)
<1>0. BTypeOK /\ TypeOK /\ ExclusionInv /\ ArtifactsInv /\ BatchInv /\ PromptQueues
  BY DEF PromptInv, BInv, BTypeOK, PromptPoller
<1>1. CASE Next
  BY <1>0, <1>1, PipelineStep
<1>2. CASE UNCHANGED <<status, attempts, artifacts>>
  BY <1>2, StayIsStep DEF Stays
<1>3. CASE SubmitClaims
  <2>1. PICK claimed \in SUBSET {d \in analyzable : status[d] = "TRANSCRIBED"} :
          LET covered == {d \in claimed : HasInput("score", artifacts[d])}
              failed  == claimed \ covered
          IN /\ status' = [d \in Calls |-> IF d \in covered THEN "SCORING"
                                           ELSE IF d \in failed THEN "FAILED" ELSE status[d]]
             /\ attempts' = [d \in Calls |-> IF d \in failed THEN attempts[d] + 1 ELSE attempts[d]]
    BY <1>3 DEF SubmitClaims
  <2>2. UNCHANGED artifacts
    BY <1>3 DEF SubmitClaims
  <2>3. c \in claimed => HasInput("score", artifacts[c])
    BY <1>0, <2>1 DEF ArtifactsInv, ArtifactsMatchStatus, Needs, HasInput
  <2>4. /\ attempts'[c] = attempts[c] /\ artifacts'[c] = artifacts[c]
        /\ \/ status'[c] = status[c]
           \/ status[c] = "TRANSCRIBED" /\ status'[c] = "SCORING"
    BY <2>1, <2>2, <2>3
  <2>5. "score" \in Stages /\ ReadyOf("score") = "TRANSCRIBED" /\ InFlightOf("score") = "SCORING"
    BY DEF Stages, ReadyOf, InFlightOf
  <2> QED
    BY <2>4, <2>5, SameStages
       DEF Lifecycle!CallStep, Lifecycle!Claims, Lifecycle!Moves, Lifecycle!Becomes
<1>4. CASE SubmitRejected
  <2>1. /\ status'[c] = status[c] \/ (status[c] = "SCORING" /\ status'[c] = "TRANSCRIBED")
        /\ UNCHANGED <<attempts, artifacts>>
    BY <1>4 DEF SubmitRejected
  <2>2. "score" \in Stages /\ ReadyOf("score") = "TRANSCRIBED" /\ InFlightOf("score") = "SCORING"
    BY DEF Stages, ReadyOf, InFlightOf
  <2> QED
    BY <2>1, <2>2, MovesAreSteps
<1>5. ASSUME NEW d \in Calls, PollSettles(d) PROVE Lifecycle!CallStep(c)
  <2>1. CASE c # d
    BY <1>0, <1>5, <2>1, SettledRow, StayIsStep DEF Stays
  <2>2. CASE c = d
    <3>1. status[c] = "SCORING" /\ poll.seen = attempts[c]
      BY <1>0, <1>5, <2>2, SettlesHeld
    <3>2. /\ "score" \in Stages /\ ReadyOf("score") = "TRANSCRIBED" /\ InFlightOf("score") = "SCORING"
          /\ DoneOf("score") = "SCORED" /\ Product("score") = "score"
          /\ SuccessTries("score", attempts[c]) = attempts[c]
          /\ FailureStatus("score", attempts[c] + 1) = "FAILED"
      BY DEF Stages, ReadyOf, InFlightOf, DoneOf, Product, SuccessTries, FailureStatus
    <3>3. HasInput("score", artifacts[c])
      BY <1>0, <3>1 DEF ArtifactsInv, ArtifactsMatchStatus, Needs, HasInput
    <3>4. \/ Lifecycle!Becomes(c, "SCORED", attempts[c], artifacts[c] \cup {"score"})
          \/ Lifecycle!Becomes(c, "FAILED", attempts[c] + 1, artifacts[c])
          \/ Lifecycle!Becomes(c, "TRANSCRIBED", attempts[c], artifacts[c])
      BY <1>0, <1>5, <2>2, <3>1, SettledRow DEF Lifecycle!Becomes
    <3>5. Lifecycle!Completes(c) \/ Lifecycle!FailsOnce(c) \/ Lifecycle!Releases(c)
      BY <3>1, <3>2, <3>3, <3>4, SameStages
         DEF Lifecycle!Completes, Lifecycle!FailsOnce, Lifecycle!Releases, Lifecycle!Moves
    <3> QED
      BY <3>5 DEF Lifecycle!CallStep
  <2> QED
    BY <2>1, <2>2
<1> QED
  <2>1. SubmitUnanswered \/ SubmitDies \/ PollStarts \/ PollCloses \/ PollDies
          => UNCHANGED <<status, attempts, artifacts>>
    BY DEF SubmitUnanswered, SubmitDies, PollStarts, PollCloses, PollDies, vars, row
  <2>2. \A b \in Batches : SubmitSends(b) \/ SubmitRegisters(b) \/ PollHeartbeats(b) \/ PollDrains(b)
                            \/ ProviderEnds(b) => UNCHANGED <<status, attempts, artifacts>>
    BY DEF SubmitSends, SubmitRegisters, PollHeartbeats, PollDrains, ProviderEnds, vars
  <2>3. \A d \in Calls : PollReads(d) \/ PollSkips(d) => UNCHANGED <<status, attempts, artifacts>>
    BY DEF PollReads, PollSkips, vars
  <2>4. \A calls : OrphanEnds(calls) => UNCHANGED <<status, attempts, artifacts>>
    BY DEF OrphanEnds, vars
  <2> QED
    BY <1>1, <1>2, <1>3, <1>4, <1>5, <2>1, <2>2, <2>3, <2>4 DEF BNext, Submit, Polling, TakeResult

(* With the realtime and the batch path together a call still takes one step of   *)
(* the lifecycle at a time: one outcome per claim, every failure counted once.    *)
THEOREM BatchImplementation == ASSUME PromptPoller PROVE BSpec => ImplementsLifecycle
<1>1. BInit => Lifecycle!LifecycleInit
  BY DEF BInit, Init, Lifecycle!LifecycleInit
<1>2. PromptInv /\ [BNext]_bvars => [Lifecycle!LifecycleNext]_Lifecycle!lvars
  <2>1. UNCHANGED bvars => UNCHANGED Lifecycle!lvars
    BY DEF bvars, vars, Lifecycle!lvars
  <2> QED
    BY <2>1, BatchStep DEF Lifecycle!LifecycleNext
<1> QED
  BY <1>1, <1>2, PromptHolds, PTL DEF BSpec, ImplementsLifecycle, Lifecycle!LifecycleSpec

(* A batch costs a call no attempt that the caps do not allow.                    *)
THEOREM BatchAttemptsBounded == ASSUME PromptPoller PROVE BSpec => []AttemptsBounded
<1>1. BInit => AttemptsInv
  BY CapFacts DEF BInit, Init, AttemptsInv
<1>2. PromptInv /\ AttemptsInv /\ [BNext]_bvars => AttemptsInv'
  <2> SUFFICES ASSUME PromptInv, AttemptsInv, [BNext]_bvars PROVE AttemptsInv'
    OBVIOUS
  <2>1. CASE BNext
    BY <2>1, BatchStep, AttemptsStep DEF AttemptsInv, PromptInv, BInv, BTypeOK
  <2>2. CASE UNCHANGED bvars
    BY <2>2 DEF bvars, vars, AttemptsInv
  <2> QED
    BY <2>1, <2>2
<1>3. AttemptsInv => AttemptsBounded
  BY DEF AttemptsInv, AttemptsBounded
<1> QED
  BY <1>1, <1>2, <1>3, PromptHolds, PTL DEF BSpec
===============================================================================
