-------------------------- MODULE CallPipelineProofs --------------------------
(***************************************************************************)
(* What holds of CallPipeline for every number of calls and job slots, and *)
(* every TTL, margin, cap and bound.  The first part asks nothing of the   *)
(* queues; the second assumes that a claim does not wait too long for its  *)
(* job, and from that proves that no job runs twice.                       *)
(***************************************************************************)
EXTENDS CallPipeline, TLAPS

(* The stage table maps stages to statuses of the right kind. *)
LEMMA StageTypes ==
  ASSUME NEW s \in Stages
  PROVE  /\ ReadyOf(s) \in ReadyStatuses
         /\ InFlightOf(s) \in InFlightStatuses
         /\ DoneOf(s) \in Statuses \ InFlightStatuses
         /\ Product(s) \in Artifacts
BY DEF Stages, ReadyOf, InFlightOf, DoneOf, Product, ReadyStatuses,
       InFlightStatuses, Statuses, Artifacts

LEMMA StatusTypes == ReadyStatuses \subseteq Statuses /\ InFlightStatuses \subseteq Statuses
BY DEF Statuses

LEMMA ResumeType == ASSUME NEW held PROVE ResumeStatus(held) \in ReadyStatuses
BY DEF ResumeStatus, ReadyStatuses

LEMMA FailureType ==
  ASSUME NEW s, NEW tries PROVE FailureStatus(s, tries) \in {"NEW", "FAILED"}
BY DEF FailureStatus

LEMMA TimeoutType == \A s \in Stages : JobTimeout(s) \in Nat
BY PipelineAssumption DEF JobTimeout

LEMMA OrderTypes ==
  ASSUME TypeOK, NEW calls \in SUBSET Calls
  PROVE  Unfiled(calls) \in SUBSET (Calls \X Calls) /\ FiledLast(calls) \in SUBSET (Calls \X Calls)
<1>1. Unfiled(calls) \in SUBSET (Calls \X Calls)
  BY DEF TypeOK, Unfiled
<1> QED
  BY <1>1 DEF FiledLast

LEMMA OneMoreJob ==
  \A q \in [Stages -> [Calls -> Nat]], s \in Stages, c \in Calls :
    [q EXCEPT ![s][c] = @ + 1] \in [Stages -> [Calls -> Nat]]
OBVIOUS

(* A commit leaves a row and the jobs well typed, whichever way the job ended. *)
LEMMA SettleTypes ==
  ASSUME TypeOK, NEW w \in Workers, NEW st \in Statuses, NEW tries \in Nat,
         NEW held \in SUBSET Artifacts, Settle(w, st, tries, held)
  PROVE  TypeOK'
<1>1. job[w].call \in Calls
  BY DEF TypeOK, Settle, Live
<1>2. IdleJob \in Jobs
  BY DEF IdleJob, Jobs, Stages
<1>3. job' \in [Workers -> Jobs] /\ \A v \in Workers : Live(v)' => job'[v].call \in Calls
  BY <1>2 DEF TypeOK, Settle, Live, IdleJob
<1>4. olderFailed' \in SUBSET (Calls \X Calls)
  BY <1>1, OrderTypes DEF Settle
<1> QED
  BY <1>1, <1>3, <1>4 DEF TypeOK, Settle, broker, NoClaim

LEMMA TypeStep == TypeOK /\ [Next]_vars => TypeOK'
<1> SUFFICES ASSUME TypeOK, [Next]_vars PROVE TypeOK'
  OBVIOUS
<1> USE StageTypes, StatusTypes
<1>1. ASSUME NEW s \in Stages, ClaimReady(s) PROVE TypeOK'
  <2>1. PICK batch \in SUBSET Claimable(s) :
          /\ status' = [c \in Calls |-> IF c \in batch THEN InFlightOf(s) ELSE status[c]]
          /\ claimAge' = [c \in Calls |-> IF c \in batch THEN 0 ELSE claimAge[c]]
          /\ pending' = pending \cup ({s} \X batch)
          /\ UNCHANGED <<attempts, artifacts, analyzable, olderFailed, today, queued, job,
                         retryPlan, losses>>
    BY <1>1 DEF ClaimReady
  <2>2. pending' \in SUBSET (Stages \X Calls)
    BY <2>1 DEF TypeOK, Claimable
  <2> QED
    BY <2>1, <2>2 DEF TypeOK, Live
<1>2. ASSUME NEW s \in Stages, NEW c \in Calls, EnqueueJob(s, c) PROVE TypeOK'
  BY <1>2 DEF TypeOK, EnqueueJob, row, Live
<1>3. ASSUME NEW s \in Stages, ReclaimStale(s) PROVE TypeOK'
  BY <1>3 DEF TypeOK, ReclaimStale, broker, Live
<1>4. ASSUME NEW s \in Stages, NEW c \in Calls, NEW w \in Workers, JobStart(w, s, c)
      PROVE  TypeOK'
  <2>1. queued' \in [Stages -> [Calls -> Nat]]
    BY <1>4 DEF TypeOK, JobStart
  <2>2. CASE HasInput(s, artifacts[c])
    <3> DEFINE started == [pc |-> "external", stage |-> s, call |-> c, run |-> 0, seen |-> 0]
    <3>1. started \in Jobs
      BY DEF Jobs
    <3>2. job' = [job EXCEPT ![w] = started] /\ UNCHANGED <<status, claimAge, olderFailed>>
      BY <1>4, <2>2 DEF JobStart
    <3>3. job' \in [Workers -> Jobs] /\ \A v \in Workers : Live(v)' => job'[v].call \in Calls
      BY <3>1, <3>2 DEF TypeOK, Live
    <3> QED
      BY <1>4, <2>1, <3>2, <3>3 DEF TypeOK, JobStart
  <2>3. CASE ~HasInput(s, artifacts[c])
    <3>1. olderFailed' \in SUBSET (Calls \X Calls)
      BY <1>4, <2>3, OrderTypes DEF JobStart
    <3> QED
      BY <1>4, <2>1, <2>3, <3>1 DEF TypeOK, JobStart, Statuses, Live
  <2> QED
    BY <2>2, <2>3
<1>5. ASSUME NEW s \in Stages, NEW c \in Calls, JobSkips(s, c) PROVE TypeOK'
  BY <1>5 DEF TypeOK, JobSkips, row, Live
<1>6. ASSUME NEW w \in Workers, JobReads(w) PROVE TypeOK'
  <2>1. job[w] \in Jobs /\ job[w].call \in Calls /\ attempts[job[w].call] \in Nat
    BY <1>6 DEF TypeOK, JobReads, Live
  <2>2. /\ job' \in [Workers -> Jobs]
        /\ \A v \in Workers : Live(v)' => job'[v].call \in Calls
    BY <1>6, <2>1 DEF TypeOK, JobReads, Jobs, Live
  <2> QED
    BY <1>6, <2>2 DEF TypeOK, JobReads, row, broker
<1>7. ASSUME NEW w \in Workers, job' = [job EXCEPT ![w] = IdleJob]
      PROVE  /\ job' \in [Workers -> Jobs]
             /\ \A v \in Workers : Live(v)' => job'[v].call \in Calls
  BY <1>7 DEF TypeOK, IdleJob, Jobs, Stages, Live
<1>8. ASSUME NEW w \in Workers, JobSuperseded(w) PROVE TypeOK'
  BY <1>7, <1>8 DEF TypeOK, JobSuperseded, row, broker
<1>9. ASSUME NEW w \in Workers, JobSucceeds(w) PROVE TypeOK'
  <2>1. /\ job[w].call \in Calls /\ job[w].stage \in Stages /\ job[w].seen \in Nat
        /\ attempts[job[w].call] \in Nat /\ artifacts[job[w].call] \in SUBSET Artifacts
    BY <1>9 DEF TypeOK, JobSucceeds, Settle, Live, Jobs
  <2> QED
    BY <1>9, <2>1, SettleTypes DEF JobSucceeds, SuccessTries
<1>10. ASSUME NEW w \in Workers, JobParks(w) PROVE TypeOK'
  <2>1. /\ job[w].call \in Calls
        /\ attempts[job[w].call] \in Nat /\ artifacts[job[w].call] \in SUBSET Artifacts
    BY <1>10 DEF TypeOK, JobParks, Settle, Live
  <2> QED
    BY <1>10, <2>1, SettleTypes DEF JobParks, Statuses
<1>11. ASSUME NEW w \in Workers, JobFails(w) PROVE TypeOK'
  <2>1. /\ job[w].call \in Calls /\ job[w].seen \in Nat
        /\ artifacts[job[w].call] \in SUBSET Artifacts
    BY <1>11 DEF TypeOK, JobFails, Settle, Live, Jobs
  <2>2. FailureStatus(job[w].stage, job[w].seen + 1) \in Statuses
    BY FailureType DEF Statuses, ReadyStatuses
  <2> QED
    BY <1>11, <2>1, <2>2, SettleTypes DEF JobFails
<1>12. CASE DispatchLost
  BY <1>12 DEF TypeOK, DispatchLost, row, Live
<1>13. CASE QueuesLost
  BY <1>13 DEF TypeOK, QueuesLost, row, Live
<1>14. ASSUME NEW w \in Workers, JobKilled(w) PROVE TypeOK'
  <2>1. /\ Live(w) /\ job' = [job EXCEPT ![w] = IdleJob] /\ losses' = losses + 1
        /\ UNCHANGED <<row, today, pending, retryPlan>>
    BY <1>14 DEF JobKilled
  <2>2. \/ queued' = queued
        \/ queued' = [queued EXCEPT ![job[w].stage][job[w].call] = @ + 1]
    BY <1>14 DEF JobKilled
  <2>3. queued' \in [Stages -> [Calls -> Nat]]
    <3>1. job[w].stage \in Stages /\ job[w].call \in Calls
      BY <2>1 DEF TypeOK, Jobs
    <3>2. queued \in [Stages -> [Calls -> Nat]]
      BY DEF TypeOK
    <3>3. [queued EXCEPT ![job[w].stage][job[w].call] = @ + 1] \in [Stages -> [Calls -> Nat]]
      BY <3>1, <3>2, OneMoreJob
    <3> QED
      BY <2>2, <3>2, <3>3
  <2>4. /\ job' \in [Workers -> Jobs]
        /\ \A v \in Workers : Live(v)' => job'[v].call \in Calls
    BY <1>7, <2>1
  <2> QED
    BY <2>1, <2>3, <2>4 DEF TypeOK, row
<1>15. ASSUME NEW w \in Workers, JobTimesOut(w) PROVE TypeOK'
  <2>1. /\ job' \in [Workers -> Jobs]
        /\ \A v \in Workers : Live(v)' => job'[v].call \in Calls
    BY <1>7, <1>15 DEF JobTimesOut
  <2> QED
    BY <1>15, <2>1 DEF TypeOK, JobTimesOut, row, broker
<1>16. CASE RetryReads
  BY <1>16, ResumeType DEF TypeOK, RetryReads, row, broker, Live
<1>17. CASE RetryWrites
  <2>1. olderFailed' \in SUBSET (Calls \X Calls)
    BY <1>17, OrderTypes DEF RetryWrites
  <2> QED
    BY <1>17, <2>1 DEF TypeOK, RetryWrites, broker, Live
<1>18. CASE RequeuePendingKk
  BY <1>18 DEF TypeOK, RequeuePendingKk, RequeueBatch, broker, Live, Statuses, ReadyStatuses
<1>19. CASE RequeueScoredForRelabel
  BY <1>19 DEF TypeOK, RequeueScoredForRelabel, RequeueBatch, broker, Live, Statuses,
               ReadyStatuses
<1>20. ASSUME NEW c \in Calls, NEW inScope \in BOOLEAN, ApplyScope(c, inScope) PROVE TypeOK'
  BY <1>20 DEF TypeOK, ApplyScope, broker, Live, Statuses, ReadyStatuses
<1>24. ASSUME NEW c \in Calls, ClientFactsChange(c) PROVE TypeOK'
  <2>1. olderFailed' \in SUBSET (Calls \X Calls)
    BY <1>24, OrderTypes DEF ClientFactsChange
  <2> QED
    BY <1>24, <2>1 DEF TypeOK, ClientFactsChange, broker, Live
<1>21. CASE Midnight
  BY <1>21 DEF TypeOK, Midnight, row, broker, Live
<1>22. CASE Tick
  <2>1. claimAge' \in [Calls -> {NoClaim} \cup Nat]
    BY <1>22 DEF TypeOK, Tick, NoClaim
  <2>2. \A w \in Workers : Live(w) => [job[w] EXCEPT !.run = @ + 1] \in Jobs
    BY DEF TypeOK, Jobs
  <2>3. /\ job' \in [Workers -> Jobs]
        /\ \A v \in Workers : Live(v)' => job'[v].call \in Calls
    BY <1>22, <2>2 DEF TypeOK, Tick, Live, Jobs
  <2> QED
    BY <1>22, <2>1, <2>3 DEF TypeOK, Tick, broker
<1>23. CASE UNCHANGED vars
  BY <1>23 DEF TypeOK, vars, Live
<1> QED
  BY <1>1, <1>2, <1>3, <1>4, <1>5, <1>6, <1>8, <1>9, <1>10, <1>11, <1>12, <1>13, <1>14,
     <1>15, <1>16, <1>17, <1>18, <1>19, <1>20, <1>24, <1>21, <1>22, <1>23
     DEF Next, Dispatch, TakeJob, FinishJob, Losing, Retrying, Backfill

LEMMA InitTypes == Init => TypeOK
BY DEF Init, TypeOK, Statuses, ReadyStatuses, IdleJob, Jobs, Stages, Live, NoClaim

(* The rows, the broker and the jobs stay well typed. *)
THEOREM TypeCorrect == Spec => []TypeOK
BY InitTypes, TypeStep, PTL DEF Spec

-------------------------------------------------------------------------------
(***************************************************************************)
(* Claims and artifacts.  Neither needs a promise about queues or losses:  *)
(* duplicate jobs, stale reverts and late commits are all allowed.         *)
(***************************************************************************)
LEMMA OutOfFlight ==
  /\ ReadyStatuses \cap InFlightStatuses = {}
  /\ \A st \in {"FAILED", "SKIPPED", "PENDING_KK"} \cup ReadyStatuses : st \notin InFlightStatuses
BY DEF ReadyStatuses, InFlightStatuses

(* Every step that takes a row into flight stamps it, and every step that   *)
(* clears the stamp takes it out of flight.                                 *)
LEMMA ClaimsStep == TypeOK /\ ClaimsRecoverable /\ [Next]_vars => ClaimsRecoverable'
<1> SUFFICES ASSUME TypeOK, ClaimsRecoverable, [Next]_vars PROVE ClaimsRecoverable'
  OBVIOUS
<1> USE StageTypes, OutOfFlight
<1>1. ASSUME NEW s \in Stages, ClaimReady(s) PROVE ClaimsRecoverable'
  BY <1>1 DEF TypeOK, ClaimsRecoverable, ClaimReady, NoClaim
<1>2. ASSUME NEW s \in Stages, ReclaimStale(s) PROVE ClaimsRecoverable'
  BY <1>2 DEF TypeOK, ClaimsRecoverable, ReclaimStale
<1>3. ASSUME NEW s \in Stages, NEW c \in Calls, NEW w \in Workers, JobStart(w, s, c)
      PROVE  ClaimsRecoverable'
  <2>1. \/ UNCHANGED <<status, claimAge>>
        \/ /\ status' = [status EXCEPT ![c] = "FAILED"]
           /\ claimAge' = [claimAge EXCEPT ![c] = NoClaim]
    BY <1>3 DEF JobStart
  <2> QED
    BY <2>1 DEF TypeOK, ClaimsRecoverable
<1>4. ASSUME NEW w \in Workers, NEW st, NEW tries, NEW held, st \notin InFlightStatuses,
             Settle(w, st, tries, held)
      PROVE  ClaimsRecoverable'
  BY <1>4 DEF TypeOK, ClaimsRecoverable, Settle, Live
<1>5. ASSUME NEW w \in Workers, JobSucceeds(w) PROVE ClaimsRecoverable'
  <2>1. job[w].stage \in Stages
    BY DEF TypeOK, Jobs
  <2> QED
    BY <1>4, <1>5, <2>1 DEF JobSucceeds
<1>6. ASSUME NEW w \in Workers, JobParks(w) PROVE ClaimsRecoverable'
  BY <1>4, <1>6 DEF JobParks
<1>7. ASSUME NEW w \in Workers, JobFails(w) PROVE ClaimsRecoverable'
  <2>1. FailureStatus(job[w].stage, job[w].seen + 1) \notin InFlightStatuses
    BY FailureType DEF InFlightStatuses
  <2> QED
    BY <1>4, <1>7, <2>1 DEF JobFails
<1>8. CASE RetryWrites
  BY <1>8 DEF TypeOK, ClaimsRecoverable, RetryWrites
<1>9. ASSUME NEW from, NEW to, to \notin InFlightStatuses, RequeueBatch(from, to)
      PROVE  ClaimsRecoverable'
  BY <1>9 DEF TypeOK, ClaimsRecoverable, RequeueBatch
<1>10. CASE Backfill
  BY <1>9, <1>10 DEF Backfill, RequeuePendingKk, RequeueScoredForRelabel, ReadyStatuses
<1>11. ASSUME NEW c \in Calls, NEW inScope \in BOOLEAN, ApplyScope(c, inScope)
       PROVE  ClaimsRecoverable'
  BY <1>11 DEF TypeOK, ClaimsRecoverable, ApplyScope, ReadyStatuses
<1>12. CASE Tick
  BY <1>12 DEF TypeOK, ClaimsRecoverable, Tick, NoClaim
<1>13. CASE UNCHANGED <<status, claimAge>>
  BY <1>13 DEF ClaimsRecoverable
<1> QED
  <2>1. \A s \in Stages, c \in Calls : EnqueueJob(s, c) \/ JobSkips(s, c)
                                        => UNCHANGED <<status, claimAge>>
    BY DEF EnqueueJob, JobSkips, row
  <2>2. \A w \in Workers : JobReads(w) \/ JobSuperseded(w) => UNCHANGED <<status, claimAge>>
    BY DEF JobReads, JobSuperseded, row
  <2>3. Losing => UNCHANGED <<status, claimAge>>
    BY DEF Losing, DispatchLost, QueuesLost, JobKilled, JobTimesOut, row
  <2>4. RetryReads \/ Midnight \/ UNCHANGED vars => UNCHANGED <<status, claimAge>>
    BY DEF RetryReads, Midnight, row, vars
  <2>5. \A c \in Calls : ClientFactsChange(c) => UNCHANGED <<status, claimAge>>
    BY DEF ClientFactsChange
  <2> QED
    BY <2>5, <1>1, <1>2, <1>3, <1>5, <1>6, <1>7, <1>8, <1>10, <1>11, <1>12, <1>13,
       <2>1, <2>2, <2>3, <2>4
       DEF Next, Dispatch, TakeJob, FinishJob, Retrying

(* No in-flight row is out of the reconciler's reach. *)
THEOREM ClaimsAlwaysRecoverable == Spec => []ClaimsRecoverable
<1>1. Init => ClaimsRecoverable
  BY DEF Init, ClaimsRecoverable, InFlightStatuses
<1> QED
  BY <1>1, ClaimsStep, TypeCorrect, PTL DEF Spec

(***************************************************************************)
(* ArtifactsMatchStatus is not inductive: a commit lands on whatever the   *)
(* row has become, and a retry writes what it decided earlier.  It holds   *)
(* because artifacts only grow, so what a running job or a retry plan saw  *)
(* is still there.                                                         *)
(***************************************************************************)
PlansKept == \A c \in Calls : retryPlan[c] # "none" => Needs(retryPlan[c]) \subseteq artifacts[c]
JobsFed == \A w \in Workers :
  Live(w) => Needs(InFlightOf(job[w].stage)) \subseteq artifacts[job[w].call]
TranscriptsHeard == \A c \in Calls : "transcript" \in artifacts[c] => "audio" \in artifacts[c]

ArtifactsInv == ArtifactsMatchStatus /\ PlansKept /\ JobsFed /\ TranscriptsHeard

LEMMA StageNeeds ==
  ASSUME NEW s \in Stages
  PROVE  /\ Needs(ReadyOf(s)) = Needs(InFlightOf(s))
         /\ Needs(DoneOf(s)) = Needs(InFlightOf(s)) \cup {Product(s)}
         /\ \A held : Needs(InFlightOf(s)) \subseteq held => HasInput(s, held)
BY DEF Stages, Needs, ReadyOf, InFlightOf, DoneOf, Product, HasInput

LEMMA NoNeeds ==
  /\ \A st \in {"NEW", "SKIPPED", "FAILED"} : Needs(st) = {}
  /\ Needs("PENDING_KK") = Needs("DOWNLOADED")
  /\ Needs("PENDING_KK") = Needs("TRANSCRIBING")
  /\ Needs("TRANSCRIBED") \subseteq Needs("SCORED")
BY DEF Needs

LEMMA ResumeNeeds ==
  ASSUME NEW held, "transcript" \in held => "audio" \in held
  PROVE  Needs(ResumeStatus(held)) \subseteq held
BY DEF Needs, ResumeStatus

(* A step that leaves the artifacts, the jobs and the plans alone and moves *)
(* rows only to statuses they have the artifacts for.                       *)
LEMMA MoveKeepsArtifacts ==
  ASSUME ArtifactsInv, UNCHANGED <<artifacts, job, retryPlan>>,
         \A c \in Calls : Needs(status'[c]) \subseteq artifacts[c]
  PROVE  ArtifactsInv'
BY DEF ArtifactsInv, ArtifactsMatchStatus, PlansKept, JobsFed, TranscriptsHeard, Live

LEMMA EndKeepsArtifacts ==
  ASSUME TypeOK, ArtifactsInv, NEW w \in Workers, job' = [job EXCEPT ![w] = IdleJob],
         UNCHANGED <<status, artifacts, retryPlan>>
  PROVE  ArtifactsInv'
BY DEF TypeOK, ArtifactsInv, ArtifactsMatchStatus, PlansKept, JobsFed, TranscriptsHeard,
       Live, IdleJob

(* A commit adds what the stage produced, and a failure nothing.           *)
LEMMA SettleKeepsArtifacts ==
  ASSUME TypeOK, ArtifactsInv, NEW w \in Workers, NEW st, NEW tries, NEW held,
         Settle(w, st, tries, held),
         artifacts[job[w].call] \subseteq held, Needs(st) \subseteq held,
         "transcript" \in held => "audio" \in held
  PROVE  ArtifactsInv'
<1>1. /\ status' = [status EXCEPT ![job[w].call] = st]
      /\ artifacts' = [artifacts EXCEPT ![job[w].call] = held]
      /\ job' = [job EXCEPT ![w] = IdleJob] /\ retryPlan' = retryPlan
  BY DEF Settle
<1>2. \A c \in Calls : artifacts[c] \subseteq artifacts'[c]
  BY <1>1 DEF TypeOK
<1>3. ArtifactsMatchStatus' /\ TranscriptsHeard'
  BY <1>1, <1>2 DEF TypeOK, ArtifactsInv, ArtifactsMatchStatus, TranscriptsHeard
<1>4. PlansKept'
  BY <1>1, <1>2 DEF ArtifactsInv, PlansKept
<1>5. JobsFed'
  <2> SUFFICES ASSUME NEW v \in Workers, Live(v)'
               PROVE  Needs(InFlightOf(job'[v].stage)) \subseteq artifacts'[job'[v].call]
    BY DEF JobsFed
  <2>1. v # w /\ job'[v] = job[v] /\ Live(v)
    BY <1>1 DEF TypeOK, Live, IdleJob
  <2> QED
    BY <1>2, <2>1 DEF TypeOK, ArtifactsInv, JobsFed
<1> QED
  BY <1>3, <1>4, <1>5 DEF ArtifactsInv

LEMMA ArtifactsStep == TypeOK /\ ArtifactsInv /\ [Next]_vars => ArtifactsInv'
<1> SUFFICES ASSUME TypeOK, ArtifactsInv, [Next]_vars PROVE ArtifactsInv'
  OBVIOUS
<1>0. \A c \in Calls : Needs(status[c]) \subseteq artifacts[c]
  BY DEF ArtifactsInv, ArtifactsMatchStatus
<1>1. ASSUME NEW s \in Stages, ClaimReady(s) PROVE ArtifactsInv'
  <2>1. PICK batch \in SUBSET Claimable(s) :
          status' = [c \in Calls |-> IF c \in batch THEN InFlightOf(s) ELSE status[c]]
    BY <1>1 DEF ClaimReady
  <2>2. \A c \in Calls : Needs(status'[c]) \subseteq artifacts[c]
    BY <1>0, <2>1, StageNeeds DEF Claimable
  <2> QED
    BY <1>1, <2>2, MoveKeepsArtifacts DEF ClaimReady
<1>2. ASSUME NEW s \in Stages, ReclaimStale(s) PROVE ArtifactsInv'
  <2>1. \A c \in Calls : Needs(status'[c]) \subseteq artifacts[c]
    BY <1>0, <1>2, StageNeeds DEF ReclaimStale, Stale
  <2> QED
    BY <1>2, <2>1, MoveKeepsArtifacts DEF ReclaimStale
<1>3. ASSUME NEW s \in Stages, NEW c \in Calls, NEW w \in Workers, JobStart(w, s, c)
      PROVE  ArtifactsInv'
  <2>1. Needs(InFlightOf(s)) \subseteq artifacts[c] /\ HasInput(s, artifacts[c])
    BY <1>0, <1>3, StageNeeds DEF JobStart
  <2>2. /\ job' = [job EXCEPT ![w] = [pc |-> "external", stage |-> s, call |-> c,
                                     run |-> 0, seen |-> 0]]
        /\ UNCHANGED <<status, artifacts, retryPlan>>
    BY <1>3, <2>1 DEF JobStart
  <2>3. JobsFed'
    BY <2>1, <2>2 DEF TypeOK, ArtifactsInv, JobsFed, Live
  <2> QED
    BY <2>2, <2>3 DEF ArtifactsInv, ArtifactsMatchStatus, PlansKept, TranscriptsHeard
<1>4. ASSUME NEW w \in Workers, JobReads(w) PROVE ArtifactsInv'
  <2>1. /\ job' = [job EXCEPT ![w].pc = "settling", ![w].seen = attempts[job[w].call]]
        /\ UNCHANGED <<status, artifacts, retryPlan>>
    BY <1>4 DEF JobReads, row
  <2>2. \A v \in Workers : /\ job'[v].stage = job[v].stage /\ job'[v].call = job[v].call
                           /\ Live(v)' => Live(v)
    BY <1>4, <2>1 DEF TypeOK, Jobs, Live, JobReads
  <2>3. JobsFed'
    BY <2>1, <2>2 DEF ArtifactsInv, JobsFed
  <2> QED
    BY <2>1, <2>3 DEF ArtifactsInv, ArtifactsMatchStatus, PlansKept, TranscriptsHeard
<1>5. ASSUME NEW w \in Workers, JobSucceeds(w) PROVE ArtifactsInv'
  <2> DEFINE s == job[w].stage
             c == job[w].call
             held == artifacts[c] \cup {Product(s)}
  <2>1. Live(w) /\ s \in Stages /\ c \in Calls
    BY <1>5 DEF TypeOK, Jobs, JobSucceeds, Settle, Live
  <2>2. Needs(InFlightOf(s)) \subseteq artifacts[c]
    BY <2>1 DEF ArtifactsInv, JobsFed
  <2>3. Needs(DoneOf(s)) \subseteq held
    BY <2>1, <2>2, StageNeeds
  <2>4. "transcript" \in held => "audio" \in held
    BY <2>1, <2>2 DEF ArtifactsInv, TranscriptsHeard, Stages, Product, Needs, InFlightOf
  <2> HIDE DEF held
  <2>5. \E tries : Settle(w, DoneOf(s), tries, held)
    BY <1>5 DEF JobSucceeds, held
  <2> QED
    BY <2>3, <2>4, <2>5, SettleKeepsArtifacts DEF held
<1>6. ASSUME NEW w \in Workers, JobParks(w) PROVE ArtifactsInv'
  <2>1. job[w].stage = "transcribe" /\ Live(w) /\ job[w].call \in Calls
    BY <1>6 DEF TypeOK, JobParks, Settle, Live
  <2>2. Needs("PENDING_KK") \subseteq artifacts[job[w].call]
    BY <2>1, NoNeeds DEF ArtifactsInv, JobsFed, InFlightOf
  <2> QED
    BY <1>6, <2>1, <2>2, SettleKeepsArtifacts DEF JobParks, ArtifactsInv, TranscriptsHeard
<1>7. ASSUME NEW w \in Workers, JobFails(w) PROVE ArtifactsInv'
  <2>1. job[w].call \in Calls
    BY <1>7 DEF TypeOK, JobFails, Settle, Live
  <2>2. Needs(FailureStatus(job[w].stage, job[w].seen + 1)) = {}
    BY FailureType, NoNeeds
  <2> QED
    BY <1>7, <2>1, <2>2, SettleKeepsArtifacts DEF JobFails, ArtifactsInv, TranscriptsHeard
<1>8. ASSUME NEW w \in Workers, JobSuperseded(w) \/ JobKilled(w) \/ JobTimesOut(w)
      PROVE  ArtifactsInv'
  BY <1>8, EndKeepsArtifacts DEF JobSuperseded, JobKilled, JobTimesOut, row
<1>9. CASE RetryReads
  <2>1. UNCHANGED <<status, artifacts, job>>
    BY <1>9 DEF RetryReads, row
  <2>2. PlansKept'
    BY <1>9, <2>1, ResumeNeeds DEF RetryReads, PlansKept, ArtifactsInv, TranscriptsHeard
  <2> QED
    BY <2>1, <2>2 DEF ArtifactsInv, ArtifactsMatchStatus, JobsFed, TranscriptsHeard, Live
<1>10. CASE RetryWrites
  <2>1. /\ \A c \in Calls : retryPlan'[c] = "none" /\ Needs(status'[c]) \subseteq artifacts[c]
        /\ UNCHANGED <<artifacts, job>>
    BY <1>0, <1>10 DEF RetryWrites, ArtifactsInv, PlansKept
  <2> QED
    BY <2>1 DEF ArtifactsInv, ArtifactsMatchStatus, PlansKept, JobsFed, TranscriptsHeard, Live
<1>11. ASSUME NEW from, NEW to, Needs(to) \subseteq Needs(from), RequeueBatch(from, to)
       PROVE  ArtifactsInv'
  <2>1. \A c \in Calls : Needs(status'[c]) \subseteq artifacts[c]
    BY <1>0, <1>11 DEF RequeueBatch
  <2> QED
    BY <1>11, <2>1, MoveKeepsArtifacts DEF RequeueBatch
<1>12. CASE Backfill
  BY <1>11, <1>12, NoNeeds DEF Backfill, RequeuePendingKk, RequeueScoredForRelabel
<1>13. ASSUME NEW c \in Calls, NEW inScope \in BOOLEAN, ApplyScope(c, inScope)
       PROVE  ArtifactsInv'
  <2>1. \A d \in Calls : Needs(status'[d]) \subseteq artifacts[d]
    BY <1>0, <1>13, NoNeeds DEF TypeOK, ApplyScope
  <2> QED
    BY <1>13, <2>1, MoveKeepsArtifacts DEF ApplyScope
<1>14. CASE Tick
  <2>1. /\ UNCHANGED <<status, artifacts, retryPlan>>
        /\ \A v \in Workers : /\ job'[v].stage = job[v].stage /\ job'[v].call = job[v].call
                              /\ Live(v)' => Live(v)
    BY <1>14 DEF TypeOK, Jobs, Live, Tick
  <2> QED
    BY <2>1 DEF ArtifactsInv, ArtifactsMatchStatus, PlansKept, JobsFed, TranscriptsHeard
<1>15. CASE UNCHANGED <<status, artifacts, job, retryPlan>>
  BY <1>15 DEF ArtifactsInv, ArtifactsMatchStatus, PlansKept, JobsFed, TranscriptsHeard, Live
<1> QED
  <2>1. \A s \in Stages, c \in Calls : EnqueueJob(s, c) \/ JobSkips(s, c)
                                        => UNCHANGED <<status, artifacts, job, retryPlan>>
    BY DEF EnqueueJob, JobSkips, row
  <2>2. DispatchLost \/ QueuesLost \/ Midnight \/ UNCHANGED vars
          => UNCHANGED <<status, artifacts, job, retryPlan>>
    BY DEF DispatchLost, QueuesLost, Midnight, row, vars
  <2>3. \A c \in Calls : ClientFactsChange(c) => UNCHANGED <<status, artifacts, job, retryPlan>>
    BY DEF ClientFactsChange
  <2> QED
    BY <2>3, <1>1, <1>2, <1>3, <1>4, <1>5, <1>6, <1>7, <1>8, <1>9, <1>10, <1>12, <1>13, <1>14,
       <1>15, <2>1, <2>2
       DEF Next, Dispatch, TakeJob, FinishJob, Losing, Retrying

LEMMA ArtifactsHold == Spec => []ArtifactsInv
<1>1. Init => ArtifactsInv
  BY DEF Init, ArtifactsInv, ArtifactsMatchStatus, PlansKept, JobsFed, TranscriptsHeard,
         Live, IdleJob, Needs
<1> QED
  BY <1>1, ArtifactsStep, TypeCorrect, PTL DEF Spec

(* A call always holds what its status promises, so no stage finds its     *)
(* input missing.                                                          *)
THEOREM ArtifactsAlwaysMatch == Spec => []ArtifactsMatchStatus
<1>1. ArtifactsInv => ArtifactsMatchStatus
  BY DEF ArtifactsInv
<1> QED
  BY <1>1, ArtifactsHold, PTL

-----------------------------------------------------------------------------
(* What the claims are worth when queues are prompt: no job runs twice, the *)
(* reconciler leaves live jobs alone, and the pipeline implements           *)
(* CallLifecycle.  PromptQueues is the condition the settings have to meet; *)
(* without it the first two fail.                                           *)

Waits(s, c) == <<s, c>> \in pending \/ queued[s][c] > 0

(* A claim is handed over once: first by the pass, then by the queue.      *)
OneHandover == \A s \in Stages, c \in Calls :
  /\ queued[s][c] <= 1
  /\ <<s, c>> \in pending => queued[s][c] = 0

(* What waits is claimed for its stage, is still fresh and does not run.   *)
WaitsInTime == \A s \in Stages, c \in Calls : Waits(s, c) =>
  /\ status[c] = InFlightOf(s)
  /\ claimAge[c] <= MaxQueueWait
  /\ \A w \in Workers : Live(w) => job[w].call # c

(* What runs is claimed for its stage since its wait and its run at most.  *)
RunsInTime == \A w \in Workers : Live(w) =>
  /\ status[job[w].call] = InFlightOf(job[w].stage)
  /\ claimAge[job[w].call] <= MaxQueueWait + job[w].run
  /\ job[w].run <= JobTimeout(job[w].stage)

ReadsFresh == \A w \in Workers :
  job[w].pc = "settling" => job[w].seen = attempts[job[w].call]

PlansFresh == \A c \in Calls : retryPlan[c] # "none" =>
  /\ status[c] = "FAILED" /\ attempts[c] < MaxRetries
  /\ retryPlan[c] = ResumeStatus(artifacts[c])

ExclusionInv == /\ OneHandover /\ WaitsInTime /\ RunsInTime /\ ExclusiveRun
                /\ ReadsFresh /\ PlansFresh

(* The stage of an in-flight status is unique, and FAILED is not one.      *)
LEMMA StageOfStatus ==
  /\ \A r, s \in Stages : InFlightOf(r) = InFlightOf(s) => r = s
  /\ \A r, s \in Stages : ReadyOf(r) # InFlightOf(s)
  /\ \A s \in Stages, st \in {"NEW", "SKIPPED", "FAILED", "PENDING_KK", "SCORED"} :
       InFlightOf(s) # st
  /\ \A s \in Stages : ReadyOf(s) # "FAILED"
BY DEF Stages, InFlightOf, ReadyOf

(* Nothing waits for or runs on a call that is not in flight.              *)
LEMMA AtRest ==
  ASSUME TypeOK, ExclusionInv, NEW c \in Calls, \A s \in Stages : status[c] # InFlightOf(s)
  PROVE  /\ \A s \in Stages : <<s, c>> \notin pending /\ queued[s][c] = 0
         /\ \A w \in Workers : Live(w) => job[w].call # c
<1>1. \A s \in Stages : ~Waits(s, c) /\ queued[s][c] \in Nat
  BY DEF TypeOK, ExclusionInv, WaitsInTime
<1>2. \A w \in Workers : Live(w) => job[w].stage \in Stages
  BY DEF TypeOK, Jobs
<1> QED
  BY <1>1, <1>2 DEF ExclusionInv, RunsInTime, Waits

(* A call that no pass, queue or job holds.                                *)
Alone(c) == /\ \A s \in Stages : ~Waits(s, c)
            /\ \A w \in Workers : Live(w) => job[w].call # c

(* A step that writes such rows only, and drops retry plans.               *)
LEMMA AloneMoves ==
  ASSUME TypeOK, ExclusionInv, UNCHANGED <<pending, queued, job>>,
         \A c \in Calls :
           \/ /\ status'[c] = status[c] /\ claimAge'[c] = claimAge[c]
              /\ attempts'[c] = attempts[c] /\ artifacts'[c] = artifacts[c]
              /\ retryPlan'[c] \in {retryPlan[c], "none"}
           \/ Alone(c) /\ retryPlan'[c] = "none"
  PROVE  ExclusionInv'
<1>1. \A s \in Stages, c \in Calls : Waits(s, c) => status'[c] = status[c] /\ claimAge'[c] = claimAge[c]
  BY DEF Alone
<1>2. \A w \in Workers : Live(w) => /\ status'[job[w].call] = status[job[w].call]
                                    /\ claimAge'[job[w].call] = claimAge[job[w].call]
                                    /\ attempts'[job[w].call] = attempts[job[w].call]
  BY DEF TypeOK, Alone
<1>3. OneHandover' /\ ExclusiveRun'
  BY DEF ExclusionInv, OneHandover, ExclusiveRun, Live
<1>4. WaitsInTime' /\ RunsInTime' /\ ReadsFresh'
  BY <1>1, <1>2 DEF ExclusionInv, WaitsInTime, RunsInTime, ReadsFresh, Waits, Live
<1>5. PlansFresh'
  BY DEF ExclusionInv, PlansFresh
<1> QED
  BY <1>3, <1>4, <1>5 DEF ExclusionInv

(* A step that moves calls at rest, or only drops retry plans.             *)
LEMMA RestingMoves ==
  ASSUME TypeOK, ExclusionInv,
         UNCHANGED <<attempts, artifacts, pending, queued, job>>,
         \A c \in Calls :
           \/ status'[c] = status[c] /\ claimAge'[c] = claimAge[c]
              /\ retryPlan'[c] \in {retryPlan[c], "none"}
           \/ (\A s \in Stages : status[c] # InFlightOf(s)) /\ retryPlan'[c] = "none"
  PROVE  ExclusionInv'
<1>1. \A c \in Calls : (\A s \in Stages : status[c] # InFlightOf(s)) => Alone(c)
  BY AtRest DEF Alone, Waits
<1> QED
  BY <1>1, AloneMoves

(* A job that ends without touching its row.                               *)
LEMMA EndsQuietly ==
  ASSUME TypeOK, ExclusionInv, NEW w \in Workers, job' = [job EXCEPT ![w] = IdleJob],
         UNCHANGED <<status, claimAge, attempts, artifacts, pending, queued, retryPlan>>
  PROVE  ExclusionInv'
<1>1. \A v \in Workers : /\ Live(v)' => job'[v] = job[v] /\ Live(v)
                         /\ job'[v].pc = "settling" => job'[v] = job[v]
  BY DEF TypeOK, Live, IdleJob
<1>2. OneHandover' /\ PlansFresh'
  BY DEF ExclusionInv, OneHandover, PlansFresh
<1>3. WaitsInTime' /\ RunsInTime' /\ ExclusiveRun' /\ ReadsFresh'
  BY <1>1 DEF ExclusionInv, WaitsInTime, RunsInTime, ExclusiveRun, ReadsFresh, Waits
<1> QED
  BY <1>2, <1>3 DEF ExclusionInv

(* A commit leaves its row at rest, and nobody else was working on it.     *)
LEMMA SettlesAlone ==
  ASSUME TypeOK, ExclusionInv, NEW w \in Workers, NEW st, NEW tries, NEW held,
         Settle(w, st, tries, held)
  PROVE  ExclusionInv'
<1> DEFINE c == job[w].call
<1>1. Live(w) /\ c \in Calls /\ job[w].stage \in Stages
  BY DEF TypeOK, Jobs, Settle, Live
<1>2. \A v \in Workers : Live(v) /\ v # w => job[v].call # c
  BY <1>1 DEF ExclusionInv, ExclusiveRun
<1>3. \A s \in Stages : ~Waits(s, c)
  BY <1>1 DEF ExclusionInv, WaitsInTime
<1>4. retryPlan[c] = "none"
  BY <1>1, StageOfStatus DEF ExclusionInv, RunsInTime, PlansFresh
<1>5. /\ \A d \in Calls \ {c} : /\ status'[d] = status[d] /\ claimAge'[d] = claimAge[d]
                                /\ attempts'[d] = attempts[d] /\ artifacts'[d] = artifacts[d]
      /\ \A v \in Workers : /\ Live(v)' => job'[v] = job[v] /\ Live(v) /\ v # w
                            /\ job'[v].pc = "settling" => Live(v)'
      /\ UNCHANGED <<pending, queued, retryPlan>>
  BY DEF TypeOK, Settle, Live, IdleJob, broker
<1> HIDE DEF c
<1>6. OneHandover' /\ ExclusiveRun'
  BY <1>5 DEF ExclusionInv, OneHandover, ExclusiveRun
<1>7. WaitsInTime'
  BY <1>3, <1>5 DEF ExclusionInv, WaitsInTime, Waits
<1>8. RunsInTime' /\ ReadsFresh'
  BY <1>2, <1>5 DEF TypeOK, ExclusionInv, RunsInTime, ReadsFresh
<1>9. PlansFresh'
  BY <1>4, <1>5 DEF ExclusionInv, PlansFresh
<1> QED
  BY <1>6, <1>7, <1>8, <1>9 DEF ExclusionInv

LEMMA ExclusionStep ==
  ASSUME PromptQueues
  PROVE  TypeOK /\ ExclusionInv /\ [Next]_vars => ExclusionInv'
<1> SUFFICES ASSUME TypeOK, ExclusionInv, [Next]_vars PROVE ExclusionInv'
  OBVIOUS
<1>1. ASSUME NEW s \in Stages, ClaimReady(s) PROVE ExclusionInv'
  <2>1. PICK batch \in SUBSET Claimable(s) :
          /\ status' = [c \in Calls |-> IF c \in batch THEN InFlightOf(s) ELSE status[c]]
          /\ claimAge' = [c \in Calls |-> IF c \in batch THEN 0 ELSE claimAge[c]]
          /\ pending' = pending \cup ({s} \X batch)
          /\ UNCHANGED <<attempts, artifacts, queued, job, retryPlan>>
    BY <1>1 DEF ClaimReady
  <2>2. \A c \in batch : /\ c \in Calls /\ status[c] = ReadyOf(s)
                         /\ \A r \in Stages : <<r, c>> \notin pending /\ queued[r][c] = 0
                         /\ \A w \in Workers : Live(w) => job[w].call # c
    BY AtRest, StageOfStatus DEF TypeOK, Claimable
  <2>3. OneHandover'
    BY <2>1, <2>2 DEF ExclusionInv, OneHandover
  <2>4. WaitsInTime'
    <3> SUFFICES ASSUME NEW r \in Stages, NEW c \in Calls, Waits(r, c)'
                 PROVE  /\ status'[c] = InFlightOf(r) /\ claimAge'[c] <= MaxQueueWait
                        /\ \A w \in Workers : Live(w)' => job'[w].call # c
      BY DEF WaitsInTime
    <3>1. CASE c \in batch
      <4>1. r = s
        BY <2>1, <2>2, <3>1 DEF Waits
      <4> QED
        BY <2>1, <2>2, <3>1, <4>1, PipelineAssumption DEF Live
    <3>2. CASE c \notin batch
      <4>1. Waits(r, c)
        BY <2>1, <3>2 DEF Waits
      <4> QED
        BY <2>1, <3>2, <4>1 DEF ExclusionInv, WaitsInTime, Live
    <3> QED
      BY <3>1, <3>2
  <2>5. RunsInTime'
    BY <2>1, <2>2 DEF TypeOK, ExclusionInv, RunsInTime, Live
  <2>6. ExclusiveRun' /\ ReadsFresh'
    BY <2>1 DEF ExclusionInv, ExclusiveRun, ReadsFresh, Live
  <2>7. PlansFresh'
    BY <2>1, <2>2, StageOfStatus DEF ExclusionInv, PlansFresh
  <2> QED
    BY <2>3, <2>4, <2>5, <2>6, <2>7 DEF ExclusionInv
<1>2. ASSUME NEW s \in Stages, NEW c \in Calls, EnqueueJob(s, c) PROVE ExclusionInv'
  <2>1. /\ UNCHANGED <<status, claimAge, attempts, artifacts, job, retryPlan>>
        /\ <<s, c>> \in pending /\ pending' = pending \ {<<s, c>>}
        /\ queued' = [queued EXCEPT ![s][c] = queued[s][c] + 1]
    BY <1>2 DEF EnqueueJob, row
  <2>2. \A r \in Stages, d \in Calls : (r = s /\ d = c) \/ queued'[r][d] = queued[r][d]
    BY <2>1 DEF TypeOK
  <2>3. queued[s][c] = 0 /\ queued'[s][c] = 1
    BY <2>1 DEF TypeOK, ExclusionInv, OneHandover
  <2>4. OneHandover'
    <3> SUFFICES ASSUME NEW r \in Stages, NEW d \in Calls
                 PROVE  /\ queued'[r][d] <= 1
                        /\ <<r, d>> \in pending' => queued'[r][d] = 0
      BY DEF OneHandover
    <3>1. CASE r = s /\ d = c
      BY <2>3, <2>1, <3>1
    <3>2. CASE ~(r = s /\ d = c)
      BY <2>1, <2>2, <3>2 DEF ExclusionInv, OneHandover
    <3> QED
      BY <3>1, <3>2
  <2>5. \A r \in Stages, d \in Calls : Waits(r, d)' => Waits(r, d)
    BY <2>1, <2>2 DEF Waits
  <2> QED
    BY <2>1, <2>4, <2>5 DEF ExclusionInv, WaitsInTime, RunsInTime, ExclusiveRun, ReadsFresh,
                            PlansFresh, Live
<1>3. ASSUME NEW s \in Stages, ReclaimStale(s) PROVE ExclusionInv'
  <2>1. \A c \in Stale(s) : \A w \in Workers : Live(w) => job[w].call # c
    <3> SUFFICES ASSUME NEW c \in Stale(s), NEW w \in Workers, Live(w), job[w].call = c
                 PROVE  FALSE
      OBVIOUS
    <3>1. job[w].stage = s /\ claimAge[c] > StaleTTL[s]
      BY StageOfStatus DEF TypeOK, Jobs, ExclusionInv, RunsInTime, Stale
    <3>2. claimAge[c] <= MaxQueueWait + JobTimeout(s)
      <4>1. /\ claimAge[c] <= MaxQueueWait + job[w].run /\ job[w].run <= JobTimeout(s)
            /\ job[w].run \in Nat /\ claimAge[c] \in Int
        BY <3>1 DEF TypeOK, Jobs, ExclusionInv, RunsInTime, Stale, NoClaim
      <4> QED
        BY <4>1, TimeoutType, PipelineAssumption
    <3>3. claimAge[c] \in Int /\ JobTimeout(s) \in Nat /\ StaleTTL[s] \in Nat
      BY TimeoutType, PipelineAssumption DEF TypeOK, Stale, NoClaim
    <3> QED
      BY <3>1, <3>2, <3>3, PipelineAssumption DEF PromptQueues
  <2>2. \A c \in Stale(s), r \in Stages : ~Waits(r, c)
    <3> SUFFICES ASSUME NEW c \in Stale(s), NEW r \in Stages, Waits(r, c) PROVE FALSE
      OBVIOUS
    <3>1. claimAge[c] <= MaxQueueWait /\ claimAge[c] > StaleTTL[s] /\ claimAge[c] \in Int
      BY DEF TypeOK, ExclusionInv, WaitsInTime, Stale, NoClaim
    <3> QED
      BY <3>1, TimeoutType, PipelineAssumption DEF PromptQueues
  <2>3. /\ \A c \in Calls \ Stale(s) : status'[c] = status[c] /\ claimAge'[c] = claimAge[c]
        /\ UNCHANGED <<attempts, artifacts, pending, queued, job, retryPlan>>
    BY <1>3 DEF ReclaimStale, broker
  <2>4. WaitsInTime' /\ RunsInTime'
    BY <2>1, <2>2, <2>3 DEF TypeOK, ExclusionInv, WaitsInTime, RunsInTime, Waits, Live
  <2>5. PlansFresh'
    BY <2>3, StageOfStatus DEF ExclusionInv, PlansFresh, Stale
  <2> QED
    BY <2>3, <2>4, <2>5 DEF ExclusionInv, OneHandover, ExclusiveRun, ReadsFresh, Live
<1>4. ASSUME NEW s \in Stages, NEW c \in Calls, NEW w \in Workers, JobStart(w, s, c)
      PROVE  ExclusionInv'
  <2>1. /\ ~Live(w) /\ queued[s][c] > 0
        /\ queued' = [queued EXCEPT ![s][c] = queued[s][c] - 1]
        /\ UNCHANGED <<attempts, artifacts, pending, retryPlan>>
    BY <1>4 DEF JobStart
  <2>2. queued[s][c] \in Nat /\ queued[s][c] <= 1 /\ (<<s, c>> \in pending => queued[s][c] = 0)
    BY DEF TypeOK, ExclusionInv, OneHandover
  <2>3. queued[s][c] = 1 /\ <<s, c>> \notin pending
    BY <2>1, <2>2
  <2>4. /\ Waits(s, c) /\ ~Live(w) /\ queued[s][c] = 1 /\ <<s, c>> \notin pending
        /\ queued' = [queued EXCEPT ![s][c] = 0]
        /\ UNCHANGED <<attempts, artifacts, pending, retryPlan>>
    BY <2>1, <2>3 DEF Waits
  <2>5. /\ \A r \in Stages, d \in Calls : (r = s /\ d = c) \/ queued'[r][d] = queued[r][d]
        /\ queued'[s][c] = 0
    BY <2>4 DEF TypeOK
  <2>6. /\ status[c] = InFlightOf(s) /\ claimAge[c] <= MaxQueueWait
        /\ \A v \in Workers : Live(v) => job[v].call # c
    BY <2>4 DEF ExclusionInv, WaitsInTime
  <2>7. \A r \in Stages : ~Waits(r, c)'
    <3>1. \A r \in Stages : r # s => ~Waits(r, c)
      BY <2>6, StageOfStatus DEF ExclusionInv, WaitsInTime
    <3> QED
      BY <2>5, <2>4, <3>1 DEF Waits
  <2>8. \A r \in Stages, d \in Calls : Waits(r, d)' => Waits(r, d) /\ d # c
    BY <2>5, <2>4, <2>7 DEF Waits
  <2>9. OneHandover'
    <3> SUFFICES ASSUME NEW r \in Stages, NEW d \in Calls
                 PROVE  /\ queued'[r][d] <= 1
                        /\ <<r, d>> \in pending' => queued'[r][d] = 0
      BY DEF OneHandover
    <3>1. CASE r = s /\ d = c
      BY <2>5, <2>4, <3>1
    <3>2. CASE ~(r = s /\ d = c)
      BY <2>5, <2>4, <3>2 DEF ExclusionInv, OneHandover
    <3> QED
      BY <3>1, <3>2
  <2>10. retryPlan[c] = "none"
    BY <2>6, StageOfStatus DEF ExclusionInv, PlansFresh
  <2>11. CASE HasInput(s, artifacts[c])
    <3> DEFINE started == [pc |-> "external", stage |-> s, call |-> c, run |-> 0, seen |-> 0]
    <3>1. job' = [job EXCEPT ![w] = started] /\ UNCHANGED <<status, claimAge>>
      BY <1>4, <2>11 DEF JobStart
    <3>2. job'[w] = started /\ \A v \in Workers : v # w => job'[v] = job[v]
      BY <3>1 DEF TypeOK
    <3>3. WaitsInTime'
      BY <2>8, <3>1, <3>2 DEF ExclusionInv, WaitsInTime, Live
    <3>4. RunsInTime'
      <4>1. 0 <= JobTimeout(s) /\ claimAge[c] <= MaxQueueWait + 0
        BY <2>6, TimeoutType, PipelineAssumption DEF TypeOK, NoClaim
      <4> QED
        BY <2>6, <3>1, <3>2, <4>1 DEF ExclusionInv, RunsInTime, Live
    <3>5. ExclusiveRun' /\ ReadsFresh'
      BY <2>4, <2>6, <3>2 DEF ExclusionInv, ExclusiveRun, ReadsFresh, Live
    <3> QED
      BY <2>4, <2>9, <3>1, <3>3, <3>4, <3>5 DEF ExclusionInv, PlansFresh
  <2>12. CASE ~HasInput(s, artifacts[c])
    <3>1. /\ status' = [status EXCEPT ![c] = "FAILED"] /\ job' = job
          /\ claimAge' = [claimAge EXCEPT ![c] = NoClaim]
      BY <1>4, <2>12 DEF JobStart
    <3>2. \A d \in Calls \ {c} : status'[d] = status[d] /\ claimAge'[d] = claimAge[d]
      BY <3>1 DEF TypeOK
    <3>3. WaitsInTime' /\ RunsInTime'
      BY <2>6, <2>8, <3>1, <3>2 DEF TypeOK, ExclusionInv, WaitsInTime, RunsInTime, Live
    <3>4. PlansFresh'
      BY <2>4, <2>10, <3>2 DEF ExclusionInv, PlansFresh
    <3> QED
      BY <2>4, <2>9, <3>1, <3>3, <3>4 DEF ExclusionInv, ExclusiveRun, ReadsFresh, Live
  <2> QED
    BY <2>11, <2>12
<1>5. ASSUME NEW s \in Stages, NEW c \in Calls, JobSkips(s, c) PROVE ExclusionInv'
  BY <1>5 DEF JobSkips, ExclusionInv, WaitsInTime, Waits
<1>6. ASSUME NEW w \in Workers, JobReads(w) PROVE ExclusionInv'
  <2>1. UNCHANGED <<status, claimAge, attempts, artifacts, pending, queued, retryPlan>>
    BY <1>6 DEF JobReads, row, broker
  <2>2. job' = [job EXCEPT ![w].pc = "settling", ![w].seen = attempts[job[w].call]]
    BY <1>6 DEF JobReads
  <2>3. \A v \in Workers : /\ job'[v].stage = job[v].stage /\ job'[v].call = job[v].call
                           /\ job'[v].run = job[v].run /\ (Live(v)' => Live(v))
                           /\ v # w => job'[v] = job[v]
    BY <1>6, <2>2 DEF TypeOK, Jobs, Live, JobReads
  <2>4. job'[w].seen = attempts[job[w].call]
    BY <2>2 DEF TypeOK, Jobs
  <2>5. ReadsFresh'
    BY <2>1, <2>3, <2>4 DEF ExclusionInv, ReadsFresh
  <2>6. WaitsInTime'
    BY <2>1, <2>3 DEF ExclusionInv, WaitsInTime, Waits
  <2>7. RunsInTime' /\ ExclusiveRun'
    BY <2>1, <2>3 DEF ExclusionInv, RunsInTime, ExclusiveRun
  <2> QED
    BY <2>1, <2>5, <2>6, <2>7 DEF ExclusionInv, OneHandover, PlansFresh
<1>7. ASSUME NEW w \in Workers, JobSuperseded(w) \/ JobKilled(w) \/ JobTimesOut(w)
      PROVE  ExclusionInv'
  BY <1>7, EndsQuietly DEF JobSuperseded, JobKilled, JobTimesOut, row, broker, PromptQueues
<1>8. ASSUME NEW w \in Workers, JobSucceeds(w) \/ JobParks(w) \/ JobFails(w)
      PROVE  ExclusionInv'
  BY <1>8, SettlesAlone DEF JobSucceeds, JobParks, JobFails
<1>9. CASE DispatchLost \/ QueuesLost
  <2>1. /\ UNCHANGED <<status, claimAge, attempts, artifacts, job, retryPlan>>
        /\ \A s \in Stages, c \in Calls : Waits(s, c)' => Waits(s, c)
        /\ OneHandover'
    BY <1>9 DEF TypeOK, DispatchLost, QueuesLost, row, Waits, ExclusionInv, OneHandover
  <2> QED
    BY <2>1 DEF ExclusionInv, WaitsInTime, RunsInTime, ExclusiveRun, ReadsFresh, PlansFresh, Live
<1>10. CASE RetryReads
  <2>1. UNCHANGED <<status, claimAge, attempts, artifacts, pending, queued, job>>
    BY <1>10 DEF RetryReads, row, broker
  <2>2. PlansFresh'
    BY <1>10, <2>1 DEF RetryReads, Retryable, PlansFresh
  <2> QED
    BY <2>1, <2>2 DEF ExclusionInv, OneHandover, WaitsInTime, RunsInTime, ExclusiveRun,
                      ReadsFresh, Waits, Live
<1>11. CASE RetryWrites
  <2>1. \A c \in Calls : retryPlan[c] # "none" => \A s \in Stages : status[c] # InFlightOf(s)
    BY StageOfStatus DEF ExclusionInv, PlansFresh
  <2> QED
    BY <1>11, <2>1, RestingMoves DEF RetryWrites, broker
<1>12. ASSUME NEW from \in {"PENDING_KK", "SCORED"}, NEW to, RequeueBatch(from, to)
       PROVE  ExclusionInv'
  <2>1. \A c \in Calls : status[c] = from => /\ retryPlan[c] = "none"
                                         /\ \A s \in Stages : status[c] # InFlightOf(s)
    BY StageOfStatus DEF ExclusionInv, PlansFresh
  <2> QED
    BY <1>12, <2>1, RestingMoves DEF RequeueBatch, broker
<1>13. CASE Backfill
  BY <1>12, <1>13 DEF Backfill, RequeuePendingKk, RequeueScoredForRelabel
<1>14. ASSUME NEW c \in Calls, NEW inScope \in BOOLEAN, ApplyScope(c, inScope)
       PROVE  ExclusionInv'
  <2>1. retryPlan[c] = "none" /\ \A s \in Stages : status[c] # InFlightOf(s)
    BY <1>14, StageOfStatus DEF ApplyScope, ExclusionInv, PlansFresh
  <2> QED
    BY <1>14, <2>1, RestingMoves DEF TypeOK, ApplyScope, broker
<1>15. CASE Midnight \/ UNCHANGED vars
  BY <1>15, RestingMoves DEF Midnight, row, broker, vars
<1>16. CASE Tick
  <2>1. /\ UNCHANGED <<status, attempts, artifacts, pending, queued, retryPlan>>
        /\ \A c \in Calls : claimAge'[c] \in Int /\ claimAge'[c] <= claimAge[c] + 1
        /\ \A c \in Calls : claimAge[c] \in Int
    BY <1>16 DEF TypeOK, Tick, broker, NoClaim
  <2>2. \A w \in Workers : /\ Live(w)' = Live(w) /\ job'[w].call = job[w].call
                           /\ job'[w].stage = job[w].stage /\ job'[w].pc = job[w].pc
                           /\ job'[w].seen = job[w].seen
                           /\ Live(w) => job'[w].run = job[w].run + 1
    BY <1>16 DEF TypeOK, Jobs, Tick, Live
  <2>3. WaitsInTime'
    <3> SUFFICES ASSUME NEW s \in Stages, NEW c \in Calls, Waits(s, c)'
                 PROVE  /\ status'[c] = InFlightOf(s) /\ claimAge'[c] <= MaxQueueWait
                        /\ \A w \in Workers : Live(w)' => job'[w].call # c
      BY DEF WaitsInTime
    <3>1. Waits(s, c) /\ Waiting(s, c)
      BY <2>1 DEF Waits, Waiting, ExclusionInv, WaitsInTime
    <3>2. claimAge[c] < MaxQueueWait
      BY <1>16, <3>1 DEF Tick
    <3> QED
      BY <2>1, <2>2, <3>1, <3>2, PipelineAssumption DEF ExclusionInv, WaitsInTime
  <2>4. RunsInTime'
    <3> SUFFICES ASSUME NEW w \in Workers, Live(w)
                 PROVE  /\ status[job[w].call] = InFlightOf(job[w].stage)
                        /\ claimAge'[job[w].call] <= MaxQueueWait + (job[w].run + 1)
                        /\ job[w].run + 1 <= JobTimeout(job[w].stage)
      BY <2>1, <2>2 DEF RunsInTime
    <3>1. /\ job[w].call \in Calls /\ job[w].run \in Nat
          /\ JobTimeout(job[w].stage) \in Nat
      BY TimeoutType DEF TypeOK, Jobs
    <3>2. job[w].run < JobTimeout(job[w].stage)
      BY <1>16 DEF Tick
    <3> QED
      BY <2>1, <3>1, <3>2, PipelineAssumption DEF ExclusionInv, RunsInTime
  <2> QED
    BY <2>1, <2>2, <2>3, <2>4 DEF ExclusionInv, OneHandover, ExclusiveRun, ReadsFresh, PlansFresh
<1>17. ASSUME NEW c \in Calls, ClientFactsChange(c) PROVE ExclusionInv'
  <2>1. UNCHANGED <<status, claimAge, attempts, artifacts, pending, queued, job, retryPlan>>
    BY <1>17 DEF ClientFactsChange, broker
  <2> QED
    BY <2>1 DEF ExclusionInv, OneHandover, WaitsInTime, RunsInTime, ExclusiveRun, ReadsFresh,
                PlansFresh, Waits, Live
<1> QED
  BY <1>1, <1>2, <1>3, <1>4, <1>5, <1>6, <1>7, <1>8, <1>9, <1>10, <1>11, <1>13, <1>14,
     <1>15, <1>16, <1>17
     DEF Next, Dispatch, TakeJob, FinishJob, Losing, Retrying

LEMMA ExclusionHolds == ASSUME PromptQueues PROVE Spec => []ExclusionInv
<1>1. Init => ExclusionInv
  BY DEF Init, ExclusionInv, OneHandover, WaitsInTime, RunsInTime, ExclusiveRun, ReadsFresh,
         PlansFresh, Waits, Live, IdleJob
<1> QED
  BY <1>1, ExclusionStep, TypeCorrect, PTL DEF Spec

(* With prompt queues no two jobs ever work on a call at the same time.    *)
THEOREM NoJobRunsTwice == ASSUME PromptQueues PROVE Spec => []ExclusiveRun
<1>1. ExclusionInv => ExclusiveRun
  BY DEF ExclusionInv
<1> QED
  BY <1>1, ExclusionHolds, PTL

-------------------------------------------------------------------------------
LEMMA SparesStep ==
  ASSUME PromptQueues, TypeOK, ExclusionInv, [Next]_vars,
         NEW w \in Workers, Live(w), job'[w] = job[w]
  PROVE  status'[job[w].call] # ReadyOf(job[w].stage)
<1> DEFINE c == job[w].call
<1>1. /\ c \in Calls /\ job[w].stage \in Stages /\ status[c] = InFlightOf(job[w].stage)
      /\ \A s \in Stages : status[c] = InFlightOf(s) => s = job[w].stage
      /\ \A s \in Stages : status[c] # ReadyOf(s) /\ InFlightOf(s) # ReadyOf(job[w].stage)
      /\ status[c] \notin {"NEW", "SKIPPED", "FAILED", "PENDING_KK", "SCORED"}
      /\ "FAILED" # ReadyOf(job[w].stage)
  BY StageOfStatus DEF TypeOK, Jobs, ExclusionInv, RunsInTime
<1>2. status'[c] = status[c] => status'[c] # ReadyOf(job[w].stage)
  BY <1>1
<1> SUFFICES status'[c] # ReadyOf(job[w].stage)
  OBVIOUS
<1> HIDE DEF c
<1>3. ASSUME NEW s \in Stages, ClaimReady(s) PROVE status'[c] # ReadyOf(job[w].stage)
  BY <1>1, <1>3 DEF ClaimReady, Claimable
<1>4. ASSUME NEW s \in Stages, ReclaimStale(s) PROVE status'[c] = status[c]
  <2>1. c \notin Stale(s)
    <3> SUFFICES ASSUME c \in Stale(s) PROVE FALSE
      OBVIOUS
    <3>0. claimAge[c] \in Int
      BY <1>1 DEF TypeOK, NoClaim
    <3>1. job[w].stage = s /\ claimAge[c] > StaleTTL[s] /\ claimAge[c] \in Int
      BY <1>1, <3>0 DEF Stale
    <3>2. claimAge[c] <= MaxQueueWait + job[w].run /\ job[w].run <= JobTimeout(s)
      BY <1>1, <3>1 DEF ExclusionInv, RunsInTime, c
    <3> QED
      BY <3>1, <3>2, TimeoutType, PipelineAssumption DEF PromptQueues, TypeOK, Jobs
  <2> QED
    BY <1>1, <1>4, <2>1 DEF ReclaimStale
<1>5. ASSUME NEW s \in Stages, NEW d \in Calls, NEW v \in Workers, JobStart(v, s, d)
      PROVE  status'[c] = status[c] \/ status'[c] = "FAILED"
  BY <1>1, <1>5 DEF TypeOK, JobStart
<1>6. ASSUME NEW v \in Workers, NEW st, NEW tries, NEW held, Settle(v, st, tries, held)
      PROVE  status'[c] = status[c]
  <2>1. v # w /\ Live(v)
    BY <1>6 DEF TypeOK, Settle, Live, IdleJob
  <2>2. job[v].call # c
    BY <2>1 DEF ExclusionInv, ExclusiveRun, c
  <2> QED
    BY <1>1, <1>6, <2>2 DEF TypeOK, Settle
<1>7. ASSUME NEW v \in Workers, JobSucceeds(v) \/ JobParks(v) \/ JobFails(v)
      PROVE  status'[c] = status[c]
  BY <1>6, <1>7 DEF JobSucceeds, JobParks, JobFails
<1>8. CASE RetryWrites
  BY <1>1, <1>8 DEF RetryWrites, ExclusionInv, PlansFresh
<1>9. CASE Backfill
  BY <1>1, <1>9 DEF Backfill, RequeuePendingKk, RequeueScoredForRelabel, RequeueBatch
<1>10. ASSUME NEW d \in Calls, NEW inScope \in BOOLEAN, ApplyScope(d, inScope)
       PROVE  status'[c] = status[c]
  BY <1>1, <1>10 DEF TypeOK, ApplyScope
<1>11. CASE status' = status
  BY <1>2, <1>11
<1> QED
  <2>1. \A s \in Stages, d \in Calls : EnqueueJob(s, d) \/ JobSkips(s, d) => status' = status
    BY DEF EnqueueJob, JobSkips, row
  <2>2. \A v \in Workers : JobReads(v) \/ JobSuperseded(v) => status' = status
    BY DEF JobReads, JobSuperseded, row
  <2>3. Losing => status' = status
    BY DEF Losing, DispatchLost, QueuesLost, JobKilled, JobTimesOut, row
  <2>4. RetryReads \/ Midnight \/ Tick \/ UNCHANGED vars => status' = status
    BY DEF RetryReads, Midnight, Tick, row, vars
  <2>6. \A d \in Calls : ClientFactsChange(d) => status' = status
    BY DEF ClientFactsChange
  <2>5. status'[c] = status[c] \/ status'[c] = "FAILED" => status'[c] # ReadyOf(job[w].stage)
    BY <1>1, <1>2
  <2> QED
    BY <1>3, <1>4, <1>5, <1>7, <1>8, <1>9, <1>10, <1>11, <2>1, <2>2, <2>3, <2>4, <2>5,
       <2>6 DEF Next, Dispatch, TakeJob, FinishJob, Retrying, c

(* With prompt queues the reconciler never reverts a live job.             *)
THEOREM ReconcilerSpares == ASSUME PromptQueues PROVE Spec => ReconcilerSparesLiveJobs
<1>1. TypeOK /\ ExclusionInv /\ [Next]_vars =>
        [\A w \in Workers :
           Live(w) /\ job'[w] = job[w] /\ status[job[w].call] = InFlightOf(job[w].stage)
             => status'[job[w].call] # ReadyOf(job[w].stage)]_vars
  BY SparesStep
<1> QED
  BY <1>1, ExclusionHolds, TypeCorrect, PTL DEF Spec, ReconcilerSparesLiveJobs

-------------------------------------------------------------------------------
(***************************************************************************)
(* The refinement.  With prompt queues, claims, queues, jobs, duplicates   *)
(* that never happen and losses leave of every call a machine that takes   *)
(* one lifecycle step at a time.                                           *)
(***************************************************************************)
(* The lifecycle's vocabulary is the pipeline's.                           *)
LEMMA SameStages ==
  /\ Lifecycle!Stages = Stages
  /\ \A s : /\ Lifecycle!ReadyOf(s) = ReadyOf(s) /\ Lifecycle!InFlightOf(s) = InFlightOf(s)
            /\ Lifecycle!DoneOf(s) = DoneOf(s) /\ Lifecycle!Product(s) = Product(s)
  /\ \A s, held : Lifecycle!HasInput(s, held) <=> HasInput(s, held)
  /\ \A held : Lifecycle!ResumeStatus(held) = ResumeStatus(held)
  /\ \A s, tries : /\ Lifecycle!FailureStatus(s, tries) = FailureStatus(s, tries)
                   /\ Lifecycle!SuccessTries(s, tries) = SuccessTries(s, tries)
BY DEF Lifecycle!Stages, Stages, Lifecycle!ReadyOf, ReadyOf, Lifecycle!InFlightOf, InFlightOf,
       Lifecycle!DoneOf, DoneOf, Lifecycle!Product, Product, Lifecycle!HasInput, HasInput,
       Lifecycle!ResumeStatus, ResumeStatus, Lifecycle!FailureStatus, FailureStatus,
       Lifecycle!SuccessTries, SuccessTries

Stays(c) == UNCHANGED <<status[c], attempts[c], artifacts[c]>>

LEMMA StayIsStep == ASSUME NEW c, Stays(c) PROVE Lifecycle!CallStep(c)
BY DEF Stays, Lifecycle!CallStep, Lifecycle!Moves, Lifecycle!Becomes

(* A step that only moves statuses is a lifecycle step if every row that   *)
(* moves makes one of the lifecycle's moves.                               *)
LEMMA MovesAreSteps ==
  ASSUME NEW c, UNCHANGED <<attempts, artifacts>>,
         \/ status'[c] = status[c]
         \/ \E s \in Stages : status[c] = ReadyOf(s) /\ status'[c] = InFlightOf(s)
         \/ \E s \in Stages : status[c] = InFlightOf(s) /\ status'[c] = ReadyOf(s)
         \/ status[c] = "FAILED" /\ attempts[c] < MaxRetries
              /\ status'[c] = ResumeStatus(artifacts[c])
         \/ status[c] = "PENDING_KK" /\ status'[c] = "DOWNLOADED"
         \/ status[c] = "SCORED" /\ status'[c] = "TRANSCRIBED"
         \/ status[c] = "NEW" /\ status'[c] = "SKIPPED"
         \/ status[c] = "SKIPPED" /\ status'[c] = "NEW"
  PROVE  Lifecycle!CallStep(c)
BY SameStages
   DEF Lifecycle!CallStep, Lifecycle!Moves, Lifecycle!Becomes, Lifecycle!Claims,
       Lifecycle!Releases, Lifecycle!Resumes, Lifecycle!Unparks, Lifecycle!Relabels,
       Lifecycle!Rescopes

(* A commit changes its own row only.                                      *)
LEMMA SettleIsLocal ==
  ASSUME TypeOK, NEW w \in Workers, NEW st, NEW tries, NEW held, Settle(w, st, tries, held)
  PROVE  /\ job[w].call \in Calls /\ job[w].stage \in Stages /\ Live(w)
         /\ job[w].pc = "settling"
         /\ Lifecycle!Becomes(job[w].call, st, tries, held)
         /\ \A c \in Calls : c # job[w].call => Stays(c)
BY DEF TypeOK, Jobs, Settle, Live, Lifecycle!Becomes, Stays

LEMMA PipelineStep ==
  ASSUME PromptQueues, TypeOK, ExclusionInv, ArtifactsInv, Next, NEW c \in Calls
  PROVE  Lifecycle!CallStep(c)
<1>1. ASSUME NEW s \in Stages, ClaimReady(s) PROVE Lifecycle!CallStep(c)
  <2>1. /\ status'[c] = status[c] \/ (status[c] = ReadyOf(s) /\ status'[c] = InFlightOf(s))
        /\ UNCHANGED <<attempts, artifacts>>
    BY <1>1 DEF ClaimReady, Claimable
  <2> QED
    BY <2>1, MovesAreSteps
<1>2. ASSUME NEW s \in Stages, ReclaimStale(s) PROVE Lifecycle!CallStep(c)
  <2>1. /\ status'[c] = status[c] \/ (status[c] = InFlightOf(s) /\ status'[c] = ReadyOf(s))
        /\ UNCHANGED <<attempts, artifacts>>
    BY <1>2 DEF ReclaimStale, Stale
  <2> QED
    BY <2>1, MovesAreSteps
<1>3. ASSUME NEW s \in Stages, NEW d \in Calls, NEW w \in Workers, JobStart(w, s, d)
      PROVE  Stays(c)
  <2>1. HasInput(s, artifacts[d])
    BY <1>3, StageNeeds DEF ArtifactsInv, ArtifactsMatchStatus, JobStart
  <2> QED
    BY <1>3, <2>1 DEF JobStart, Stays
<1>4. ASSUME NEW w \in Workers, JobSucceeds(w) PROVE Lifecycle!CallStep(c)
  <2> DEFINE s == job[w].stage
             d == job[w].call
             tries == IF s = "download" THEN SuccessTries(s, job[w].seen) ELSE attempts[d]
  <2>1. Settle(w, DoneOf(s), tries, artifacts[d] \cup {Product(s)})
    BY <1>4 DEF JobSucceeds
  <2>2. /\ d \in Calls /\ s \in Stages /\ Live(w) /\ job[w].pc = "settling"
        /\ Lifecycle!Becomes(d, DoneOf(s), tries, artifacts[d] \cup {Product(s)})
        /\ c # d => Stays(c)
    BY <2>1, SettleIsLocal
  <2>3. tries = SuccessTries(s, attempts[d])
    BY <2>2 DEF ExclusionInv, ReadsFresh, SuccessTries
  <2>4. status[d] = InFlightOf(s) /\ HasInput(s, artifacts[d])
    BY <2>2, StageNeeds DEF ExclusionInv, RunsInTime, ArtifactsInv, JobsFed
  <2>5. Lifecycle!Completes(d)
    <3> HIDE DEF s, d, tries
    <3> QED
      BY <2>2, <2>3, <2>4, SameStages DEF Lifecycle!Completes
  <2> QED
    BY <2>2, <2>5, StayIsStep DEF Lifecycle!CallStep
<1>5. ASSUME NEW w \in Workers, JobParks(w) PROVE Lifecycle!CallStep(c)
  <2>1. /\ c # job[w].call => Stays(c)
        /\ Lifecycle!Becomes(job[w].call, "PENDING_KK", attempts[job[w].call],
                             artifacts[job[w].call])
    BY <1>5, SettleIsLocal DEF JobParks
  <2>2. status[job[w].call] = "TRANSCRIBING"
    BY <1>5, SettleIsLocal DEF JobParks, ExclusionInv, RunsInTime, InFlightOf
  <2>3. Lifecycle!Parks(job[w].call)
    BY <2>1, <2>2 DEF Lifecycle!Parks, Lifecycle!Moves
  <2> QED
    BY <2>1, <2>3, StayIsStep DEF Lifecycle!CallStep
<1>6. ASSUME NEW w \in Workers, JobFails(w) PROVE Lifecycle!CallStep(c)
  <2> DEFINE s == job[w].stage
             d == job[w].call
             tries == job[w].seen + 1
  <2>1. /\ d \in Calls /\ s \in Stages /\ Live(w) /\ job[w].pc = "settling"
        /\ Lifecycle!Becomes(d, FailureStatus(s, tries), tries, artifacts[d])
        /\ c # d => Stays(c)
    BY <1>6, SettleIsLocal DEF JobFails
  <2>2. tries = attempts[d] + 1 /\ status[d] = InFlightOf(s)
    BY <2>1 DEF ExclusionInv, ReadsFresh, RunsInTime
  <2>3. Lifecycle!FailsOnce(d)
    <3> HIDE DEF s, d, tries
    <3> QED
      BY <2>1, <2>2, SameStages DEF Lifecycle!FailsOnce
  <2> QED
    BY <2>1, <2>3, StayIsStep DEF Lifecycle!CallStep
<1>7. CASE RetryWrites
  <2>1. /\ status'[c] = status[c] \/ (status[c] = "FAILED" /\ attempts[c] < MaxRetries
                                      /\ status'[c] = ResumeStatus(artifacts[c]))
        /\ UNCHANGED <<attempts, artifacts>>
    BY <1>7 DEF RetryWrites, ExclusionInv, PlansFresh
  <2> QED
    BY <2>1, MovesAreSteps
<1>8. CASE Backfill
  <2>1. /\ \/ status'[c] = status[c]
           \/ status[c] = "PENDING_KK" /\ status'[c] = "DOWNLOADED"
           \/ status[c] = "SCORED" /\ status'[c] = "TRANSCRIBED"
        /\ UNCHANGED <<attempts, artifacts>>
    BY <1>8 DEF Backfill, RequeuePendingKk, RequeueScoredForRelabel, RequeueBatch
  <2> QED
    BY <2>1, MovesAreSteps
<1>9. ASSUME NEW d \in Calls, NEW inScope \in BOOLEAN, ApplyScope(d, inScope)
      PROVE  Lifecycle!CallStep(c)
  <2>1. /\ \/ status'[c] = status[c]
           \/ status[c] = "NEW" /\ status'[c] = "SKIPPED"
           \/ status[c] = "SKIPPED" /\ status'[c] = "NEW"
        /\ UNCHANGED <<attempts, artifacts>>
    BY <1>9 DEF TypeOK, ApplyScope
  <2> QED
    BY <2>1, MovesAreSteps
<1>10. CASE UNCHANGED <<status, attempts, artifacts>>
  BY <1>10, StayIsStep DEF Stays
<1> QED
  <2>1. \A s \in Stages, d \in Calls : EnqueueJob(s, d) \/ JobSkips(s, d)
          => UNCHANGED <<status, attempts, artifacts>>
    BY DEF EnqueueJob, JobSkips, row
  <2>2. \A w \in Workers : JobReads(w) \/ JobSuperseded(w)
          => UNCHANGED <<status, attempts, artifacts>>
    BY DEF JobReads, JobSuperseded, row
  <2>3. Losing => UNCHANGED <<status, attempts, artifacts>>
    BY DEF Losing, DispatchLost, QueuesLost, JobKilled, JobTimesOut, row
  <2>4. RetryReads \/ Midnight \/ Tick => UNCHANGED <<status, attempts, artifacts>>
    BY DEF RetryReads, Midnight, Tick, row
  <2>5. \A d \in Calls : ClientFactsChange(d) => UNCHANGED <<status, attempts, artifacts>>
    BY DEF ClientFactsChange
  <2> QED
    BY <2>5, <1>1, <1>2, <1>3, <1>4, <1>5, <1>6, <1>7, <1>8, <1>9, <1>10, <2>1, <2>2, <2>3, <2>4,
       StayIsStep
       DEF Next, Dispatch, TakeJob, FinishJob, Retrying

(* Every behaviour of the pipeline with prompt queues is one of the        *)
(* lifecycle: one outcome per claim, every failure counted exactly once.   *)
THEOREM Implementation == ASSUME PromptQueues PROVE Spec => ImplementsLifecycle
<1>1. Init => Lifecycle!LifecycleInit
  BY DEF Init, Lifecycle!LifecycleInit
<1>2. TypeOK /\ ExclusionInv /\ ArtifactsInv /\ [Next]_vars
        => [Lifecycle!LifecycleNext]_Lifecycle!lvars
  <2>1. UNCHANGED vars => UNCHANGED Lifecycle!lvars
    BY DEF vars, Lifecycle!lvars
  <2> QED
    BY <2>1, PipelineStep DEF Lifecycle!LifecycleNext
<1> QED
  BY <1>1, <1>2, TypeCorrect, ExclusionHolds, ArtifactsHold, PTL
     DEF Spec, ImplementsLifecycle, Lifecycle!LifecycleSpec

(***************************************************************************)
(* Attempts.  The lifecycle is enough to bound them: a call that is yet to *)
(* be downloaded has an attempt left, and a failure after the download is  *)
(* the last one unless the retry pass still finds it below max_retries.    *)
(***************************************************************************)
AttemptsInv == \A c \in Calls :
  /\ status[c] \in {"NEW", "SKIPPED", "DOWNLOADING"} => attempts[c] < AttemptCap
  /\ status[c] # "FAILED" => attempts[c] <= AttemptCap
  /\ attempts[c] <= 1 + AttemptCap

LEMMA CapFacts == /\ AttemptCap \in Nat \ {0}
                  /\ MaxRetries <= AttemptCap /\ MaxDownloadAttempts <= AttemptCap
BY RetryAssumption DEF AttemptCap

LEMMA AttemptsStep ==
  ASSUME TypeOK, AttemptsInv, NEW c \in Calls, Lifecycle!CallStep(c)
  PROVE  /\ status'[c] \in {"NEW", "SKIPPED", "DOWNLOADING"} => attempts'[c] < AttemptCap
         /\ status'[c] # "FAILED" => attempts'[c] <= AttemptCap
         /\ attempts'[c] <= 1 + AttemptCap
<1> DEFINE Bounded == /\ status'[c] \in {"NEW", "SKIPPED", "DOWNLOADING"} => attempts'[c] < AttemptCap
                      /\ status'[c] # "FAILED" => attempts'[c] <= AttemptCap
                      /\ attempts'[c] <= 1 + AttemptCap
<1> SUFFICES Bounded
  OBVIOUS
<1> USE CapFacts, RetryAssumption DEF Lifecycle!Moves, Lifecycle!Becomes
<1>1. /\ attempts[c] \in Nat
      /\ status[c] \in {"NEW", "SKIPPED", "DOWNLOADING"} => attempts[c] < AttemptCap
      /\ status[c] # "FAILED" => attempts[c] <= AttemptCap
      /\ attempts[c] <= 1 + AttemptCap
  BY DEF TypeOK, AttemptsInv
<1>2. CASE Lifecycle!Claims(c) \/ Lifecycle!Releases(c)
  BY <1>1, <1>2 DEF Lifecycle!Claims, Lifecycle!Releases, Lifecycle!Stages, Lifecycle!ReadyOf,
                    Lifecycle!InFlightOf
<1>3. CASE Lifecycle!Completes(c)
  BY <1>1, <1>3 DEF Lifecycle!Completes, Lifecycle!Stages, Lifecycle!InFlightOf,
                    Lifecycle!DoneOf, Lifecycle!SuccessTries
<1>4. CASE Lifecycle!FailsOnce(c)
  BY <1>1, <1>4 DEF Lifecycle!FailsOnce, Lifecycle!Stages, Lifecycle!InFlightOf,
                    Lifecycle!FailureStatus
<1>5. CASE Lifecycle!Resumes(c)
  BY <1>1, <1>5 DEF Lifecycle!Resumes, Lifecycle!ResumeStatus
<1>6. CASE Lifecycle!Parks(c) \/ Lifecycle!Unparks(c) \/ Lifecycle!Relabels(c)
           \/ Lifecycle!Rescopes(c)
  BY <1>1, <1>6 DEF Lifecycle!Parks, Lifecycle!Unparks, Lifecycle!Relabels, Lifecycle!Rescopes
<1>7. CASE Lifecycle!Moves(c, status[c], status[c])
  BY <1>1, <1>7
<1> QED
  BY <1>2, <1>3, <1>4, <1>5, <1>6, <1>7 DEF Lifecycle!CallStep

(* With prompt queues no call costs more than one attempt past the caps.   *)
THEOREM AttemptsAlwaysBounded == ASSUME PromptQueues PROVE Spec => []AttemptsBounded
<1>1. Init => AttemptsInv
  BY CapFacts DEF Init, AttemptsInv
<1>2. TypeOK /\ ExclusionInv /\ ArtifactsInv /\ AttemptsInv /\ [Next]_vars => AttemptsInv'
  <2> SUFFICES ASSUME TypeOK, ExclusionInv, ArtifactsInv, AttemptsInv, [Next]_vars
               PROVE  AttemptsInv'
    OBVIOUS
  <2>1. CASE Next
    BY <2>1, PipelineStep, AttemptsStep DEF AttemptsInv
  <2>2. CASE UNCHANGED vars
    BY <2>2 DEF vars, AttemptsInv
  <2> QED
    BY <2>1, <2>2
<1>3. AttemptsInv => AttemptsBounded
  BY DEF AttemptsInv, AttemptsBounded
<1> QED
  BY <1>1, <1>2, <1>3, TypeCorrect, ExclusionHolds, ArtifactsHold, PTL DEF Spec
===============================================================================
