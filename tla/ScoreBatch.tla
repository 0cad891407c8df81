------------------------------- MODULE ScoreBatch ------------------------------
(***************************************************************************)
(* Scoring the backlog through the provider's batch API, beside the        *)
(* pipeline.  A submit claims calls like a dispatch pass, sends them in    *)
(* chunks and records each accepted chunk as a row of score_batches; a     *)
(* poller keeps the claims of unfinished batches young and settles the     *)
(* calls of finished ones.  Both are commands of an operator, one of each  *)
(* at a time.                                                              *)
(*                                                                         *)
(* A row that is done is never read again, so its name is free for another *)
(* batch.  A batch the provider has accepted and the table does not know   *)
(* (the answer was lost, or the command died before it wrote the row) runs *)
(* and is paid like any other, and nothing of the system ever reads it: an *)
(* orphan, of which only the calls in it matter.                           *)
(***************************************************************************)
EXTENDS CallPipeline

CONSTANTS
  Batches,        (* bound: names of batches                                   *)
  NoBatch,
  ScoreBatchSize, (* anthropic_batch_size                                      *)
  PollerPrompt,   (* whether the poller sees every open batch in each tick     *)
  PollerDies      (* whether the poller may stop in the middle of a pass       *)

ASSUME BatchAssumption ==
  /\ NoBatch \notin Batches
  /\ ScoreBatchSize \in Nat \ {0}
  /\ PollerPrompt \in BOOLEAN
  /\ PollerDies \in BOOLEAN

VARIABLES
  submitting,  (* the calls a submit has claimed and not yet sent              *)
  batch,       (* what the provider and the table know of each batch           *)
  orphans,     (* the calls of each batch the provider runs and nobody knows   *)
  poll,        (* the pass of the poller: batches to look at, the one being    *)
               (* drained, its calls that are left, and the one whose row the  *)
               (* open transaction has read, with the attempts it saw          *)
  due          (* the open batches a prompt poller has yet to see in this tick *)

bvars == <<vars, submitting, batch, orphans, poll, due>>

(* How the provider ends a request; what it never reports counts as expired, *)
(* an answer that cannot be parsed as errored.                               *)
Outcomes == {"succeeded", "errored", "expired"}

FreeBatch == [phase |-> "free", calls |-> {}, ended |-> FALSE, result |-> [c \in Calls |-> "expired"]]
NoPass    == [todo |-> {}, at |-> NoBatch, left |-> {}, reading |-> NoCall, seen |-> 0]

InFlight  == {b \in Batches : batch[b].phase = "in_flight"}
Accepted  == {b \in Batches : batch[b].phase = "accepted"}

-------------------------------------------------------------------------------
(* submit_pending *)

(* A call without a transcript never gets into a request: it fails.         *)
SubmitClaims ==
  \E includeToday \in BOOLEAN :
    \E claimed \in SUBSET {c \in analyzable : /\ status[c] = "TRANSCRIBED"
                                              /\ includeToday \/ c \notin today
                                              /\ attempts[c] < MaxRedone} :
      LET covered == {c \in claimed : HasInput("score", artifacts[c])}
          failed  == claimed \ covered
      IN /\ submitting = {} /\ Accepted = {} /\ claimed # {}
         /\ submitting' = covered
         /\ status' = [c \in Calls |-> IF c \in covered THEN "SCORING"
                                       ELSE IF c \in failed THEN "FAILED" ELSE status[c]]
         /\ claimAge' = [c \in Calls |-> IF c \in covered THEN 0
                                         ELSE IF c \in failed THEN NoClaim ELSE claimAge[c]]
         /\ attempts' = [c \in Calls |-> IF c \in failed THEN attempts[c] + 1 ELSE attempts[c]]
         /\ olderFailed' = FiledLast(failed)
         /\ UNCHANGED <<artifacts, analyzable, today, broker, job, retryPlan, losses,
                        batch, orphans, poll, due>>

IsChunk(calls) == /\ calls # {} /\ Cardinality(calls) <= ScoreBatchSize
                  /\ calls = submitting \/ Cardinality(calls) = ScoreBatchSize

SubmitSends(b) ==
  \E chunk \in SUBSET submitting :
    /\ IsChunk(chunk) /\ Accepted = {} /\ batch[b].phase = "free"
    /\ batch' = [batch EXCEPT ![b].phase = "accepted", ![b].calls = chunk]
    /\ submitting' = submitting \ chunk
    /\ UNCHANGED <<vars, orphans, poll, due>>

(* Mutant: a refused chunk releases everything the submit has claimed. *)
SubmitRejectedAll ==
  \E chunk \in SUBSET submitting :
    LET sent     == UNION {batch[b].calls : b \in Batches}
        released == {c \in submitting \cup sent : status[c] = "SCORING"} IN
      /\ IsChunk(chunk) /\ Accepted = {}
      /\ status' = [c \in Calls |-> IF c \in released THEN "TRANSCRIBED" ELSE status[c]]
      /\ claimAge' = [c \in Calls |-> IF c \in released THEN NoClaim ELSE claimAge[c]]
      /\ submitting' = submitting \ chunk
      /\ UNCHANGED <<attempts, artifacts, analyzable, olderFailed, today, broker, job,
                     retryPlan, losses, batch, orphans, poll, due>>

(* Any error of the request is taken for a refusal: the claims are released *)
(* and no attempt is counted.                                               *)
SubmitRejected ==
  \E chunk \in SUBSET submitting :
    LET released == {c \in chunk : status[c] = "SCORING"} IN
      /\ IsChunk(chunk) /\ Accepted = {}
      /\ status' = [c \in Calls |-> IF c \in released THEN "TRANSCRIBED" ELSE status[c]]
      /\ claimAge' = [c \in Calls |-> IF c \in released THEN NoClaim ELSE claimAge[c]]
      /\ submitting' = submitting \ chunk
      /\ UNCHANGED <<attempts, artifacts, analyzable, olderFailed, today, broker, job,
                     retryPlan, losses, batch, orphans, poll, due>>

(* The row is written in a transaction of its own, after the acceptance. *)
SubmitRegisters(b) ==
  /\ b \in Accepted
  /\ batch' = [batch EXCEPT ![b].phase = "in_flight"]
  /\ UNCHANGED <<vars, submitting, orphans, poll, due>>

(* The provider accepts a chunk and the answer is lost.  The client library *)
(* sends the request again by itself, or gives up and raises.               *)
SubmitUnanswered ==
  \E chunk \in SUBSET submitting :
    /\ IsChunk(chunk) /\ Accepted = {}
    /\ losses < MaxLosses
    /\ losses' = losses + 1
    /\ orphans' = orphans \cup {chunk}
    /\ UNCHANGED <<row, today, broker, job, retryPlan, submitting, batch, poll, due>>

(* The command dies: its claims stay, and an accepted batch is an orphan. *)
SubmitDies ==
  /\ submitting # {} \/ Accepted # {}
  /\ losses < MaxLosses
  /\ losses' = losses + 1
  /\ submitting' = {}
  /\ batch' = [b \in Batches |-> IF b \in Accepted THEN FreeBatch ELSE batch[b]]
  /\ orphans' = orphans \cup {batch[b].calls : b \in {a \in Accepted : ~batch[a].ended}}
  /\ UNCHANGED <<row, today, broker, job, retryPlan, poll, due>>

OrphanEnds(calls) ==
  /\ calls \in orphans
  /\ orphans' = orphans \ {calls}
  /\ UNCHANGED <<vars, submitting, batch, poll, due>>

(* The provider's side: a batch ends once, with a result for every call. *)
ProviderEnds(b) ==
  /\ b \in InFlight \cup Accepted /\ ~batch[b].ended
  /\ \E outcome \in [batch[b].calls -> Outcomes] :
       batch' = [batch EXCEPT ![b].ended = TRUE,
                              ![b].result = [c \in Calls |-> IF c \in batch[b].calls
                                                             THEN outcome[c] ELSE "expired"]]
  /\ UNCHANGED <<vars, submitting, orphans, poll, due>>

-------------------------------------------------------------------------------
(* poll_batches *)

PollStarts ==
  /\ poll = NoPass /\ InFlight # {}
  /\ poll' = [NoPass EXCEPT !.todo = InFlight]
  /\ UNCHANGED <<vars, submitting, batch, orphans, due>>

(* Mutant: the pass leaves the claims of an unfinished batch alone. *)
PollWaits(b) ==
  /\ poll.at = NoBatch /\ b \in poll.todo
  /\ poll' = [poll EXCEPT !.todo = @ \ {b}]
  /\ due' = due \ {b}
  /\ UNCHANGED <<vars, submitting, batch, orphans>>

(* The batch has not ended, or cannot be retrieved: its claims are renewed. *)
PollHeartbeats(b) ==
  /\ poll.at = NoBatch /\ b \in poll.todo
  /\ claimAge' = [c \in Calls |-> IF c \in batch[b].calls /\ status[c] = "SCORING"
                                  THEN 0 ELSE claimAge[c]]
  /\ poll' = [poll EXCEPT !.todo = @ \ {b}]
  /\ due' = due \ {b}
  /\ UNCHANGED <<status, attempts, artifacts, analyzable, olderFailed, today, broker, job,
                 retryPlan, losses, submitting, batch, orphans>>

(* Mutant: a batch is drained only when no call of it was reclaimed. *)
PollDrainsWhole(b) ==
  /\ poll.at = NoBatch /\ b \in poll.todo /\ batch[b].ended
  /\ \A c \in batch[b].calls : status[c] = "SCORING"
  /\ poll' = [poll EXCEPT !.todo = @ \ {b}, !.at = b, !.left = batch[b].calls]
  /\ UNCHANGED <<vars, submitting, batch, orphans, due>>

PollDrains(b) ==
  /\ poll.at = NoBatch /\ b \in poll.todo /\ batch[b].ended
  /\ poll' = [poll EXCEPT !.todo = @ \ {b}, !.at = b, !.left = batch[b].calls]
  /\ UNCHANGED <<vars, submitting, batch, orphans, due>>

(***************************************************************************)
(* One result of an ended batch is one transaction of _persist_result,     *)
(* _fail or _release.  It goes on only if the row it reads is SCORING, and *)
(* like the commit of a job it writes by primary key, whatever the row     *)
(* holds by then.                                                          *)
(***************************************************************************)
PollReads(c) ==
  /\ c \in poll.left /\ poll.reading = NoCall
  /\ status[c] = "SCORING"
  /\ poll' = [poll EXCEPT !.reading = c, !.seen = attempts[c]]
  /\ UNCHANGED <<vars, submitting, batch, orphans, due>>

PollSkips(c) ==
  /\ c \in poll.left /\ poll.reading = NoCall
  /\ status[c] # "SCORING"
  /\ poll' = [poll EXCEPT !.left = @ \ {c}]
  /\ UNCHANGED <<vars, submitting, batch, orphans, due>>

Answers(c, st, tries, held) ==
  /\ poll' = [poll EXCEPT !.left = @ \ {c}, !.reading = NoCall, !.seen = 0]
  /\ status' = [status EXCEPT ![c] = st]
  /\ attempts' = [attempts EXCEPT ![c] = tries]
  /\ artifacts' = [artifacts EXCEPT ![c] = held]
  /\ claimAge' = [claimAge EXCEPT ![c] = NoClaim]
  /\ olderFailed' = IF st = "FAILED" THEN FiledLast({c}) ELSE Unfiled({c})
  /\ UNCHANGED <<analyzable, today, broker, job, retryPlan, losses, submitting, batch,
                 orphans, due>>

Scored(c)  == Answers(c, "SCORED", attempts[c], artifacts[c] \cup {"score"})
Errored(c) == Answers(c, "FAILED", poll.seen + 1, artifacts[c])

(* Mutant: a call the model never saw loses an attempt. *)
ExpiredCounted(c) == Answers(c, "TRANSCRIBED", poll.seen + 1, artifacts[c])
Expired(c) == Answers(c, "TRANSCRIBED", attempts[c], artifacts[c])

(* An answer that cannot be parsed or stored fails the call as well. *)
PollSettles(c) ==
  /\ poll.reading = c
  /\ LET outcome == batch[poll.at].result[c]
     IN \/ outcome = "succeeded" /\ Scored(c)
        \/ outcome \in {"succeeded", "errored"} /\ Errored(c)
        \/ outcome = "expired" /\ Expired(c)

PollCloses ==
  /\ poll.at # NoBatch /\ poll.left = {}
  /\ batch' = [batch EXCEPT ![poll.at] = FreeBatch]
  /\ poll' = [poll EXCEPT !.at = NoBatch]
  /\ due' = due \ {poll.at}
  /\ UNCHANGED <<vars, submitting, orphans>>

(* The command dies, or an exception ends it: the rows stay in_flight. *)
PollDies ==
  /\ PollerDies /\ poll # NoPass /\ losses < MaxLosses
  /\ losses' = losses + 1
  /\ poll' = NoPass
  /\ UNCHANGED <<row, today, broker, job, retryPlan, submitting, batch, orphans, due>>

-------------------------------------------------------------------------------
(* A prompt poller renews or drains every open batch in each tick, and a    *)
(* submit is through within one.                                            *)
BatchesServed == PollerPrompt => due = {} /\ submitting = {} /\ Accepted = {}

BInit ==
  /\ Init
  /\ submitting = {}
  /\ batch = [b \in Batches |-> FreeBatch]
  /\ orphans = {}
  /\ poll = NoPass
  /\ due = {}

Submit == SubmitClaims \/ SubmitRejected \/ SubmitUnanswered \/ SubmitDies
            \/ \E b \in Batches : SubmitSends(b) \/ SubmitRegisters(b)
TakeResult(c) == PollReads(c) \/ PollSkips(c) \/ PollSettles(c)
Polling == PollStarts \/ PollCloses \/ PollDies \/ (\E c \in Calls : TakeResult(c))
            \/ \E b \in Batches : PollHeartbeats(b) \/ PollDrains(b)

BNext ==
  \/ /\ Next
     /\ IF Tick THEN BatchesServed /\ due' = (IF PollerPrompt THEN InFlight ELSE {})
                ELSE UNCHANGED due
     /\ UNCHANGED <<submitting, batch, orphans, poll>>
  \/ Submit \/ Polling \/ (\E b \in Batches : ProviderEnds(b))
  \/ \E calls \in SUBSET Calls : OrphanEnds(calls)

BSpec == BInit /\ [][BNext]_bvars

-------------------------------------------------------------------------------
BatchRows == [phase : {"free", "accepted", "in_flight"}, calls : SUBSET Calls,
              ended : BOOLEAN, result : [Calls -> Outcomes]]

Passes == [todo : SUBSET Batches, at : Batches \cup {NoBatch}, left : SUBSET Calls,
           reading : Calls \cup {NoCall}, seen : Nat]

BatchTypes ==
  /\ submitting \in SUBSET Calls
  /\ batch \in [Batches -> BatchRows]
  /\ orphans \subseteq SUBSET Calls
  /\ poll \in Passes
  /\ due \in SUBSET Batches

BTypeOK == TypeOK /\ BatchTypes

(***************************************************************************)
(* "Submitted calls stay claimed for the batch's whole life": while the    *)
(* provider works on a batch, each call of it is SCORING, so neither a     *)
(* dispatch pass nor another submit can claim it.                          *)
(***************************************************************************)
BatchKeepsClaims ==
  \A b \in Batches : ~batch[b].ended => \A c \in batch[b].calls : status[c] = "SCORING"

(***************************************************************************)
(* Of all that the system knows of, a call is paid for once at a time: the *)
(* realtime jobs, the submit and the batches the provider still works on   *)
(* have no call in common.  Whatever else is paid for is an orphan.        *)
(***************************************************************************)
BatchesOn(c) == {b \in Batches : ~batch[b].ended /\ c \in batch[b].calls}
JobsOn(c)    == {w \in Workers : Live(w) /\ job[w].call = c}

OnePayer ==
  \A c \in Calls : Cardinality(BatchesOn(c)) + Cardinality(JobsOn(c))
                     + (IF c \in submitting THEN 1 ELSE 0) <= 1

(***************************************************************************)
(* "Reclaimed or already scored elsewhere": a result of a batch is not     *)
(* applied to a call that has been claimed again by someone else.          *)
(***************************************************************************)
ReclaimedIsLeftAlone ==
  [][\A c \in Calls : PollSettles(c)
       => /\ c \notin submitting
          /\ \A b \in Batches \ {poll.at} : c \notin batch[b].calls
          /\ \A w \in Workers : Live(w) => job[w].call # c]_bvars

(***************************************************************************)
(* Every batch the provider has accepted and the table knows is closed in  *)
(* the end, whoever dies and whatever has become of its calls: a poller is *)
(* left running, the provider ends every batch, and a batch that has ended *)
(* can be retrieved again and again.                                       *)
(***************************************************************************)
BFairness ==
  /\ WF_bvars(PollStarts) /\ WF_bvars(PollCloses)
  /\ \A c \in Calls : WF_bvars(TakeResult(c))
  /\ \A b \in Batches : /\ WF_bvars(ProviderEnds(b)) /\ WF_bvars(SubmitRegisters(b))
                        /\ WF_bvars(PollHeartbeats(b)) /\ SF_bvars(PollDrains(b))

BFairSpec == BSpec /\ BFairness

BatchesClose == \A b \in Batches : []<>(batch[b].phase = "free")
===============================================================================
