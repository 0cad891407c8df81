-------------------------------- MODULE AuditPass --------------------------------
(***************************************************************************)
(* The close-reason audit (src/AtamuraOKK/audit): a pass scans the lost    *)
(* deals from the cursor on, settles the cheap ones against the CRM and    *)
(* the telephony, judges the others inline or hands them to the Batches    *)
(* API, and moves the cursor over the leading run of settled deals, all in *)
(* one transaction.  Passes overlap: the cron starts one every half hour   *)
(* and lets it run for an hour, and the CLI starts others; nothing locks   *)
(* them out of each other.  A poller, with a transaction per deal, fills   *)
(* in the verdicts of finished batches; one poll runs at a time.  Deals    *)
(* enter the lost stage in the order of their CLOSEDATE.                   *)
(***************************************************************************)
EXTENDS Integers, FiniteSets, FiniteSetsExt

CONSTANTS
  NDeals,        (* deals 1..NDeals, in the order a listing returns them *)
  ClosedAt,      (* the CLOSEDATE of each deal, from 1 on *)
  Routes,        (* which close reasons the deals may have: "crm" or "judge" each *)
  Modes,         (* how passes judge: "batch", "live", "off" *)
  BatchSize,     (* anthropic_batch_size *)
  Passes,        (* bound: passes that run at a time *)
  Slots,         (* bound: batches open at a time *)
  MaxFailures    (* bound: failed lookups, judgments, results, passes and polls *)

Deals == 1..NDeals
Dates == 0..NDeals

ASSUME AuditAssumption ==
  /\ {NDeals, BatchSize} \subseteq Nat \ {0} /\ MaxFailures \in Nat
  /\ ClosedAt \in [Deals -> Dates \ {0}]
  /\ \A d, e \in Deals : d < e => ClosedAt[d] <= ClosedAt[e]
  /\ Routes \subseteq [Deals -> {"crm", "judge"}] /\ Modes \subseteq {"batch", "live", "off"}

VARIABLES
  route,        (* where the close reason of each deal leads *)
  closed,       (* deals in the lost stage *)
  transcribed,  (* deals whose client has a transcript *)
  verdict,      (* audit_verdicts: the verdict column of each deal's row *)
  cursor,       (* IngestState of the audit; 0 for none *)
  batch,        (* audit_batches in flight, and what the provider made of them *)
  orphans,      (* deals in a batch the provider runs and no row knows of *)
  pass,         (* the running passes: what each has read *)
  poll,         (* the running poll: what it has left to do *)
  excused,      (* deals a pass counted as done that had no verdict then *)
  contested,    (* deals a pass wrote that an overlapping pass had found open too *)
  redrained,    (* deals whose pending row a batch drained late took from a newer one *)
  failures

vars == <<route, closed, transcribed, verdict, cursor, batch, orphans, pass, poll,
          excused, contested, redrained, failures>>
world == <<route, closed, transcribed>>
tally == <<excused, contested, redrained>>

Settled == {"supported", "contradicted"}
Results == Settled \cup {"blank", "dropped"}
Free == [deals |-> {}, results |-> <<>>]
Idle == [stage |-> "idle", mode |-> "off", from |-> 0, deals |-> {}, done |-> {}, inFlight |-> {}]
NoPoll == [todo |-> {}, draining |-> {}, left |-> {}]

Init ==
  /\ route \in Routes /\ closed = {} /\ transcribed = {} /\ verdict = [d \in Deals |-> "none"]
  /\ cursor = 0 /\ batch = [s \in Slots |-> Free] /\ orphans = {}
  /\ pass = [p \in Passes |-> Idle] /\ poll = NoPoll
  /\ excused = {} /\ contested = {} /\ redrained = {} /\ failures = 0

Ended(s) == DOMAIN batch[s].results # {}
Running(s, d) == d \in batch[s].deals /\ ~Ended(s)

-----------------------------------------------------------------------------
(* The world: deals are lost, calls get their transcripts, batches end. *)

DealCloses(d) ==
  /\ d \notin closed /\ \A e \in Deals : e < d => e \in closed
  /\ closed' = closed \cup {d}
  /\ UNCHANGED <<route, transcribed, verdict, cursor, batch, orphans, pass, poll, tally, failures>>

TranscriptArrives(d) ==
  /\ d \notin transcribed
  /\ transcribed' = transcribed \cup {d}
  /\ UNCHANGED <<route, closed, verdict, cursor, batch, orphans, pass, poll, tally, failures>>

Failed(results) == Cardinality({d \in DOMAIN results : results[d] \notin Settled})

BatchEnds(s) ==
  /\ batch[s].deals # {} /\ ~Ended(s)
  /\ \E results \in [batch[s].deals -> Results] :
       /\ failures + Failed(results) <= MaxFailures
       /\ batch' = [batch EXCEPT ![s].results = results]
       /\ failures' = failures + Failed(results)
  /\ UNCHANGED <<world, verdict, cursor, orphans, pass, poll, tally>>

OrphansEnd ==
  /\ orphans # {} /\ orphans' = {}
  /\ UNCHANGED <<world, verdict, cursor, batch, pass, poll, tally, failures>>

-----------------------------------------------------------------------------
(* run_audit *)

PassLists(p, mode) ==
  LET deals == {d \in closed : ClosedAt[d] >= cursor}
  IN
    /\ pass[p].stage = "idle" /\ deals # {}
    /\ pass' = [pass EXCEPT ![p] =
                   [Idle EXCEPT !.stage = "listed", !.mode = mode, !.from = cursor, !.deals = deals]]
    /\ UNCHANGED <<world, verdict, cursor, batch, orphans, poll, tally, failures>>

(* mutant: a deal in flight is not skipped *)
PassReadsSettled(p) ==
  /\ pass[p].stage = "listed"
  /\ pass' = [pass EXCEPT ![p].stage = "skips",
                ![p].done = {d \in pass[p].deals : verdict[d] \in Settled}]
  /\ UNCHANGED <<world, verdict, cursor, batch, orphans, poll, tally, failures>>

(* mutant: a settled deal is taken on again *)
PassReadsPending(p) ==
  /\ pass[p].stage = "listed"
  /\ pass' = [pass EXCEPT ![p].stage = "skips",
                ![p].done = {d \in pass[p].deals : verdict[d] = "pending"}]
  /\ UNCHANGED <<world, verdict, cursor, batch, orphans, poll, tally, failures>>

(* done_ids: every verdict but "error", so "pending" too... *)
PassReadsDone(p) ==
  /\ pass[p].stage = "listed"
  /\ pass' = [pass EXCEPT ![p].stage = "skips",
                ![p].done = {d \in pass[p].deals : verdict[d] \notin {"none", "error"}}]
  /\ UNCHANGED <<world, verdict, cursor, batch, orphans, poll, tally, failures>>

(* ... and in_flight, read next. *)
PassReadsInFlight(p) ==
  /\ pass[p].stage = "skips"
  /\ pass' = [pass EXCEPT ![p].stage = "settles",
                ![p].inFlight = {d \in pass[p].deals : verdict[d] = "pending"}]
  /\ UNCHANGED <<world, verdict, cursor, batch, orphans, poll, tally, failures>>

(* _resolve_targets: what is left to settle in this pass, and to judge. *)
Fresh(p) == pass[p].deals \ (pass[p].done \cup pass[p].inFlight)
ToCheck(p) == {d \in Fresh(p) : route[d] = "crm"}
ToJudge(p) == {d \in Fresh(p) : route[d] = "judge" /\ d \in transcribed /\ pass[p].mode # "off"}
Now(p) == ToCheck(p) \cup (IF pass[p].mode = "live" THEN ToJudge(p) ELSE {})

(* mutant: a submitted deal counts as done *)
DoneOrSubmitted(p, d, outcome) ==
  CASE d \in pass[p].inFlight -> TRUE
    [] d \in pass[p].done \ pass[p].inFlight -> TRUE
    [] d \in Now(p) -> outcome[d] # "error"
    [] OTHER -> route[d] = "judge" /\ d \notin transcribed

(* An entry's "done": in flight is not, nor is an error, a submitted deal or one *)
(* that waits for the judge to be switched on; a deal without transcript is.      *)
Done(p, d, outcome) ==
  CASE d \in pass[p].inFlight -> FALSE
    [] d \in pass[p].done \ pass[p].inFlight -> TRUE
    [] d \in Now(p) -> outcome[d] # "error"
    [] OTHER -> route[d] = "judge" /\ d \notin transcribed

(* The cursor goes to the last deal of the leading run of done ones; it is written *)
(* only when that is not where this pass had found it, so it may move back.        *)
NewCursor(p, outcome) ==
  LET run == {d \in pass[p].deals : \A e \in pass[p].deals : e <= d => Done(p, e, outcome)}
  IN IF run = {} \/ ClosedAt[Max(run)] = pass[p].from THEN cursor ELSE ClosedAt[Max(run)]

(* submit_targets: chunks of the targets, each accepted as a batch or refused. *)
Chunks(S) ==
  LET place(d) == Cardinality({e \in S : e < d})
  IN {{d \in S : place(d) \div BatchSize = k} : k \in {place(d) \div BatchSize : d \in S}}
Submits(p) == IF pass[p].mode = "batch" THEN Chunks(ToJudge(p)) ELSE {}

(***************************************************************************)
(* _settle_and_persist and the end of run_audit: all verdicts, the batches *)
(* with their pending rows, and the cursor are committed together.  The    *)
(* rows are upserted whatever they have become since the pass read them.   *)
(* A chunk that raised may run all the same, its answer lost.              *)
(***************************************************************************)
PassCommits(p) ==
  /\ pass[p].stage = "settles"
  /\ \E outcome \in [Now(p) -> Settled \cup {"error"}], accepted \in SUBSET Submits(p) :
       LET sent == UNION accepted
           refused == Submits(p) \ accepted
           failed == Cardinality({d \in Now(p) : outcome[d] = "error"}) + Cardinality(refused)
       IN
         /\ failures + failed <= MaxFailures /\ failures' = failures + failed
         /\ \E slot \in [accepted -> {s \in Slots : batch[s] = Free}] :
              /\ \A c1, c2 \in accepted : c1 # c2 => slot[c1] # slot[c2]
              /\ batch' = [s \in Slots |->
                   IF \E c \in accepted : slot[c] = s
                   THEN [deals |-> CHOOSE c \in accepted : slot[c] = s, results |-> <<>>]
                   ELSE batch[s]]
         /\ \E unanswered \in SUBSET refused : orphans' = orphans \cup UNION unanswered
         /\ verdict' = [d \in Deals |-> CASE d \in Now(p) -> outcome[d]
                                          [] d \in sent -> "pending"
                                          [] OTHER -> verdict[d]]
         /\ cursor' = NewCursor(p, outcome)
         /\ excused' = excused \cup {d \in pass[p].deals \ pass[p].inFlight :
                /\ verdict'[d] \notin Settled
                /\ d \in pass[p].done \/ (route[d] = "judge" /\ d \notin transcribed)}
         /\ contested' = contested \cup {d \in Now(p) \cup sent :
                \E q \in Passes \ {p} : pass[q].stage \in {"skips", "settles"} /\ d \in Fresh(q)}
  /\ pass' = [pass EXCEPT ![p] = Idle]
  /\ UNCHANGED <<world, poll, redrained>>

(* The transaction is rolled back: what it had submitted runs, and is nobody's. *)
PassDies(p) ==
  /\ pass[p].stage # "idle" /\ failures < MaxFailures
  /\ \E accepted \in SUBSET (IF pass[p].stage = "settles" THEN Submits(p) ELSE {}) :
       orphans' = orphans \cup UNION accepted
  /\ pass' = [pass EXCEPT ![p] = Idle] /\ failures' = failures + 1
  /\ UNCHANGED <<world, verdict, cursor, batch, poll, tally>>

-----------------------------------------------------------------------------
(* poll_batches *)

PollStarts ==
  /\ poll = NoPoll /\ \E s \in Slots : batch[s].deals # {}
  /\ poll' = [NoPoll EXCEPT !.todo = {s \in Slots : batch[s].deals # {}}]
  /\ UNCHANGED <<world, verdict, cursor, batch, orphans, pass, tally, failures>>

PollRetrieves(s) ==
  /\ poll.draining = {} /\ s \in poll.todo /\ Ended(s)
  /\ poll' = [todo |-> poll.todo \ {s}, draining |-> {s}, left |-> batch[s].deals]
  /\ UNCHANGED <<world, verdict, cursor, batch, orphans, pass, tally, failures>>

(* A batch that is still open, or cannot be retrieved, is left for the next poll. *)
PollPasses(s) ==
  /\ poll.draining = {} /\ s \in poll.todo
  /\ Ended(s) => failures < MaxFailures
  /\ failures' = failures + IF Ended(s) THEN 1 ELSE 0
  /\ poll' = [poll EXCEPT !.todo = @ \ {s}]
  /\ UNCHANGED <<world, verdict, cursor, batch, orphans, pass, tally>>

(* mutant: the row of a result that is no verdict is deleted whatever it says *)
DrainedAny(was, result) ==
  CASE result = "dropped" -> "none"
    [] result # "dropped" /\ was # "pending" -> was
    [] OTHER -> IF result = "blank" THEN "error" ELSE result

(* mutant: the row of a result that is no verdict stays pending *)
DrainedKept(was, result) ==
  CASE was # "pending" \/ result = "dropped" -> was
    [] OTHER -> IF result = "blank" THEN "error" ELSE result

(* _settle and _drop_pending: only a row that is still pending is touched. *)
Drained(was, result) ==
  CASE was # "pending" -> was
    [] was = "pending" /\ result = "dropped" -> "none"
    [] OTHER -> IF result = "blank" THEN "error" ELSE result

(* _drain, one result; a deal the batch does not report is dropped like a failed one. *)
PollDrains(d) ==
  /\ d \in poll.left
  /\ \E s \in poll.draining :
       verdict' = [verdict EXCEPT ![d] = Drained(@, batch[s].results[d])]
  /\ poll' = [poll EXCEPT !.left = @ \ {d}]
  /\ redrained' = redrained \cup
       IF verdict[d] = "pending" /\ \E s \in Slots \ poll.draining : Running(s, d) THEN {d} ELSE {}
  /\ UNCHANGED <<world, cursor, batch, orphans, pass, excused, contested, failures>>

PollCloses ==
  /\ poll.draining # {} /\ poll.left = {}
  /\ batch' = [s \in Slots |-> IF s \in poll.draining THEN Free ELSE batch[s]]
  /\ poll' = [poll EXCEPT !.draining = {}]
  /\ UNCHANGED <<world, verdict, cursor, orphans, pass, tally, failures>>

PollDies ==
  /\ poll # NoPoll /\ failures < MaxFailures
  /\ poll' = NoPoll /\ failures' = failures + 1
  /\ UNCHANGED <<world, verdict, cursor, batch, orphans, pass, tally>>

Next ==
  \/ \E d \in Deals : DealCloses(d) \/ TranscriptArrives(d) \/ PollDrains(d)
  \/ \E s \in Slots : BatchEnds(s) \/ PollRetrieves(s) \/ PollPasses(s)
  \/ \E p \in Passes :
       \/ \E mode \in Modes : PassLists(p, mode)
       \/ PassReadsDone(p) \/ PassReadsInFlight(p) \/ PassCommits(p) \/ PassDies(p)
  \/ OrphansEnd \/ PollStarts \/ PollCloses \/ PollDies

Spec == Init /\ [][Next]_vars

(***************************************************************************)
(* The crons start passes and polls, and a running one goes on; the        *)
(* provider ends every batch (its ceiling is a day).  The judge is not off *)
(* for ever, and only finitely much fails.                                 *)
(***************************************************************************)
Fairness ==
  /\ SF_vars(\E p \in Passes, mode \in Modes \ {"off"} : PassLists(p, mode))
  /\ \A p \in Passes :
       WF_vars(PassReadsDone(p)) /\ WF_vars(PassReadsInFlight(p)) /\ WF_vars(PassCommits(p))
  /\ WF_vars(PollStarts) /\ WF_vars(PollCloses)
  /\ \A s \in Slots : WF_vars(BatchEnds(s)) /\ WF_vars(PollRetrieves(s) \/ PollPasses(s))
  /\ \A d \in Deals : WF_vars(PollDrains(d))

FairSpec == Spec /\ Fairness

-----------------------------------------------------------------------------
(* The module's rule: "the cursor only advances past deals that are definitively  *)
(* done".  Every deal behind the cursor has a real verdict, whatever batches and  *)
(* passes failed or died and however poll and passes interleave; the exceptions   *)
(* are the deals a pass takes for done without one (no transcript at the time, or *)
(* a pending row that a poll dropped between the pass's two reads), and those two *)
(* overlapping passes had both found open: the later upsert wins, error and all.  *)
CursorWaits ==
  \A d \in closed : ClosedAt[d] < cursor => verdict[d] \in Settled \/ d \in excused \cup contested

(* _settle: "that fresher verdict wins".  A verdict that a deal has is never     *)
(* replaced or deleted, though a poll that died drains the same batch again when *)
(* its deals are settled or in another batch: only a pass that had found the     *)
(* deal open when another pass wrote it can do that.                             *)
VerdictStays ==
  [][\A d \in Deals : verdict[d] \in Settled /\ d \notin contested => verdict'[d] = verdict[d]]_vars

(* A deal in flight is skipped: a known batch is never opened over a deal that is *)
(* settled or that another one still runs over, unless passes overlapped on it or *)
(* a batch drained late took its pending row, which belonged to the newer batch.  *)
NotSubmittedTwice ==
  [][\A s \in Slots : batch[s] = Free /\ batch'[s] # Free
       => \A d \in batch'[s].deals \ contested :
            /\ verdict[d] \in {"none", "error"}
            /\ d \in redrained \/ \A t \in Slots : ~Running(t, d)]_vars

(* Every lost deal is audited in the end, through failed lookups, refused and    *)
(* expired batches, and passes and polls that die.                               *)
EveryRefusalAudited ==
  \A d \in Deals : d \in closed ~> verdict[d] \in Settled \/ d \in excused \cup contested
===============================================================================
