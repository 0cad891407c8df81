----------------------------- MODULE MeetingProofs -----------------------------
(***************************************************************************)
(* The meeting pipeline, for any number of recordings, attempts, verdicts  *)
(* and stops.  Nothing marks a claimed row, so the argument is who else    *)
(* may write it: the retry job touches dead-lettered rows only, `rescore`  *)
(* scored ones only, so a batch of any stage but the push is as it was     *)
(* claimed, and only a row being pushed can be overtaken.                  *)
(***************************************************************************)
EXTENDS MeetingPipeline, TLAPS

LEMMA Bounds == /\ MaxAttempts \in Nat /\ MaxAttempts > 0 /\ MaxVerdicts \in Nat /\ MaxVerdicts > 0
                /\ MaxStops \in Nat /\ \A v \in Verdicts : v \in Nat /\ v <= MaxVerdicts
BY MeetingAssumption DEF Verdicts

-----------------------------------------------------------------------------
(* The inductive invariant. *)

Row == [status : Statuses, attempts : 0..MaxAttempts, audio : BOOLEAN,
        transcript : BOOLEAN, verdict : Verdicts, pushed : BOOLEAN]
Tables ==
  /\ row \in [Files -> Row] /\ meetings \in [Files -> Verdicts] /\ given \in [Files -> Verdicts]
Pass ==
  /\ uploaded \subseteq Files /\ overtaken \subseteq Files /\ stops \in 0..MaxStops
  /\ job \in [stage : Stages, claimed : BOOLEAN, batch : SUBSET Files, drain : BOOLEAN,
              payload : [Files -> Verdicts], moved : BOOLEAN, stalled : 0..1]

(* One recording.  To the two invariants it adds that before the score a row holds *)
(* no verdict and its counters have room, and that what is shown was given.        *)
KeptWork(r, last) ==
  /\ r.status \in {"none", "NEW", "SKIPPED"} => ~r.audio /\ ~r.transcript
  /\ r.status = "DOWNLOADED" => r.audio /\ ~r.transcript
  /\ r.status = "TRANSCRIBED" => r.transcript
  /\ r.status = "SCORED" => r.transcript /\ r.verdict = last
HasRoom(r, last) ==
  /\ r.status # "SCORED" => r.verdict = 0 /\ last < MaxVerdicts
  /\ r.status \in {"none", "NEW", "DOWNLOADED", "TRANSCRIBED", "SCORED"} => r.attempts < MaxAttempts
Pushed(f) ==
  row[f].pushed /\ f \notin overtaken => row[f].status = "SCORED" /\ meetings[f] = row[f].verdict
RowInv(f) ==
  KeptWork(row[f], given[f]) /\ HasRoom(row[f], given[f]) /\ Pushed(f) /\ meetings[f] <= given[f]

Working == {"download", "transcribe", "score"}
Pushing == {"push", "mark"}

(* What a stage has claimed is still as it claimed it. *)
BatchStands ==
  /\ job.batch # {} => job.claimed /\ job.stage \in Working \cup Pushing
  /\ \A f \in job.batch : job.stage \in Working => Takes(job.stage, row[f])

(* What is being pushed is the latest verdict that was given; the row still has it *)
(* unless a rescore has overtaken the push.                                        *)
PushStands ==
  \A f \in job.batch : job.stage \in Pushing =>
    /\ job.payload[f] = given[f]
    /\ f \notin overtaken => row[f].status = "SCORED"
    /\ job.stage = "mark" => meetings[f] = given[f]

MeetingInv == Tables /\ Pass /\ (\A f \in Files : RowInv(f)) /\ BatchStands /\ PushStands

LEMMA InvImplies == MeetingInv => MTypeOK /\ WorkIsKept /\ PublishedIsCurrent
BY DEF MeetingInv, Tables, Pass, Row, RowInv, KeptWork, HasRoom, Pushed, MTypeOK, WorkIsKept,
       PublishedIsCurrent

LEMMA InvAtStart == Init => MeetingInv
<1> SUFFICES ASSUME Init PROVE MeetingInv
  OBVIOUS
<1>1. NoRow \in Row /\ Idle.batch = {} /\ 0 \in Verdicts
  BY Bounds DEF NoRow, Row, Statuses, Verdicts, Idle
<1>2. Tables
  BY <1>1 DEF Init, Tables
<1>3. Pass
  BY <1>1, Bounds DEF Init, Pass, Idle, Stages
<1>4. \A f \in Files : RowInv(f)
  BY Bounds DEF Init, RowInv, KeptWork, HasRoom, Pushed, NoRow
<1> QED
  BY <1>1, <1>2, <1>3, <1>4 DEF MeetingInv, Init, BatchStands, PushStands

-----------------------------------------------------------------------------
(* A row whose fields no writer has changed, in a step that overtakes more at most. *)
LEMMA RowRests ==
  ASSUME NEW f \in Files, RowInv(f), row'[f] = row[f], given'[f] = given[f], meetings'[f] = meetings[f],
         overtaken \subseteq overtaken'
  PROVE  RowInv(f)'
BY DEF RowInv, KeptWork, HasRoom, Pushed

(* The store's updates, on one row. *)

LEMMA RowFields ==
  ASSUME NEW r \in Row
  PROVE  /\ r.status \in Statuses /\ r.attempts \in 0..MaxAttempts /\ r.attempts \in Nat
         /\ r.audio \in BOOLEAN /\ r.transcript \in BOOLEAN /\ r.pushed \in BOOLEAN
         /\ r.verdict \in Verdicts /\ 0 \in Verdicts /\ 0 \in 0..MaxAttempts
         /\ r.attempts < MaxAttempts => r.attempts + 1 \in 0..MaxAttempts
BY Bounds DEF Row, Verdicts

LEMMA BumpKeeps ==
  ASSUME NEW r \in Row, NEW last \in Verdicts, KeptWork(r, last), HasRoom(r, last),
         r.status \in {"NEW", "DOWNLOADED", "TRANSCRIBED"}
  PROVE  /\ Bumped(r) \in Row /\ KeptWork(Bumped(r), last) /\ HasRoom(Bumped(r), last)
         /\ Bumped(r).pushed = r.pushed /\ Bumped(r).status # "SCORED"
<1> DEFINE q == Bumped(r)
<1>1. r.attempts + 1 \in 0..MaxAttempts
  BY RowFields DEF HasRoom
<1>2. q \in Row
  BY <1>1 DEF Bumped, Row, Statuses
<1>3. /\ q.status \in {r.status, "FAILED"} /\ q.attempts = r.attempts + 1
      /\ q.status # "FAILED" => ~ (r.attempts + 1 >= MaxAttempts)
      /\ q.audio = r.audio /\ q.transcript = r.transcript /\ q.verdict = r.verdict /\ q.pushed = r.pushed
  BY DEF Bumped, Row
<1>4. KeptWork(q, last)
  BY <1>3 DEF KeptWork
<1>5. HasRoom(q, last)
  BY <1>1, <1>3, RowFields, Bounds DEF HasRoom
<1> QED
  BY <1>2, <1>3, <1>4, <1>5

LEMMA ReopenKeeps ==
  ASSUME NEW r \in Row, NEW last \in Verdicts, KeptWork(r, last), HasRoom(r, last), r.status = "FAILED"
  PROVE  /\ Reopened(r) \in Row /\ KeptWork(Reopened(r), last) /\ HasRoom(Reopened(r), last)
         /\ Reopened(r).pushed = r.pushed /\ Reopened(r).status # "SCORED"
<1> DEFINE q == Reopened(r)
<1>1. q \in Row
  BY RowFields DEF Reopened, Row, Statuses
<1>2. /\ \/ q.status = "TRANSCRIBED" /\ r.transcript
         \/ q.status = "DOWNLOADED" /\ ~r.transcript /\ r.audio
         \/ q.status = "NEW" /\ ~r.transcript /\ ~r.audio
      /\ q.audio = r.audio /\ q.transcript = r.transcript /\ q.verdict = r.verdict /\ q.pushed = r.pushed
  <2>1. q.status = CASE r.transcript -> "TRANSCRIBED"
                     [] ~r.transcript /\ r.audio -> "DOWNLOADED"
                     [] OTHER -> "NEW"
    BY DEF Reopened, Row
  <2>2. q.audio = r.audio /\ q.transcript = r.transcript /\ q.verdict = r.verdict /\ q.pushed = r.pushed
    BY DEF Reopened, Row
  <2> QED
    BY <2>1, <2>2
<1>3. q.attempts = 0
  BY DEF Reopened, Row
<1>4. KeptWork(q, last)
  BY <1>2 DEF KeptWork
<1>5. HasRoom(q, last)
  BY <1>2, <1>3, Bounds DEF HasRoom
<1> QED
  BY <1>1, <1>2, <1>4, <1>5

LEMMA RescoreKeeps ==
  ASSUME NEW r \in Row, NEW last \in Verdicts, KeptWork(r, last), last < MaxVerdicts, r.status = "SCORED"
  PROVE  /\ Rescored(r) \in Row /\ KeptWork(Rescored(r), last) /\ HasRoom(Rescored(r), last)
         /\ ~Rescored(r).pushed
<1> DEFINE q == Rescored(r)
<1>1. q \in Row
  BY RowFields DEF Rescored, Row, Statuses
<1>2. /\ q.status = "TRANSCRIBED" /\ q.attempts = 0 /\ q.verdict = 0 /\ ~q.pushed
      /\ q.audio = r.audio /\ q.transcript = r.transcript
  BY DEF Rescored, Row
<1>3. KeptWork(q, last)
  BY <1>2 DEF KeptWork
<1>4. HasRoom(q, last)
  BY <1>2, Bounds DEF HasRoom
<1> QED
  BY <1>1, <1>2, <1>3, <1>4

LEMMA UpsertKeeps ==
  ASSUME NEW r \in Row, NEW last \in Verdicts, KeptWork(r, last), HasRoom(r, last)
  PROVE  /\ Upserted(r) \in Row /\ KeptWork(Upserted(r), last) /\ HasRoom(Upserted(r), last)
         /\ Upserted(r).pushed => r.pushed
         /\ r.status # "none" => Upserted(r) = r
         /\ r.status = "none" => Upserted(r).status = "NEW"
<1>1. CASE r.status = "none"
  <2> DEFINE q == Upserted(r)
  <2>1. q = [NoRow EXCEPT !.status = "NEW"]
    BY <1>1 DEF Upserted
  <2>2. NoRow \in Row
    BY RowFields DEF NoRow, Row, Statuses
  <2>3. q \in Row
    BY <2>1, <2>2 DEF Row, Statuses
  <2>4. /\ q.status = "NEW" /\ q.attempts = 0 /\ ~q.audio /\ ~q.transcript /\ q.verdict = 0 /\ ~q.pushed
    BY <2>1 DEF NoRow
  <2>5. KeptWork(q, last) /\ HasRoom(q, last)
    BY <1>1, <2>4, Bounds DEF KeptWork, HasRoom
  <2> QED
    BY <1>1, <2>3, <2>4, <2>5
<1>2. CASE r.status # "none"
  BY <1>2 DEF Upserted
<1> QED
  BY <1>1, <1>2

LEMMA DownloadKeeps ==
  ASSUME NEW r \in Row, NEW last \in Verdicts, KeptWork(r, last), HasRoom(r, last), r.status = "NEW",
         NEW q \in {Downloaded(r), Skipped(r)}
  PROVE  q \in Row /\ KeptWork(q, last) /\ HasRoom(q, last) /\ q.pushed = r.pushed /\ q.status # "SCORED"
<1>1. CASE q = Downloaded(r)
  BY <1>1 DEF Row, Downloaded, KeptWork, HasRoom, Statuses
<1>2. CASE q = Skipped(r)
  BY <1>2 DEF Row, Skipped, KeptWork, HasRoom, Statuses
<1> QED
  BY <1>1, <1>2

LEMMA TranscribeKeeps ==
  ASSUME NEW r \in Row, NEW last \in Verdicts, KeptWork(r, last), HasRoom(r, last), r.status = "DOWNLOADED"
  PROVE  /\ Transcribed(r) \in Row /\ KeptWork(Transcribed(r), last) /\ HasRoom(Transcribed(r), last)
         /\ Transcribed(r).pushed = r.pushed /\ Transcribed(r).status # "SCORED"
BY DEF Row, Transcribed, KeptWork, HasRoom, Statuses

LEMMA ScoreKeeps ==
  ASSUME NEW r \in Row, NEW last \in Verdicts, KeptWork(r, last), HasRoom(r, last), r.status = "TRANSCRIBED"
  PROVE  /\ last + 1 \in Verdicts /\ Scored(r, last + 1) \in Row
         /\ KeptWork(Scored(r, last + 1), last + 1) /\ HasRoom(Scored(r, last + 1), last + 1)
         /\ Scored(r, last + 1).pushed = r.pushed
<1> DEFINE q == Scored(r, last + 1)
<1>1. last + 1 \in Verdicts
  BY Bounds DEF HasRoom, Verdicts
<1>2. q \in Row
  BY <1>1 DEF Scored, Row, Statuses
<1>3. /\ q.status = "SCORED" /\ q.attempts = r.attempts /\ q.verdict = last + 1
      /\ q.audio = r.audio /\ q.transcript = r.transcript /\ q.pushed = r.pushed
  BY DEF Scored, Row
<1>4. KeptWork(q, last + 1)
  BY <1>3 DEF KeptWork
<1>5. HasRoom(q, last + 1)
  BY <1>3 DEF HasRoom
<1> QED
  BY <1>1, <1>2, <1>3, <1>4, <1>5

-----------------------------------------------------------------------------
(* The steps of a pass on its batch. *)

LEMMA PassFields ==
  ASSUME Pass
  PROVE  /\ job.batch \subseteq Files /\ job.payload \in [Files -> Verdicts]
         /\ job.stage \in Stages /\ job.claimed \in BOOLEAN /\ job.drain \in BOOLEAN
         /\ job.moved \in BOOLEAN /\ job.stalled \in 0..1
BY DEF Pass

LEMMA WithoutFields ==
  ASSUME Pass, NEW f \in Files, NEW new \in {Without(f), Advanced(f)}
  PROVE  /\ new \in [stage : Stages, claimed : BOOLEAN, batch : SUBSET Files, drain : BOOLEAN,
                     payload : [Files -> Verdicts], moved : BOOLEAN, stalled : 0..1]
         /\ new.stage = job.stage /\ new.claimed = job.claimed /\ new.payload = job.payload
         /\ new.batch = job.batch \ {f}
<1>1. CASE new = Without(f)
  BY <1>1 DEF Pass, Without
<1>2. CASE new = Advanced(f)
  BY <1>2 DEF Pass, Without, Advanced
<1> QED
  BY <1>1, <1>2

(* A claimed row gets its new content and leaves the batch. *)
LEMMA RowSettled ==
  ASSUME MeetingInv, NEW f \in job.batch, NEW q \in Row, NEW last \in Verdicts,
         row' = [row EXCEPT ![f] = q], given' = [given EXCEPT ![f] = last],
         job' \in {Without(f), Advanced(f)}, UNCHANGED <<uploaded, meetings, overtaken, stops>>,
         KeptWork(q, last), HasRoom(q, last), given[f] <= last,
         q.pushed /\ f \notin overtaken => q.status = "SCORED" /\ meetings[f] = q.verdict
  PROVE  MeetingInv'
<1>1. /\ Tables /\ Pass /\ f \in Files /\ \A g \in Files : RowInv(g)
      /\ BatchStands /\ PushStands
  BY PassFields DEF MeetingInv
<1>2. /\ job' \in [stage : Stages, claimed : BOOLEAN, batch : SUBSET Files, drain : BOOLEAN,
                   payload : [Files -> Verdicts], moved : BOOLEAN, stalled : 0..1]
      /\ job'.stage = job.stage /\ job'.claimed = job.claimed /\ job'.payload = job.payload
      /\ job'.batch = job.batch \ {f}
  BY <1>1, WithoutFields
<1>3. Tables' /\ Pass'
  BY <1>1, <1>2 DEF Tables, Pass
<1>4. /\ row'[f] = q /\ given'[f] = last
      /\ \A g \in Files : g # f => row'[g] = row[g] /\ given'[g] = given[g]
  BY <1>1 DEF Tables
<1>5. ASSUME NEW g \in Files PROVE RowInv(g)'
  <2>1. CASE g # f
    BY <1>1, <1>4, <2>1, RowRests
  <2>2. CASE g = f
    <3>1. meetings[f] <= last
      BY <1>1, Bounds DEF RowInv, Tables
    <3> QED
      BY <1>4, <2>2, <3>1 DEF RowInv, Pushed
  <2> QED
    BY <2>1, <2>2
<1>6. BatchStands'
  BY <1>1, <1>2, <1>4, PassFields DEF BatchStands, Takes
<1>7. PushStands'
  BY <1>1, <1>2, <1>4, PassFields DEF PushStands
<1> QED
  BY <1>3, <1>5, <1>6, <1>7 DEF MeetingInv

(* What a working stage finds in its batch. *)
LEMMA WorkAtHand ==
  ASSUME MeetingInv, NEW f \in job.batch, job.stage \in Working
  PROVE  /\ f \in Files /\ row[f] \in Row /\ given[f] \in Verdicts /\ given[f] <= given[f]
         /\ KeptWork(row[f], given[f]) /\ HasRoom(row[f], given[f])
         /\ row[f].status = CASE job.stage = "download" -> "NEW"
                              [] job.stage = "transcribe" -> "DOWNLOADED"
                              [] job.stage = "score" -> "TRANSCRIBED"
         /\ row[f].pushed => f \in overtaken
         /\ given = [given EXCEPT ![f] = given[f]]
<1>1. f \in Files /\ Tables /\ RowInv(f) /\ Takes(job.stage, row[f])
  BY PassFields DEF MeetingInv, BatchStands
<1>2. row[f].status = CASE job.stage = "download" -> "NEW"
                        [] job.stage = "transcribe" -> "DOWNLOADED"
                        [] job.stage = "score" -> "TRANSCRIBED"
  BY <1>1 DEF Takes, Working
<1>3. row[f].status \in {"NEW", "DOWNLOADED", "TRANSCRIBED"}
  BY <1>2 DEF Working
<1>4. row[f] \in Row /\ given[f] \in Verdicts /\ given = [given EXCEPT ![f] = given[f]]
  BY <1>1 DEF Tables
<1>5. given[f] <= given[f]
  BY <1>4, Bounds
<1> QED
  BY <1>1, <1>2, <1>3, <1>4, <1>5 DEF RowInv, Pushed

LEMMA DownloadStep == ASSUME MeetingInv, NEW f \in Files, Download(f) PROVE MeetingInv'
<1>1. f \in job.batch /\ job.stage = "download" /\ job.stage \in Working
  BY DEF Download, In, Working
<1>2. /\ row[f] \in Row /\ given[f] \in Verdicts /\ given[f] <= given[f]
      /\ KeptWork(row[f], given[f]) /\ HasRoom(row[f], given[f])
      /\ row[f].status = "NEW" /\ (row[f].pushed => f \in overtaken)
      /\ given' = [given EXCEPT ![f] = given[f]]
  BY <1>1, WorkAtHand DEF Download
<1>3. PICK q \in {Downloaded(row[f]), Skipped(row[f]), Bumped(row[f])} :
        row' = [row EXCEPT ![f] = q] /\ job' \in {Without(f), Advanced(f)}
  BY DEF Download
<1>4. q \in Row /\ KeptWork(q, given[f]) /\ HasRoom(q, given[f]) /\ q.pushed = row[f].pushed
  BY <1>2, <1>3, DownloadKeeps, BumpKeeps
<1> QED
  BY <1>1, <1>2, <1>3, <1>4, RowSettled DEF Download

LEMMA TranscribeStep == ASSUME MeetingInv, NEW f \in Files, Transcribe(f) PROVE MeetingInv'
<1>1. f \in job.batch /\ job.stage = "transcribe" /\ job.stage \in Working
  BY DEF Transcribe, Working
<1>2. /\ row[f] \in Row /\ given[f] \in Verdicts /\ given[f] <= given[f]
      /\ KeptWork(row[f], given[f]) /\ HasRoom(row[f], given[f])
      /\ row[f].status = "DOWNLOADED" /\ (row[f].pushed => f \in overtaken)
      /\ given' = [given EXCEPT ![f] = given[f]]
  BY <1>1, WorkAtHand DEF Transcribe
<1>3. PICK q \in {Transcribed(row[f]), Bumped(row[f])} :
        row' = [row EXCEPT ![f] = q] /\ job' \in {Without(f), Advanced(f)}
  BY DEF Transcribe
<1>4. q \in Row /\ KeptWork(q, given[f]) /\ HasRoom(q, given[f]) /\ q.pushed = row[f].pushed
  BY <1>2, <1>3, TranscribeKeeps, BumpKeeps
<1> QED
  BY <1>1, <1>2, <1>3, <1>4, RowSettled DEF Transcribe

LEMMA ScoreStep == ASSUME MeetingInv, NEW f \in Files, Score(f) PROVE MeetingInv'
<1>1. f \in job.batch /\ job.stage = "score" /\ job.stage \in Working
  BY DEF Score, In, Working
<1>2. /\ row[f] \in Row /\ given[f] \in Verdicts /\ given[f] <= given[f]
      /\ KeptWork(row[f], given[f]) /\ HasRoom(row[f], given[f])
      /\ row[f].status = "TRANSCRIBED" /\ (row[f].pushed => f \in overtaken)
      /\ given = [given EXCEPT ![f] = given[f]]
  BY <1>1, WorkAtHand
<1>3. CASE /\ row' = [row EXCEPT ![f] = Scored(@, given[f] + 1)]
           /\ given' = [given EXCEPT ![f] = @ + 1] /\ job' = Advanced(f)
  <2> DEFINE q == Scored(row[f], given[f] + 1)
  <2>1. /\ given[f] + 1 \in Verdicts /\ q \in Row /\ KeptWork(q, given[f] + 1)
        /\ HasRoom(q, given[f] + 1) /\ q.pushed = row[f].pushed
    BY <1>2, ScoreKeeps
  <2>2. row' = [row EXCEPT ![f] = q] /\ given' = [given EXCEPT ![f] = given[f] + 1]
    BY <1>3
  <2>3. given[f] <= given[f] + 1
    BY <1>2, Bounds
  <2> HIDE DEF q
  <2> QED
    BY <1>1, <1>2, <1>3, <2>1, <2>2, <2>3, RowSettled DEF Score
<1>4. CASE row' = [row EXCEPT ![f] = Bumped(@)] /\ job' = Without(f) /\ UNCHANGED given
  <2> DEFINE q == Bumped(row[f])
  <2>1. q \in Row /\ KeptWork(q, given[f]) /\ HasRoom(q, given[f]) /\ q.pushed = row[f].pushed
    BY <1>2, BumpKeeps
  <2>2. row' = [row EXCEPT ![f] = q] /\ given' = [given EXCEPT ![f] = given[f]]
    BY <1>2, <1>4
  <2> HIDE DEF q
  <2> QED
    BY <1>1, <1>2, <1>4, <2>1, <2>2, RowSettled DEF Score
<1> QED
  BY <1>3, <1>4 DEF Score

LEMMA MarkStep == ASSUME MeetingInv, NEW f \in Files, Mark(f) PROVE MeetingInv'
<1> DEFINE q == [row[f] EXCEPT !.pushed = TRUE]
<1>1. f \in job.batch /\ job.stage = "mark" /\ job.stage \in Pushing
  BY DEF Mark, In, Pushing
<1>2. /\ row[f] \in Row /\ given[f] \in Verdicts /\ given[f] <= given[f]
      /\ KeptWork(row[f], given[f]) /\ HasRoom(row[f], given[f])
      /\ given' = [given EXCEPT ![f] = given[f]]
  <2>1. row \in [Files -> Row] /\ given \in [Files -> Verdicts] /\ RowInv(f) /\ given' = given
    BY DEF MeetingInv, Tables, Mark
  <2>2. given[f] \in Nat
    BY <2>1, Bounds
  <2> QED
    BY <2>1, <2>2 DEF RowInv
<1>3. f \notin overtaken => row[f].status = "SCORED" /\ meetings[f] = row[f].verdict
  BY <1>1, <1>2 DEF MeetingInv, PushStands, KeptWork
<1>4. /\ q \in Row /\ q.status = row[f].status /\ q.verdict = row[f].verdict
      /\ KeptWork(q, given[f]) /\ HasRoom(q, given[f])
  BY <1>2 DEF Row, KeptWork, HasRoom
<1>5. row' = [row EXCEPT ![f] = q]
  BY DEF Mark, MeetingInv, Tables
<1> HIDE DEF q
<1> QED
  BY <1>1, <1>2, <1>3, <1>4, <1>5, RowSettled DEF Mark

-----------------------------------------------------------------------------
(* The other steps of a pass, and what comes from outside. *)

(* A step that writes no table and overtakes nothing. *)
LEMMA JobMoves ==
  ASSUME MeetingInv, UNCHANGED <<row, meetings, given, overtaken>>, Pass',
         job'.batch # {} => job'.claimed /\ job'.stage \in Working \cup Pushing,
         \A f \in job'.batch : job'.stage \in Working => Takes(job'.stage, row[f]),
         \A f \in job'.batch : job'.stage \in Pushing =>
           /\ job'.payload[f] = given[f]
           /\ f \notin overtaken => row[f].status = "SCORED"
           /\ job'.stage = "mark" => meetings[f] = given[f]
  PROVE  MeetingInv'
<1>1. Tables' /\ (\A f \in Files : RowInv(f)')
  BY RowRests DEF MeetingInv, Tables
<1>2. BatchStands' /\ PushStands'
  BY DEF BatchStands, PushStands, Takes
<1> QED
  BY <1>1, <1>2 DEF MeetingInv

LEMMA NoBatch ==
  ASSUME MeetingInv, UNCHANGED <<row, meetings, given, overtaken>>, Pass', job'.batch = {}
  PROVE  MeetingInv'
BY JobMoves

LEMMA ClaimStep == ASSUME MeetingInv, StageClaims PROVE MeetingInv'
<1> DEFINE stage == job.stage
<1>1. /\ Pass /\ Tables /\ (\A f \in Files : RowInv(f))
      /\ stage \in {"download", "transcribe", "score", "push"} /\ ~job.claimed
      /\ UNCHANGED <<uploaded, row, meetings, given, overtaken, stops>>
  BY DEF MeetingInv, StageClaims
<1> DEFINE payload == [f \in Files |-> IF stage = "push" /\ Takes("push", row[f]) THEN row[f].verdict ELSE 0]
<1>2. job' = [job EXCEPT !.claimed = TRUE, !.batch = Claim(stage), !.payload = payload]
  BY DEF StageClaims
<1>3. Claim(stage) \subseteq Files /\ \A f \in Claim(stage) : Takes(stage, row[f])
  BY DEF Claim
<1>4. payload \in [Files -> Verdicts]
  BY <1>1, Bounds DEF Tables, Row, Verdicts
<1>5. /\ Pass' /\ job'.batch = Claim(stage) /\ job'.claimed /\ job'.stage = stage /\ job'.payload = payload
  <2> HIDE DEF payload
  <2> QED
    BY <1>1, <1>2, <1>3, <1>4 DEF Pass
<1>6. ASSUME NEW f \in Claim(stage), stage \in Pushing
      PROVE  /\ payload[f] = given[f] /\ row[f].status = "SCORED" /\ stage # "mark"
  <2>1. f \in Files /\ stage = "push" /\ Takes("push", row[f])
    BY <1>1, <1>3, <1>6 DEF Pushing
  <2>2. row[f].status = "SCORED" /\ RowInv(f)
    BY <1>1, <2>1 DEF Takes
  <2> QED
    BY <2>1, <2>2 DEF RowInv, KeptWork
<1>7. stage \in Working \cup Pushing
  BY <1>1 DEF Working, Pushing
<1> HIDE DEF payload, stage
<1> QED
  BY <1>1, <1>3, <1>5, <1>6, <1>7, JobMoves

LEMMA EndStep == ASSUME MeetingInv, StageEnds PROVE MeetingInv'
<1>1. /\ Pass /\ job.batch = {} /\ job.stage \in {"download", "transcribe", "score", "push", "mark"}
      /\ UNCHANGED <<uploaded, row, meetings, given, overtaken, stops>>
      /\ job' = [job EXCEPT !.stage = After(job.stage), !.claimed = FALSE, !.payload = Idle.payload]
  BY DEF MeetingInv, StageEnds
<1>2. After(job.stage) \in Stages /\ Idle.payload \in [Files -> Verdicts]
  BY <1>1, Bounds DEF After, Stages, Idle, Verdicts
<1>3. Pass' /\ job'.batch = {}
  BY <1>1, <1>2 DEF Pass
<1> QED
  BY <1>1, <1>3, NoBatch

LEMMA PublishStep == ASSUME MeetingInv, Publish PROVE MeetingInv'
<1>1. /\ Pass /\ Tables /\ (\A f \in Files : RowInv(f)) /\ BatchStands /\ PushStands
      /\ job.stage = "push" /\ job.claimed /\ job.stage \in Pushing /\ job.batch \subseteq Files
      /\ UNCHANGED <<uploaded, row, given, overtaken, stops>>
      /\ job' = [job EXCEPT !.stage = "mark"]
      /\ meetings' = [f \in Files |-> IF f \in job.batch THEN job.payload[f] ELSE meetings[f]]
  BY PassFields DEF MeetingInv, Publish, Pushing
<1>2. /\ \A f \in job.batch : meetings'[f] = given[f]
      /\ \A f \in Files : f \in job.batch \/ meetings'[f] = meetings[f]
      /\ meetings' \in [Files -> Verdicts]
  <2>1. \A f \in job.batch : job.payload[f] = given[f] /\ f \in Files
    BY <1>1 DEF PushStands
  <2> QED
    BY <1>1, <2>1 DEF Tables
<1>3. Pass' /\ job'.batch = job.batch /\ job'.claimed /\ job'.stage = "mark" /\ job'.payload = job.payload
  BY <1>1 DEF Pass, Stages
<1>4. ASSUME NEW f \in Files PROVE RowInv(f)'
  <2>1. CASE f \in job.batch
    <3>1. given[f] \in Nat
      BY <1>1, Bounds DEF Tables
    <3>2. /\ row' = row /\ given' = given /\ overtaken' = overtaken /\ meetings'[f] = given[f]
          /\ RowInv(f) /\ meetings'[f] <= given[f]
      BY <1>1, <1>2, <2>1, <3>1
    <3> QED
      BY <3>2 DEF RowInv, KeptWork, HasRoom, Pushed
  <2>2. CASE f \notin job.batch
    BY <1>1, <1>2, <2>2, RowRests
  <2> QED
    BY <2>1, <2>2
<1>5. Tables' /\ BatchStands'
  BY <1>1, <1>2, <1>3 DEF Tables, BatchStands, Working, Pushing
<1>6. PushStands'
  BY <1>1, <1>2, <1>3 DEF PushStands, Pushing
<1> QED
  BY <1>3, <1>4, <1>5, <1>6 DEF MeetingInv

LEMMA IngestStep == ASSUME MeetingInv, NEW seen \in SUBSET uploaded, Ingest(seen) PROVE MeetingInv'
<1>1. /\ Pass /\ Tables /\ (\A f \in Files : RowInv(f)) /\ job.stage = "ingest" /\ job.batch = {}
      /\ UNCHANGED <<uploaded, meetings, given, overtaken, stops>>
      /\ row' = [f \in Files |-> IF f \in seen THEN Upserted(row[f]) ELSE row[f]]
      /\ job' = IF seen = uploaded THEN [job EXCEPT !.stage = "download"] ELSE Idle
  BY DEF MeetingInv, Ingest, BatchStands, Working, Pushing
<1>2. ASSUME NEW f \in Files PROVE row'[f] \in Row /\ RowInv(f)'
  <2>1. /\ row[f] \in Row /\ given[f] \in Verdicts /\ RowInv(f) /\ row'[f] \in {row[f], Upserted(row[f])}
        /\ UNCHANGED <<meetings, given, overtaken>>
    BY <1>1 DEF Tables
  <2> QED
    BY <2>1, UpsertKeeps DEF RowInv, Pushed
<1>3. Tables'
  BY <1>1, <1>2 DEF Tables
<1>4. Pass' /\ job'.batch = {}
  <2>1. Idle \in [stage : Stages, claimed : BOOLEAN, batch : SUBSET Files, drain : BOOLEAN,
                  payload : [Files -> Verdicts], moved : BOOLEAN, stalled : 0..1] /\ Idle.batch = {}
    BY Bounds DEF Idle, Stages, Verdicts
  <2>2. [job EXCEPT !.stage = "download"].batch = job.batch
    BY <1>1 DEF Pass
  <2> QED
    BY <1>1, <2>1, <2>2 DEF Pass, Stages
<1>5. BatchStands' /\ PushStands'
  BY <1>4 DEF BatchStands, PushStands
<1> QED
  BY <1>2, <1>3, <1>4, <1>5 DEF MeetingInv

LEMMA QuietStep ==
  ASSUME MeetingInv,
         \/ \E f \in Files : Upload(f)
         \/ \E drain \in BOOLEAN : PassStarts(drain)
         \/ PublishFails \/ DrainCounts \/ PassDies \/ UNCHANGED vars
  PROVE  MeetingInv'
<1>1. Pass /\ BatchStands /\ PushStands /\ UNCHANGED <<row, meetings, given, overtaken>>
  BY DEF MeetingInv, Upload, PassStarts, PublishFails, DrainCounts, PassDies, vars
<1> DEFINE Jobs == [stage : Stages, claimed : BOOLEAN, batch : SUBSET Files, drain : BOOLEAN,
                    payload : [Files -> Verdicts], moved : BOOLEAN, stalled : 0..1]
<1>2. Idle \in Jobs /\ Idle.batch = {}
  BY Bounds DEF Idle, Stages, Verdicts
<1>3. CASE \E f \in Files : Upload(f)
  <2>1. Pass' /\ job' = job
    BY <1>1, <1>3 DEF Upload, Pass
  <2> QED
    BY <1>1, <2>1, JobMoves DEF BatchStands, PushStands
<1>4. CASE \E drain \in BOOLEAN : PassStarts(drain)
  <2>1. PICK drain \in BOOLEAN : PassStarts(drain)
    BY <1>4
  <2>2. job' \in Jobs /\ job'.batch = {}
    BY <2>1, <1>2 DEF PassStarts, Stages
  <2>3. Pass'
    BY <1>1, <2>1, <2>2 DEF PassStarts, Pass
  <2> QED
    BY <1>1, <2>2, <2>3, NoBatch
<1>5. CASE PublishFails
  <2>1. Pass' /\ job'.batch = {}
    BY <1>1, <1>5 DEF PublishFails, Pass
  <2> QED
    BY <1>1, <2>1, NoBatch
<1>6. CASE DrainCounts
  <2>1. job.batch = {} /\ job.stalled \in 0..1
    BY <1>1, <1>6 DEF DrainCounts, BatchStands, Working, Pushing, Pass
  <2> DEFINE stalled == IF job.moved THEN 0 ELSE job.stalled + 1
             next == [job EXCEPT !.stage = "download", !.moved = FALSE, !.stalled = stalled]
  <2>2. job' = Idle \/ (job' = next /\ ~ (stalled >= 2))
    BY <1>6 DEF DrainCounts
  <2>3. ~ (stalled >= 2) => stalled \in 0..1
    BY <2>1
  <2>4. job' = next /\ ~ (stalled >= 2) => job' \in Jobs /\ job'.batch = {}
    <3> HIDE DEF stalled
    <3> QED
      BY <1>1, <2>1, <2>3 DEF Pass, Stages
  <2>5. Pass' /\ job'.batch = {}
    <3> HIDE DEF next, stalled
    <3> QED
      BY <1>1, <1>2, <1>6, <2>2, <2>4 DEF DrainCounts, Pass
  <2> QED
    BY <1>1, <2>5, NoBatch
<1>7. CASE PassDies
  <2>1. stops + 1 \in 0..MaxStops
    BY <1>1, <1>7, Bounds DEF PassDies, Pass
  <2>2. Pass' /\ job'.batch = {}
    BY <1>1, <1>2, <1>7, <2>1 DEF PassDies, Pass
  <2> QED
    BY <1>1, <2>2, NoBatch
<1>8. CASE UNCHANGED vars
  BY <1>1, <1>8, JobMoves DEF vars, Pass, BatchStands, PushStands
<1> QED
  BY <1>3, <1>4, <1>5, <1>6, <1>7, <1>8

(* The retry job touches rows that no batch holds, unless a push has been overtaken. *)
LEMMA RetryStep == ASSUME MeetingInv, Retry PROVE MeetingInv'
<1>1. /\ Pass /\ Tables /\ (\A f \in Files : RowInv(f)) /\ BatchStands /\ PushStands
      /\ UNCHANGED <<uploaded, meetings, given, job, overtaken, stops>>
      /\ row' = [f \in Files |-> IF row[f].status = "FAILED" THEN Reopened(row[f]) ELSE row[f]]
      /\ job.batch \subseteq Files
  BY PassFields DEF MeetingInv, Retry
<1>2. ASSUME NEW f \in Files PROVE row'[f] \in Row /\ RowInv(f)'
  <2>1. /\ row[f] \in Row /\ given[f] \in Verdicts /\ RowInv(f) /\ UNCHANGED <<meetings, given, overtaken>>
        /\ \/ row'[f] = row[f]
           \/ row[f].status = "FAILED" /\ row'[f] = Reopened(row[f])
    BY <1>1 DEF Tables
  <2> QED
    BY <2>1, ReopenKeeps DEF RowInv, Pushed
<1>3. \A f \in Files : row[f].status # "FAILED" => row'[f] = row[f]
  BY <1>1
<1>4. Tables' /\ Pass'
  BY <1>1, <1>2 DEF Tables, Pass
<1>5. BatchStands'
  <2>1. ASSUME NEW f \in job.batch, job.stage \in Working PROVE Takes(job.stage, row'[f])
    <3>1. f \in Files /\ Takes(job.stage, row[f])
      BY <1>1, <2>1 DEF BatchStands
    <3>2. row[f].status # "FAILED"
      BY <2>1, <3>1 DEF Takes, Working
    <3> QED
      BY <1>3, <3>1, <3>2
  <2> QED
    BY <1>1, <2>1 DEF BatchStands, Takes
<1>6. PushStands'
  BY <1>1, <1>3 DEF PushStands
<1> QED
  BY <1>2, <1>4, <1>5, <1>6 DEF MeetingInv

(* A rescore takes scored rows: they are in no batch but one being pushed, and then *)
(* they are overtaken.                                                              *)
LEMMA RescoreStep == ASSUME MeetingInv, NEW S \in SUBSET Files, Rescore(S) PROVE MeetingInv'
<1>1. /\ Pass /\ Tables /\ (\A f \in Files : RowInv(f)) /\ BatchStands /\ PushStands
      /\ UNCHANGED <<uploaded, meetings, given, job, stops>>
      /\ row' = [f \in Files |-> IF f \in S THEN Rescored(row[f]) ELSE row[f]]
      /\ \A f \in S : row[f].status = "SCORED" /\ given[f] < MaxVerdicts
      /\ job.batch \subseteq Files
  BY PassFields DEF MeetingInv, Rescore
<1>2. /\ overtaken \subseteq overtaken' /\ overtaken' \subseteq Files
      /\ job.stage \in Pushing => S \cap job.batch \subseteq overtaken'
  BY <1>1 DEF Rescore, Pushing, Pass
<1>3. ASSUME NEW f \in S PROVE row'[f] \in Row /\ RowInv(f)'
  <2>1. /\ row[f] \in Row /\ given[f] \in Verdicts /\ RowInv(f) /\ row'[f] = Rescored(row[f])
        /\ row[f].status = "SCORED" /\ given[f] < MaxVerdicts /\ UNCHANGED <<meetings, given>>
    BY <1>1 DEF Tables
  <2>2. /\ Rescored(row[f]) \in Row /\ KeptWork(Rescored(row[f]), given[f])
        /\ HasRoom(Rescored(row[f]), given[f]) /\ ~Rescored(row[f]).pushed
    BY <2>1, RescoreKeeps DEF RowInv
  <2> QED
    BY <2>1, <2>2 DEF RowInv, Pushed
<1>4. ASSUME NEW f \in Files \ S PROVE row'[f] = row[f] /\ row'[f] \in Row /\ RowInv(f)'
  <2>1. row'[f] = row[f]
    BY <1>1
  <2> QED
    BY <1>1, <1>2, <2>1, RowRests DEF Tables
<1>5. Tables' /\ Pass'
  BY <1>1, <1>2, <1>3, <1>4 DEF Tables, Pass
<1>6. BatchStands'
  <2>1. ASSUME NEW f \in job.batch, job.stage \in Working PROVE Takes(job.stage, row'[f])
    <3>1. f \in Files /\ Takes(job.stage, row[f])
      BY <1>1, <2>1 DEF BatchStands
    <3>2. row[f].status # "SCORED"
      BY <2>1, <3>1 DEF Takes, Working
    <3> QED
      BY <1>1, <1>4, <3>1, <3>2
  <2> QED
    BY <1>1, <2>1 DEF BatchStands, Takes
<1>7. PushStands'
  BY <1>1, <1>2, <1>4 DEF PushStands
<1> QED
  BY <1>3, <1>4, <1>5, <1>6, <1>7 DEF MeetingInv

LEMMA MeetingStep == ASSUME MeetingInv, [Next]_vars PROVE MeetingInv'
BY DownloadStep, TranscribeStep, ScoreStep, MarkStep, ClaimStep, EndStep, PublishStep, IngestStep,
   QuietStep, RetryStep, RescoreStep DEF Next

LEMMA MeetingHolds == Spec => []MeetingInv
BY InvAtStart, MeetingStep, PTL DEF Spec

(* The file, the pass and the cabinet keep to their types: no row is tried or scored *)
(* more often than the counters say.                                                 *)
THEOREM MeetingTypes == Spec => []MTypeOK
BY MeetingHolds, InvImplies, PTL

(* No stage is ever ahead of a recording whose paid result is in the row already.   *)
THEOREM MeetingWorkIsKept == Spec => []WorkIsKept
BY MeetingHolds, InvImplies, PTL

(* A row flagged as pushed has its verdict in the cabinet, whoever died between the *)
(* two databases, unless a rescore overtook the push.                               *)
THEOREM MeetingPublished == Spec => []PublishedIsCurrent
BY MeetingHolds, InvImplies, PTL

-----------------------------------------------------------------------------
(* The refinement: a score is a judgement, a publication shows the latest one. *)

LEMMA PublishShows == ASSUME MeetingInv, Publish PROVE Board!Show
<1>1. /\ meetings \in [Files -> Verdicts] /\ given \in [Files -> Verdicts] /\ given' = given
      /\ \A f \in Files : meetings[f] <= given[f]
      /\ \A f \in job.batch : job.payload[f] = given[f]
      /\ meetings' = [f \in Files |-> IF f \in job.batch THEN job.payload[f] ELSE meetings[f]]
  BY DEF MeetingInv, Tables, RowInv, PushStands, Publish, Pushing
<1>2. \A f \in Files : meetings[f] \in Nat /\ given[f] \in Nat
  BY <1>1, Bounds
<1>3. \A f \in Files : meetings'[f] \in {meetings[f], given[f]}
  BY <1>1
<1>4. meetings' \in [Files -> Nat]
  BY <1>1, <1>2, <1>3
<1> QED
  BY <1>1, <1>2, <1>3, <1>4 DEF Board!Show

LEMMA BoardStep == ASSUME MeetingInv, [Next]_vars PROVE [Board!Next]_Board!bvars
<1>1. CASE Publish
  BY <1>1, PublishShows DEF Board!Next
<1>2. ASSUME NEW f \in Files, Score(f) PROVE [Board!Next]_Board!bvars
  <2>1. given' = [given EXCEPT ![f] = @ + 1] => Board!Judge(f)
    BY <1>2 DEF Score, Board!Judge
  <2> QED
    BY <1>2, <2>1 DEF Score, Board!Next, Board!bvars
<1>3. CASE UNCHANGED <<given, meetings>>
  BY <1>3 DEF Board!bvars
<1> QED
  BY <1>1, <1>2, <1>3
     DEF Next, Upload, Download, Transcribe, Mark, PassStarts, Ingest, StageClaims, StageEnds,
         PublishFails, DrainCounts, PassDies, Retry, Rescore, vars

(* The cabinet shows verdicts that were given, and never an older one again.        *)
THEOREM MeetingKeepsBoard == Spec => ImplementsBoard
<1>1. Init => Board!Init
  BY DEF Init, Board!Init
<1> QED
  BY <1>1, BoardStep, MeetingHolds, PTL DEF Spec, ImplementsBoard, Board!Spec

===============================================================================
