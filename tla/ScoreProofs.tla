-------------------------------- MODULE ScoreProofs --------------------------------
(***************************************************************************)
(* A score from the jobs that settle it to the appeals against it.         *)
(***************************************************************************)
EXTENDS ScoreSettle, CabinetScreens, SequenceTheorems, FiniteSetTheorems, WellFoundedInduction, TLAPS

(***************************************************************************)
(* The end of a scoring job, for any number of jobs of one call and of     *)
(* jobs that die.  The argument is the lock that the upsert takes: at most *)
(* one job is between its upsert and its commit, and only such a job can   *)
(* have sent a notice that no row records yet.                             *)
(***************************************************************************)
JobStates ==
  [pc : {"idle", "scored", "verified", "upserted"}, side : {"unknown", "A", "B"},
   cash : BOOLEAN, told : BOOLEAN]
SettleTypes ==
  /\ scoreJob \in [ScoreJobs -> JobStates]
  /\ transcript \in [right : BOOLEAN, applied : BOOLEAN]
  /\ alerts \in Nat /\ jobDeaths \in Nat

Settling(j) == scoreJob[j].pc = "upserted"
OneSettles == \A i, j \in ScoreJobs : Settling(i) /\ Settling(j) => i = j

(* A job that has sent the notice holds the row, and the row does not say so yet. *)
ToldUnrecorded == \A j \in ScoreJobs : scoreJob[j].told => Settling(j) /\ scoreRow # "notified"

(* Each notice is recorded, about to be, or paid for by a death. *)
Accounted ==
  \/ alerts <= jobDeaths
  \/ alerts <= jobDeaths + 1 /\ (scoreRow = "notified" \/ \E j \in ScoreJobs : scoreJob[j].told)

(* Until the labels are turned, every job has read them as they are. *)
Heard(side) == side = "unknown" \/ side = IF transcript.right THEN "A" ELSE "B"
SidesHeard == ~transcript.applied => \A j \in ScoreJobs : Heard(scoreJob[j].side)

SettleInv == SettleTypes /\ OneSettles /\ ToldUnrecorded /\ Accounted /\ SidesHeard /\ LabelsSettled

-----------------------------------------------------------------------------
LEMMA NoJobTyped == NoJob \in JobStates /\ NoJob.pc = "idle" /\ ~NoJob.told /\ NoJob.side = "unknown"
BY DEF NoJob, JobStates

(* A job that leaves, or moves on before its upsert, disturbs nothing. *)
LEMMA QuietMove ==
  ASSUME SettleInv, NEW j \in ScoreJobs, NEW new \in JobStates,
         scoreJob' = [scoreJob EXCEPT ![j] = new],
         new.pc # "upserted", ~new.told, ~transcript.applied => Heard(new.side),
         UNCHANGED <<scoreRow, transcript>>,
         \/ UNCHANGED <<alerts, jobDeaths>> /\ ~scoreJob[j].told
         \/ UNCHANGED alerts /\ jobDeaths' = jobDeaths + 1
  PROVE  SettleInv'
<1>1. \A i \in ScoreJobs : scoreJob'[i] = IF i = j THEN new ELSE scoreJob[i]
  BY DEF SettleInv, SettleTypes
<1>2. SettleTypes'
  BY DEF SettleInv, SettleTypes
<1>3. OneSettles'
  BY <1>1 DEF SettleInv, OneSettles, Settling
<1>4. ToldUnrecorded'
  BY <1>1 DEF SettleInv, ToldUnrecorded, Settling
<1>5. Accounted'
  BY <1>1, SMT DEF SettleInv, SettleTypes, Accounted
<1>6. SidesHeard' /\ LabelsSettled'
  BY <1>1 DEF SettleInv, SidesHeard, LabelsSettled, Heard
<1> QED
  BY <1>2, <1>3, <1>4, <1>5, <1>6 DEF SettleInv

LEMMA UpsertKeeps ==
  ASSUME SettleInv, NEW j \in ScoreJobs, JobUpserts(j) PROVE SettleInv'
<1>1. \A i \in ScoreJobs :
        /\ scoreJob'[i].pc = IF i = j THEN "upserted" ELSE scoreJob[i].pc
        /\ scoreJob'[i].told = scoreJob[i].told /\ scoreJob'[i].side = scoreJob[i].side
  BY DEF SettleInv, SettleTypes, JobStates, JobUpserts
<1>2. SettleTypes'
  BY DEF SettleInv, SettleTypes, JobStates, JobUpserts
<1>3. OneSettles'
  BY <1>1 DEF OneSettles, Settling, JobUpserts, RowFree
<1>4. ToldUnrecorded'
  BY <1>1 DEF SettleInv, ToldUnrecorded, Settling, JobUpserts
<1>5. Accounted'
  BY <1>1 DEF SettleInv, Accounted, JobUpserts
<1>6. SidesHeard' /\ LabelsSettled'
  BY <1>1 DEF SettleInv, SidesHeard, LabelsSettled, Heard, JobUpserts
<1> QED
  BY <1>2, <1>3, <1>4, <1>5, <1>6 DEF SettleInv

(* No job holds an unrecorded notice when one is sent, so none is outstanding. *)
LEMMA NotifyKeeps ==
  ASSUME SettleInv, NEW j \in ScoreJobs, JobNotifies(j) PROVE SettleInv'
<1>1. PICK delivered \in BOOLEAN, answered \in BOOLEAN :
        /\ answered => delivered
        /\ alerts' = alerts + IF delivered THEN 1 ELSE 0
        /\ jobDeaths' = jobDeaths + IF answered THEN 0 ELSE 1
        /\ scoreJob' = [scoreJob EXCEPT ![j] = [@ EXCEPT !.told = answered, !.cash = answered]]
  BY DEF JobNotifies
<1>2. \A i \in ScoreJobs :
        /\ scoreJob'[i].pc = scoreJob[i].pc /\ scoreJob'[i].side = scoreJob[i].side
        /\ scoreJob'[i].told = IF i = j THEN answered ELSE scoreJob[i].told
  BY <1>1 DEF SettleInv, SettleTypes, JobStates
<1>3. SettleTypes'
  <2> DEFINE new == [[scoreJob[j] EXCEPT !.told = answered] EXCEPT !.cash = answered]
  <2>1. new \in JobStates
    BY DEF SettleInv, SettleTypes, JobStates
  <2>2. scoreJob' = [scoreJob EXCEPT ![j] = new]
    BY <1>1
  <2> HIDE DEF new
  <2>3. scoreJob' \in [ScoreJobs -> JobStates]
    BY <2>1, <2>2 DEF SettleInv, SettleTypes
  <2>4. alerts' \in Nat /\ jobDeaths' \in Nat
    BY <1>1 DEF SettleInv, SettleTypes
  <2> QED
    BY <2>3, <2>4 DEF SettleInv, SettleTypes, JobNotifies
<1>4. OneSettles'
  BY <1>2 DEF SettleInv, OneSettles, Settling
<1>5. ToldUnrecorded'
  BY <1>2 DEF SettleInv, ToldUnrecorded, Settling, JobNotifies
<1>6. alerts <= jobDeaths
  <2>1. \A i \in ScoreJobs : ~scoreJob[i].told
    BY DEF SettleInv, ToldUnrecorded, OneSettles, Settling, JobNotifies
  <2> QED
    BY <2>1 DEF SettleInv, Accounted, JobNotifies
<1>7. Accounted'
  <2>1. CASE answered
    <3>1. alerts' <= jobDeaths' + 1
      BY <1>1, <1>6, <2>1 DEF SettleInv, SettleTypes
    <3>2. scoreJob'[j].told
      BY <1>2, <2>1
    <3> QED
      BY <3>1, <3>2 DEF Accounted
  <2>2. CASE ~answered
    BY <1>1, <1>6, <2>2 DEF SettleInv, SettleTypes, Accounted
  <2> QED
    BY <2>1, <2>2
<1>8. SidesHeard' /\ LabelsSettled'
  BY <1>2 DEF SettleInv, SidesHeard, LabelsSettled, Heard, JobNotifies
<1> QED
  BY <1>3, <1>4, <1>5, <1>7, <1>8 DEF SettleInv

(* The first job that knows a side turns labels it has heard; they are right then. *)
LEMMA TurnedRight ==
  ASSUME SettleInv, NEW j \in ScoreJobs, JobCommits(j)
  PROVE  /\ transcript' \in [right : BOOLEAN, applied : BOOLEAN]
         /\ transcript'.applied => transcript'.right
         /\ transcript' = transcript \/ transcript'.applied
<1>1. transcript' = Reconciled(scoreJob[j].side)
  BY DEF JobCommits
<1>2. CASE scoreJob[j].side = "unknown" \/ transcript.applied
  BY <1>1, <1>2 DEF Reconciled, SettleInv, SettleTypes, LabelsSettled
<1>3. CASE scoreJob[j].side # "unknown" /\ ~transcript.applied
  <2>1. transcript' = [right |-> (scoreJob[j].side = "B") # transcript.right, applied |-> TRUE]
    BY <1>1, <1>3 DEF Reconciled
  <2>2. scoreJob[j].side = IF transcript.right THEN "A" ELSE "B"
    BY <1>3 DEF SettleInv, SidesHeard, Heard
  <2>3. transcript.right \in BOOLEAN
    BY DEF SettleInv, SettleTypes
  <2>4. (scoreJob[j].side = "B") # transcript.right
    BY <2>2, <2>3
  <2> QED
    BY <2>1, <2>4
<1> QED
  BY <1>2, <1>3

LEMMA CommitKeeps ==
  ASSUME SettleInv, NEW j \in ScoreJobs, JobCommits(j) PROVE SettleInv'
<1>1. \A i \in ScoreJobs : scoreJob'[i] = IF i = j THEN NoJob ELSE scoreJob[i]
  BY DEF SettleInv, SettleTypes, JobCommits
<1>2. Settling(j)
  BY DEF JobCommits, Settling
<1>3. SettleTypes'
  <2>1. scoreJob' \in [ScoreJobs -> JobStates]
    BY NoJobTyped DEF SettleInv, SettleTypes, JobCommits
  <2> QED
    BY <2>1, TurnedRight DEF SettleInv, SettleTypes, JobCommits
<1>4. OneSettles'
  BY <1>1, NoJobTyped DEF SettleInv, OneSettles, Settling
<1>5. \A i \in ScoreJobs : ~scoreJob'[i].told
  BY <1>1, <1>2, NoJobTyped DEF SettleInv, ToldUnrecorded, OneSettles
<1>6. ToldUnrecorded'
  BY <1>5 DEF ToldUnrecorded
<1>7. Accounted'
  <2>1. (scoreRow = "notified" \/ \E i \in ScoreJobs : scoreJob[i].told) => scoreRow' = "notified"
    BY <1>2 DEF SettleInv, ToldUnrecorded, OneSettles, JobCommits
  <2> QED
    BY <2>1 DEF SettleInv, Accounted, JobCommits
<1>8. SidesHeard'
  BY <1>1, TurnedRight, NoJobTyped DEF SettleInv, SidesHeard, Heard
<1>9. LabelsSettled'
  BY TurnedRight DEF LabelsSettled
<1> QED
  BY <1>3, <1>4, <1>6, <1>7, <1>8, <1>9 DEF SettleInv

-----------------------------------------------------------------------------
LEMMA SettleStart == SettleInit => SettleInv
<1> SUFFICES ASSUME SettleInit PROVE SettleInv
  OBVIOUS
<1>1. \A j \in ScoreJobs : scoreJob[j] = NoJob
  BY DEF SettleInit
<1>2. SettleTypes
  BY NoJobTyped DEF SettleInit, SettleTypes
<1>3. OneSettles /\ ToldUnrecorded /\ SidesHeard
  BY <1>1, NoJobTyped DEF OneSettles, ToldUnrecorded, SidesHeard, Settling, Heard
<1>4. LabelsSettled
  BY DEF SettleInit, LabelsSettled
<1>5. Accounted
  BY DEF SettleInit, Accounted
<1> QED
  BY <1>2, <1>3, <1>4, <1>5 DEF SettleInv

LEMMA SettleStep == SettleInv /\ [SettleNext]_settleVars => SettleInv'
<1> SUFFICES ASSUME SettleInv, [SettleNext]_settleVars PROVE SettleInv'
  OBVIOUS
<1>1. CASE StatusMoves \/ UNCHANGED settleVars
  BY <1>1 DEF StatusMoves, settleVars, SettleInv, SettleTypes, OneSettles, Settling,
              ToldUnrecorded, Accounted, SidesHeard, Heard, LabelsSettled
<1>2. ASSUME NEW j \in ScoreJobs, JobReads(j) PROVE SettleInv'
  <2>1. PICK side \in {"unknown", IF transcript.right THEN "A" ELSE "B"}, cash \in BOOLEAN :
          scoreJob' = [scoreJob EXCEPT ![j] = [NoJob EXCEPT !.pc = "scored", !.side = side, !.cash = cash]]
    BY <1>2 DEF JobReads
  <2> DEFINE new == [NoJob EXCEPT !.pc = "scored", !.side = side, !.cash = cash]
  <2>2. new \in JobStates /\ new.pc # "upserted" /\ ~new.told /\ new.side = side
    BY DEF NoJob, JobStates
  <2>3. Heard(new.side)
    BY <2>2 DEF Heard
  <2>4. ~scoreJob[j].told
    BY <1>2 DEF JobReads, SettleInv, ToldUnrecorded, Settling
  <2> HIDE DEF new
  <2> QED
    BY <1>2, <2>1, <2>2, <2>3, <2>4, QuietMove DEF JobReads, new
<1>3. ASSUME NEW j \in ScoreJobs, JobVerifies(j) PROVE SettleInv'
  <2> DEFINE new == IF callStatus = "SCORING" THEN [scoreJob[j] EXCEPT !.pc = "verified"] ELSE NoJob
  <2>1. scoreJob' = [scoreJob EXCEPT ![j] = new]
    BY <1>3 DEF JobVerifies
  <2>2. ~scoreJob[j].told
    BY <1>3 DEF JobVerifies, SettleInv, ToldUnrecorded, Settling
  <2>3. new \in JobStates /\ new.pc # "upserted"
    BY NoJobTyped DEF SettleInv, SettleTypes, JobStates
  <2>4. ~new.told /\ new.side \in {scoreJob[j].side, "unknown"}
    BY <2>2, NoJobTyped DEF SettleInv, SettleTypes, JobStates
  <2>5. ~transcript.applied => Heard(new.side)
    BY <2>4 DEF SettleInv, SidesHeard, Heard
  <2> HIDE DEF new
  <2> QED
    BY <1>3, <2>1, <2>2, <2>3, <2>4, <2>5, QuietMove DEF JobVerifies
<1>4. ASSUME NEW j \in ScoreJobs, JobFails(j) \/ JobDies(j) PROVE SettleInv'
  <2>1. JobFails(j) => ~scoreJob[j].told
    BY DEF JobFails, SettleInv, ToldUnrecorded, Settling
  <2>2. Heard(NoJob.side)
    BY NoJobTyped DEF Heard
  <2> QED
    BY <1>4, <2>1, <2>2, NoJobTyped, QuietMove DEF JobFails, JobDies
<1>5. ASSUME NEW j \in ScoreJobs, JobUpserts(j) PROVE SettleInv'
  BY <1>5, UpsertKeeps
<1>6. ASSUME NEW j \in ScoreJobs, JobNotifies(j) PROVE SettleInv'
  BY <1>6, NotifyKeeps
<1>7. ASSUME NEW j \in ScoreJobs, JobCommits(j) PROVE SettleInv'
  BY <1>7, CommitKeeps
<1> QED
  BY <1>1, <1>2, <1>3, <1>4, <1>5, <1>6, <1>7 DEF SettleNext

(* maybe_notify_cash_buyer: a manager is told of a cash buyer once, and once more *)
(* only for each job that died, or whose answer was lost, after it had sent.       *)
THEOREM SettleAlertsOnce == SettleSpec => []AlertedOnce
<1>1. SettleInv => AlertedOnce
  BY DEF SettleInv, SettleTypes, Accounted, AlertedOnce
<1> QED
  BY <1>1, SettleStart, SettleStep, PTL DEF SettleSpec

(* _reconcile_transcript_labels: once the labels are settled they are right, with *)
(* any number of jobs that read the transcript before it was turned.               *)
THEOREM SettleLabelsRight == SettleSpec => []LabelsSettled
<1>1. SettleInv => LabelsSettled
  BY DEF SettleInv
<1> QED
  BY <1>1, SettleStart, SettleStep, PTL DEF SettleSpec

-----------------------------------------------------------------------------
(***************************************************************************)
(* The arithmetic of a percent.  A sum of the library is a function that   *)
(* takes its set apart one chosen member at a time; that this function     *)
(* exists, and what holds of it, goes by the least number of members for   *)
(* which it would not.                                                     *)
(***************************************************************************)
LEMMA LeastNatural ==
  ASSUME NEW T \in SUBSET Nat, T # {} PROVE \E n \in T : \A m \in T : n <= m
<1>1. PICK n \in T : \A m \in T : ~(<<m, n>> \in OpToRel(<, Nat))
  BY NatLessThanWellFounded, WFMin, Zenon
<1>2. \A m \in T : ~(m < n)
  BY <1>1 DEF OpToRel
<1> QED
  BY <1>2

(* Of sets that fail something, one from which no member can be taken away. *)
LEMMA SmallestSet ==
  ASSUME NEW S, IsFiniteSet(S), NEW T \in SUBSET SUBSET S, T # {}
  PROVE  \E s \in T : \A x \in s : s \ {x} \notin T
<1> DEFINE N == {n \in Nat : \E s \in T : Cardinality(s) = n}
<1>1. \A s \in T : IsFiniteSet(s) /\ Cardinality(s) \in Nat
  BY FS_Subset, FS_CardinalityType
<1>2. N # {} /\ N \subseteq Nat
  BY <1>1
<1>3. PICK n \in N : \A m \in N : n <= m
  <2> HIDE DEF N
  <2> QED
    BY <1>2, LeastNatural
<1>4. PICK s \in T : Cardinality(s) = n
  BY <1>3
<1>5. ASSUME NEW x \in s, s \ {x} \in T PROVE FALSE
  <2>1. Cardinality(s \ {x}) = n - 1
    BY <1>1, <1>4, FS_RemoveElement
  <2>2. n - 1 \in N
    BY <1>1, <1>5, <2>1
  <2>3. n \in Nat
    BY <1>3
  <2> HIDE DEF N
  <2> QED
    BY <1>3, <2>2, <2>3
<1> QED
  BY <1>5

Chosen(s) == CHOOSE x \in s : TRUE

(* A function that adds up fun over each of the sets. *)
AddsUp(sum, fun, Sets) ==
  sum = [s \in Sets |-> IF s = {} THEN 0 ELSE fun[Chosen(s)] + sum[s \ {Chosen(s)}]]

LEMMA SumExists ==
  ASSUME NEW S, IsFiniteSet(S), NEW fun
  PROVE  \E sum : AddsUp(sum, fun, SUBSET S)
<1> DEFINE Small(n) == {s \in SUBSET S : Cardinality(s) <= n}
           Bad == {n \in Nat : ~\E sum : AddsUp(sum, fun, Small(n))}
<1>0. \A s \in SUBSET S : /\ IsFiniteSet(s) /\ Cardinality(s) \in Nat /\ Cardinality(s) <= Cardinality(S)
                          /\ (Cardinality(s) = 0 <=> s = {})
  BY FS_Subset, FS_CardinalityType, FS_EmptySet
<1>1. \A s \in SUBSET S : s # {} => Chosen(s) \in s /\ Cardinality(s \ {Chosen(s)}) = Cardinality(s) - 1
  BY <1>0, FS_RemoveElement DEF Chosen
<1>2. Bad = {}
  <2> SUFFICES ASSUME Bad # {} PROVE FALSE
    OBVIOUS
  <2>1. PICK n \in Bad : \A m \in Bad : n <= m
    BY LeastNatural
  <2>2. CASE n = 0
    <3> DEFINE it == [s \in Small(0) |-> 0]
    <3>1. \A s \in Small(0) : s = {}
      BY <1>0
    <3>2. AddsUp(it, fun, Small(0))
      BY <3>1 DEF AddsUp
    <3> QED
      BY <2>1, <2>2, <3>2
  <2>3. CASE n # 0
    <3>1. n - 1 \in Nat /\ n - 1 \notin Bad
      <4>1. n \in Nat
        OBVIOUS
      <4> HIDE DEF Bad
      <4> QED
        BY <2>1, <2>3, <4>1
    <3>2. PICK sum : AddsUp(sum, fun, Small(n - 1))
      <4> HIDE DEF Small
      <4> QED
        BY <3>1
    <3> DEFINE it == [s \in Small(n) |-> IF s \in Small(n - 1) THEN sum[s]
                                          ELSE fun[Chosen(s)] + sum[s \ {Chosen(s)}]]
    <3>3. \A s \in Small(n) : s # {} => s \ {Chosen(s)} \in Small(n - 1)
      BY <1>0, <1>1, <3>1
    <3>4. \A s \in Small(n - 1) : sum[s] = IF s = {} THEN 0 ELSE fun[Chosen(s)] + sum[s \ {Chosen(s)}]
      BY <3>2 DEF AddsUp
    <3>5. Small(n - 1) \subseteq Small(n) /\ {} \in Small(n - 1)
      BY <1>0, <3>1
    <3>6. ASSUME NEW s \in Small(n)
          PROVE  it[s] = IF s = {} THEN 0 ELSE fun[Chosen(s)] + it[s \ {Chosen(s)}]
      <4>1. CASE s = {}
        BY <3>4, <3>5, <4>1
      <4>2. CASE s # {}
        <5> DEFINE t == s \ {Chosen(s)}
        <5>1. t \in Small(n - 1) /\ t \in Small(n)
          BY <3>3, <3>5, <4>2
        <5>2. it[t] = sum[t]
          BY <5>1
        <5>3. it[s] = fun[Chosen(s)] + sum[t]
          BY <3>4, <4>2
        <5> QED
          BY <4>2, <5>2, <5>3
      <4> QED
        BY <4>1, <4>2
    <3> HIDE DEF Small
    <3>7. AddsUp(it, fun, Small(n))
      BY <3>6 DEF AddsUp
    <3> QED
      BY <2>1, <3>7
  <2> QED
    BY <2>2, <2>3
<1>3. Small(Cardinality(S)) = SUBSET S /\ Cardinality(S) \in Nat
  BY <1>0, FS_CardinalityType
<1> QED
  BY <1>2, <1>3

LEMMA SumIs ==
  ASSUME NEW S, IsFiniteSet(S), NEW fun
  PROVE  \E sum : AddsUp(sum, fun, SUBSET S) /\ SumFunctionOnSet(fun, S) = sum[S]
<1> DEFINE it == CHOOSE sum : AddsUp(sum, fun, SUBSET S)
<1>1. AddsUp(it, fun, SUBSET S)
  BY SumExists
<1>2. SumFunctionOnSet(fun, S) = it[S]
  BY DEF SumFunctionOnSet, FoldFunctionOnSet, MapThenFoldSet, AddsUp, Chosen
<1> QED
  BY <1>1, <1>2

(* Sums are compared member by member. *)
LEMMA SumsCompared ==
  ASSUME NEW S, IsFiniteSet(S), NEW f, NEW g,
         \A x \in S : f[x] \in Nat /\ g[x] \in Nat /\ f[x] <= g[x]
  PROVE  /\ SumFunctionOnSet(f, S) \in Nat /\ SumFunctionOnSet(g, S) \in Nat
         /\ SumFunctionOnSet(f, S) <= SumFunctionOnSet(g, S)
<1>1. PICK F : AddsUp(F, f, SUBSET S) /\ SumFunctionOnSet(f, S) = F[S]
  BY SumIs
<1>2. PICK G : AddsUp(G, g, SUBSET S) /\ SumFunctionOnSet(g, S) = G[S]
  BY SumIs
<1> DEFINE Bad == {s \in SUBSET S : ~(F[s] \in Nat /\ G[s] \in Nat /\ F[s] <= G[s])}
<1>3. Bad = {}
  <2> SUFFICES ASSUME Bad # {} PROVE FALSE
    OBVIOUS
  <2>1. PICK s \in Bad : \A x \in s : s \ {x} \notin Bad
    <3>1. Bad \in SUBSET SUBSET S
      OBVIOUS
    <3> HIDE DEF Bad
    <3> QED
      BY <3>1, SmallestSet
  <2>2. /\ F[s] = IF s = {} THEN 0 ELSE f[Chosen(s)] + F[s \ {Chosen(s)}]
        /\ G[s] = IF s = {} THEN 0 ELSE g[Chosen(s)] + G[s \ {Chosen(s)}]
    BY <1>1, <1>2 DEF AddsUp
  <2>3. s # {}
    BY <2>2
  <2>4. Chosen(s) \in s
    BY <2>3 DEF Chosen
  <2> DEFINE t == s \ {Chosen(s)}
  <2>5. F[t] \in Nat /\ G[t] \in Nat /\ F[t] <= G[t]
    BY <2>1, <2>4
  <2>6. f[Chosen(s)] \in Nat /\ g[Chosen(s)] \in Nat /\ f[Chosen(s)] <= g[Chosen(s)]
    BY <2>4
  <2> QED
    BY <2>2, <2>3, <2>5, <2>6
<1> QED
  BY <1>1, <1>2, <1>3

(* A sum of ones and zeros counts the ones. *)
LEMMA SumCounts ==
  ASSUME NEW S, IsFiniteSet(S), NEW f, NEW Y \in SUBSET S,
         \A x \in S : f[x] = IF x \in Y THEN 1 ELSE 0
  PROVE  SumFunctionOnSet(f, S) = Cardinality(Y)
<1>1. PICK F : AddsUp(F, f, SUBSET S) /\ SumFunctionOnSet(f, S) = F[S]
  BY SumIs
<1>2. \A s \in SUBSET S : IsFiniteSet(s \cap Y) /\ Cardinality(s \cap Y) \in Nat
  BY FS_Subset, FS_CardinalityType
<1> DEFINE Bad == {s \in SUBSET S : F[s] # Cardinality(s \cap Y)}
<1>3. Bad = {}
  <2> SUFFICES ASSUME Bad # {} PROVE FALSE
    OBVIOUS
  <2>1. PICK s \in Bad : \A x \in s : s \ {x} \notin Bad
    <3>1. Bad \in SUBSET SUBSET S
      OBVIOUS
    <3> HIDE DEF Bad
    <3> QED
      BY <3>1, SmallestSet
  <2> DEFINE c == Chosen(s)
             t == s \ {c}
  <2>2. F[s] = IF s = {} THEN 0 ELSE f[c] + F[t]
    BY <1>1 DEF AddsUp
  <2>3. s # {}
    <3>1. ASSUME s = {} PROVE FALSE
      <4>1. s \cap Y = {}
        BY <3>1
      <4>2. F[s] = 0 /\ Cardinality(s \cap Y) = 0
        BY <2>2, <3>1, <4>1, FS_EmptySet
      <4> QED
        BY <4>2
    <3> QED
      BY <3>1
  <2>4. c \in s
    BY <2>3 DEF Chosen
  <2>5. F[t] = Cardinality(t \cap Y)
    BY <2>1, <2>4
  <2>6. t \cap Y = (s \cap Y) \ {c}
    OBVIOUS
  <2>7. Cardinality(t \cap Y) = IF c \in Y THEN Cardinality(s \cap Y) - 1 ELSE Cardinality(s \cap Y)
    <3>1. IsFiniteSet(s \cap Y)
      BY <1>2
    <3>2. Cardinality((s \cap Y) \ {c}) = IF c \in s \cap Y THEN Cardinality(s \cap Y) - 1 ELSE Cardinality(s \cap Y)
      <4> HIDE DEF c
      <4> QED
        BY <3>1, FS_RemoveElement, Zenon
    <3>3. c \in s \cap Y <=> c \in Y
      BY <2>4
    <3> HIDE DEF c, t
    <3> QED
      BY <2>6, <3>2, <3>3, Zenon
  <2>8. f[c] = IF c \in Y THEN 1 ELSE 0
    BY <2>4
  <2>9. F[s] = Cardinality(s \cap Y)
    <3>1. Cardinality(s \cap Y) \in Nat
      BY <1>2
    <3> HIDE DEF c, t, Bad
    <3> QED
      BY <2>2, <2>3, <2>5, <2>7, <2>8, <3>1
  <2> QED
    BY <2>9
<1>4. S \cap Y = Y /\ S \in SUBSET S
  OBVIOUS
<1> QED
  BY <1>1, <1>3, <1>4

(* round(100 * part / whole, 2) is no smaller for a larger part. *)
LEMMA HundredthsGrow ==
  ASSUME NEW a \in Nat, NEW b \in Nat, NEW whole \in Nat \ {0}, a <= b
  PROVE  Hundredths(a, whole) \in Nat /\ Hundredths(b, whole) \in Nat /\ Hundredths(a, whole) <= Hundredths(b, whole)
<1>1. \A x \in Nat, y \in Nat, m \in Nat \ {0} : x <= y => x \div m <= y \div m
  OBVIOUS
<1>2. \A x \in Nat, m \in Nat \ {0} : x \div m \in Nat
  OBVIOUS
<1>3. /\ 20000 * a + whole \in Nat /\ 20000 * b + whole \in Nat /\ 2 * whole \in Nat \ {0}
      /\ 20000 * a + whole <= 20000 * b + whole
  OBVIOUS
<1> QED
  BY <1>1, <1>2, <1>3 DEF Hundredths

LEMMA WholeOf ==
  ASSUME NEW entries, WellMarked(entries), DOMAIN entries # {} PROVE MaxOf(entries) \in Nat \ {0}
<1> DEFINE S == DOMAIN entries
           one == [c \in S |-> 1]
           max == [c \in S |-> entries[c].max]
<1>1. IsFiniteSet(S) /\ S # {} /\ \A c \in S : max[c] \in Nat \ {0} /\ one[c] = 1
  BY DEF WellMarked
<1> HIDE DEF S, one, max
<1>2. \A c \in S : one[c] = IF c \in S THEN 1 ELSE 0
  BY <1>1
<1>3. SumFunctionOnSet(one, S) = Cardinality(S)
  BY <1>1, <1>2, SumCounts
<1>4. SumFunctionOnSet(one, S) <= SumFunctionOnSet(max, S) /\ SumFunctionOnSet(max, S) \in Nat
  BY <1>1, SumsCompared
<1>5. Cardinality(S) \in Nat /\ Cardinality(S) # 0
  BY <1>1, FS_CardinalityType, FS_EmptySet
<1>6. SumFunctionOnSet(max, S) \in Nat \ {0}
  BY <1>3, <1>4, <1>5
<1> QED
  BY <1>6 DEF MaxOf, S, max

(* recompute_percent: "a confirmation can only raise the percent". *)
LEMMA CorrectionRaises ==
  ASSUME NEW entries, WellMarked(entries), NEW confirmed
  PROVE  /\ AssembledPercent(entries) \in Nat /\ RecomputedPercent(entries, confirmed) \in Nat
         /\ AssembledPercent(entries) <= RecomputedPercent(entries, confirmed)
<1> DEFINE S == DOMAIN entries
           marks == [c \in S |-> entries[c].score]
           raised == [c \in S |-> Awarded(entries, confirmed)[c].score]
           yes == {c \in S : c \in confirmed \/ entries[c].score >= 1}
           said == {c \in S : entries[c].score >= 1}
<1>1. CASE S = {}
  BY <1>1 DEF AssembledPercent, RecomputedPercent
<1>2. CASE S # {}
  <2>1. MaxOf(entries) \in Nat \ {0} /\ IsFiniteSet(S)
    BY <1>2, WholeOf DEF WellMarked
  <2>2. \A c \in S : /\ entries[c] \in [score : Nat, max : Nat \ {0}]
                     /\ entries[c].score <= entries[c].max
    BY DEF WellMarked
  <2>3. \A c \in S : raised[c] = IF c \in confirmed THEN entries[c].max ELSE entries[c].score
    BY <2>2 DEF Awarded
  <2>4. \A c \in S : marks[c] \in Nat /\ raised[c] \in Nat /\ marks[c] <= raised[c]
    BY <2>2, <2>3
  <2>5. PointsOf(entries) = SumFunctionOnSet(marks, S)
    BY DEF PointsOf
  <2>6. DOMAIN Awarded(entries, confirmed) = S
    BY DEF Awarded
  <2>7. PointsOf(Awarded(entries, confirmed)) = SumFunctionOnSet(raised, S)
    BY <2>6 DEF PointsOf
  <2>8. /\ PointsOf(entries) \in Nat /\ PointsOf(Awarded(entries, confirmed)) \in Nat
        /\ PointsOf(entries) <= PointsOf(Awarded(entries, confirmed))
    <3> HIDE DEF S, marks, raised
    <3> QED
      BY <2>1, <2>4, <2>5, <2>7, SumsCompared
  <2>9. AssembledPercent(entries) = Hundredths(PointsOf(entries), MaxOf(entries))
    BY <1>2 DEF AssembledPercent
  <2>10. CASE IsBinary(entries)
    <3>1. \A c \in S : entries[c].max = 1 /\ entries[c].score = IF c \in said THEN 1 ELSE 0
      BY <2>2, <2>10 DEF IsBinary
    <3>2. PointsOf(entries) = Cardinality(said)
      <4>1. said \in SUBSET S /\ \A c \in S : marks[c] = IF c \in said THEN 1 ELSE 0
        BY <3>1
      <4> HIDE DEF S, marks, said
      <4> QED
        BY <2>1, <2>5, <4>1, SumCounts
    <3>3. MaxOf(entries) = Cardinality(S)
      <4> DEFINE max == [c \in S |-> entries[c].max]
      <4>1. S \in SUBSET S /\ \A c \in S : max[c] = IF c \in S THEN 1 ELSE 0
        BY <3>1
      <4>2. MaxOf(entries) = SumFunctionOnSet(max, S)
        BY DEF MaxOf
      <4> HIDE DEF S, max
      <4> QED
        BY <2>1, <4>1, <4>2, SumCounts
    <3>4. Cardinality(said) <= Cardinality(yes) /\ Cardinality(yes) \in Nat /\ Cardinality(said) \in Nat
      <4>1. yes \in SUBSET S /\ said \in SUBSET yes
        OBVIOUS
      <4> HIDE DEF S, yes, said
      <4>2. IsFiniteSet(yes)
        BY <2>1, <4>1, FS_Subset
      <4>3. IsFiniteSet(said) /\ Cardinality(said) <= Cardinality(yes)
        BY <4>1, <4>2, FS_Subset
      <4> QED
        BY <4>2, <4>3, FS_CardinalityType
    <3>5. RecomputedPercent(entries, confirmed) = Hundredths(Cardinality(yes), Cardinality(S))
      BY <1>2, <2>10 DEF RecomputedPercent
    <3> HIDE DEF S, yes, said
    <3> QED
      BY <2>1, <2>9, <3>2, <3>3, <3>4, <3>5, HundredthsGrow
  <2>11. CASE ~IsBinary(entries)
    <3>1. RecomputedPercent(entries, confirmed) = Hundredths(PointsOf(Awarded(entries, confirmed)), MaxOf(entries))
      BY <1>2, <2>11 DEF RecomputedPercent
    <3> QED
      BY <2>1, <2>8, <2>9, <3>1, HundredthsGrow
  <2> QED
    BY <2>10, <2>11
<1> QED
  BY <1>1, <1>2

-----------------------------------------------------------------------------
(***************************************************************************)
(* One pending appeal per call, for any number of clients, calls, requests *)
(* and re-scorings, and whatever happens to the managers table meanwhile.  *)
(* A pending row only ever comes from a filing that found none, and a      *)
(* review, however stale the row it loaded, never makes a row pending.     *)
(***************************************************************************)
Fields == {"call", "created", "status", "confirmed", "override", "dismissed", "reviewed", "basis"}
Filing(r, c) == request[r].kind = "file" /\ request[r].call = c

AppealShapes ==
  /\ DOMAIN request = Clients
  /\ \E Rows : appeals \in Seq(Rows)
  /\ \A i \in 1..Len(appeals) : Fields \subseteq DOMAIN appeals[i]
  /\ \A r \in Clients : request[r].kind = "review" =>
       request[r].appeal \in 1..Len(appeals) /\ Fields \subseteq DOMAIN request[r].loaded

(* A call no two filings were rivals for: one row pending, or one on its way, or none. *)
OneOpen(c) ==
  /\ \A i, j \in PendingOn(c) : i = j
  /\ \A r, q \in Clients : Filing(r, c) /\ Filing(q, c) => r = q
  /\ \A r \in Clients : Filing(r, c) => PendingOn(c) = {}

AppealInv == AppealShapes /\ \A c \in Calls \ rival : OneOpen(c)

-----------------------------------------------------------------------------
LEMMA IdleKind == Idle.kind = "none"
BY DEF Idle

(* The appeals stay; one client's request becomes one that files nothing. *)
LEMMA RequestMoves ==
  ASSUME AppealInv, NEW r \in Clients, NEW new, request' = [request EXCEPT ![r] = new],
         UNCHANGED <<appeals, rival>>, new.kind # "file",
         new.kind = "review" => new.appeal \in 1..Len(appeals) /\ Fields \subseteq DOMAIN new.loaded
  PROVE  AppealInv'
<1>1. \A q \in Clients : request'[q] = IF q = r THEN new ELSE request[q]
  BY DEF AppealInv, AppealShapes
<1>2. AppealShapes'
  BY <1>1 DEF AppealInv, AppealShapes
<1>3. \A c : PendingOn(c)' = PendingOn(c)
  BY DEF PendingOn, AppealsOf
<1>4. \A q \in Clients, c \in Calls : Filing(q, c)' => Filing(q, c)
  BY <1>1 DEF Filing
<1>5. ASSUME NEW c \in Calls \ rival' PROVE OneOpen(c)'
  BY <1>3, <1>4, <1>5 DEF AppealInv, OneOpen
<1> QED
  BY <1>2, <1>5 DEF AppealInv

(* A filing gets under way only where nothing is pending; beside another, the call is rival. *)
LEMMA FileChecksKeeps ==
  ASSUME AppealInv, NEW r \in Clients, NEW who, NEW c \in Calls, NEW disputed,
         FileChecks(r, who, c, disputed)
  PROVE  AppealInv'
<1> DEFINE new == [kind |-> "file", call |-> c, disputed |-> disputed,
                   dept |-> DeptOf(CallManager[c]), at |-> begun + 1]
<1>1. request' = [request EXCEPT ![r] = new] /\ UNCHANGED appeals
  BY DEF FileChecks
<1>2. new.kind = "file" /\ new.call = c
  OBVIOUS
<1>3. PendingOn(c) = {}
  BY DEF FileChecks, OpenAppeal
<1>4. rival' = IF \E o \in Clients \ {r} : Filing(o, c) THEN rival \cup {c} ELSE rival
  BY DEF FileChecks, Filing
<1> HIDE DEF new
<1>5. \A q \in Clients : request'[q] = IF q = r THEN new ELSE request[q]
  BY <1>1 DEF AppealInv, AppealShapes
<1>6. AppealShapes'
  BY <1>1, <1>2, <1>5 DEF AppealInv, AppealShapes
<1>7. \A d : PendingOn(d)' = PendingOn(d)
  BY <1>1 DEF PendingOn, AppealsOf
<1>8. \A q \in Clients, d \in Calls : Filing(q, d)' <=> IF q = r THEN d = c ELSE Filing(q, d)
  BY <1>2, <1>5 DEF Filing
<1>9. ASSUME NEW d \in Calls \ rival' PROVE OneOpen(d)'
  <2>1. d \notin rival
    BY <1>4, <1>9
  <2>2. d = c => \A o \in Clients \ {r} : ~Filing(o, c)
    BY <1>4, <1>9
  <2> QED
    BY <1>3, <1>7, <1>8, <2>1, <2>2 DEF AppealInv, OneOpen
<1> QED
  BY <1>6, <1>9 DEF AppealInv

(* The one filing of a call inserts its one pending row. *)
LEMMA FileInsertsKeeps ==
  ASSUME AppealInv, NEW r \in Clients, FileInserts(r) PROVE AppealInv'
<1> DEFINE c == request[r].call
<1>1. PICK row : /\ appeals' = Append(appeals, row)
                 /\ row.call = c /\ row.status = "pending" /\ Fields \subseteq DOMAIN row
  BY DEF FileInserts, Fields
<1>2. PICK Rows : appeals \in Seq(Rows)
  BY DEF AppealInv, AppealShapes
<1>3. appeals \in Seq(Rows \cup {row})
  BY <1>2, SeqMonotonic
<1>4. /\ appeals' \in Seq(Rows \cup {row}) /\ Len(appeals') = Len(appeals) + 1 /\ Len(appeals) \in Nat
      /\ \A i \in 1..Len(appeals) : appeals'[i] = appeals[i]
      /\ appeals'[Len(appeals) + 1] = row
  BY <1>1, <1>3
<1>5. Filing(r, c) /\ rival' = rival
  BY DEF FileInserts, Filing
<1>6. request' = [request EXCEPT ![r] = Idle]
  BY DEF FileInserts
<1>7. \A q \in Clients : request'[q] = IF q = r THEN Idle ELSE request[q]
  BY <1>6 DEF AppealInv, AppealShapes
<1>8. AppealShapes'
  <2>1. DOMAIN request' = Clients
    BY <1>6 DEF AppealInv, AppealShapes
  <2>2. \A i \in 1..Len(appeals') : Fields \subseteq DOMAIN appeals'[i]
    BY <1>1, <1>4 DEF AppealInv, AppealShapes
  <2>3. \A q \in Clients : request'[q].kind = "review" =>
          request'[q].appeal \in 1..Len(appeals') /\ Fields \subseteq DOMAIN request'[q].loaded
    BY <1>4, <1>7, IdleKind DEF AppealInv, AppealShapes
  <2> QED
    BY <1>4, <2>1, <2>2, <2>3 DEF AppealShapes
<1>9. \A d : PendingOn(d)' = IF d = c THEN PendingOn(d) \cup {Len(appeals) + 1} ELSE PendingOn(d)
  BY <1>1, <1>4 DEF PendingOn, AppealsOf
<1>10. \A q \in Clients, d \in Calls : Filing(q, d)' <=> q # r /\ Filing(q, d)
  BY <1>7, IdleKind DEF Filing
<1>11. ASSUME NEW d \in Calls \ rival' PROVE OneOpen(d)'
  <2>1. OneOpen(d)
    BY <1>5, <1>11 DEF AppealInv
  <2>2. CASE d = c
    <3>1. PendingOn(d)' = {Len(appeals) + 1}
      BY <1>5, <1>9, <2>1, <2>2 DEF OneOpen
    <3>2. \A q \in Clients : ~Filing(q, d)'
      BY <1>5, <1>10, <2>1, <2>2 DEF OneOpen
    <3> QED
      BY <3>1, <3>2 DEF OneOpen
  <2>3. CASE d # c
    BY <1>9, <1>10, <2>1, <2>3 DEF OneOpen
  <2> QED
    BY <2>2, <2>3
<1> QED
  BY <1>8, <1>11 DEF AppealInv

-----------------------------------------------------------------------------
(* What a review writes: the row keeps its call, and is decided or as it was found. *)
LEMMA WrittenRow ==
  ASSUME NEW current, NEW loaded, NEW entries, NEW confirmed, NEW dismissed, NEW reviewed, NEW basis,
         Fields \subseteq DOMAIN current, Fields \subseteq DOMAIN loaded
  PROVE  LET row == [Flushed(current, loaded, Verdict(loaded, entries, confirmed, dismissed))
                      EXCEPT !.reviewed = reviewed, !.basis = basis]
         IN /\ Fields \subseteq DOMAIN row /\ row.call = current.call
            /\ row.created = current.created /\ row.reviewed = reviewed
            /\ row.override \in {current.override, NoPercent, RecomputedPercent(entries, confirmed)}
            /\ row.status = "pending" => current.status = "pending"
<1> DEFINE new == Verdict(loaded, entries, confirmed, dismissed)
           merged == Flushed(current, loaded, new)
<1>1. new.call = loaded.call /\ new.created = loaded.created /\ new.status # "pending"
      /\ new.override \in {NoPercent, RecomputedPercent(entries, confirmed)}
  BY DEF Verdict, Fields
<1>2. DOMAIN merged = DOMAIN current
  BY DEF Flushed
<1>3. /\ merged.call = current.call /\ merged.created = current.created
      /\ merged.override \in {current.override, NoPercent, RecomputedPercent(entries, confirmed)}
      /\ (merged.status = "pending" => current.status = "pending")
  BY <1>1 DEF Flushed, Fields
<1> HIDE DEF merged
<1>4. LET row == [merged EXCEPT !.reviewed = reviewed, !.basis = basis]
      IN /\ DOMAIN row = DOMAIN merged /\ row.call = merged.call /\ row.created = merged.created
         /\ row.status = merged.status /\ row.override = merged.override /\ row.reviewed = reviewed
  BY <1>2 DEF Fields
<1> QED
  BY <1>2, <1>3, <1>4 DEF merged

LEMMA ReviewWritesKeeps ==
  ASSUME AppealInv, NEW r \in Clients, ReviewWrites(r) PROVE AppealInv'
<1> DEFINE a == request[r].appeal
           row == [Flushed(appeals[a], request[r].loaded,
                           Verdict(request[r].loaded, score[appeals[a].call].entries,
                                   request[r].confirmed, request[r].dismissed))
                    EXCEPT !.reviewed = NextReview, !.basis = score[appeals[a].call]]
<1>1. /\ appeals' = [appeals EXCEPT ![a] = row]
      /\ request' = [request EXCEPT ![r] = Idle] /\ rival' = rival
  BY DEF ReviewWrites
<1>2. a \in 1..Len(appeals) /\ Fields \subseteq DOMAIN appeals[a] /\ Fields \subseteq DOMAIN request[r].loaded
  BY DEF AppealInv, AppealShapes, ReviewWrites
<1>3. Fields \subseteq DOMAIN row /\ row.call = appeals[a].call
      /\ (row.status = "pending" => appeals[a].status = "pending")
  BY <1>2, WrittenRow
<1> HIDE DEF row, a
<1>4. PICK Rows : appeals \in Seq(Rows)
  BY DEF AppealInv, AppealShapes
<1>5. appeals \in Seq(Rows \cup {row})
  BY <1>4, SeqMonotonic
<1>6. /\ appeals' \in Seq(Rows \cup {row}) /\ Len(appeals') = Len(appeals)
      /\ \A i \in 1..Len(appeals) : appeals'[i] = IF i = a THEN row ELSE appeals[i]
  BY <1>1, <1>2, <1>5, ExceptSeq
<1>7. \A q \in Clients : request'[q] = IF q = r THEN Idle ELSE request[q]
  BY <1>1 DEF AppealInv, AppealShapes
<1>8. AppealShapes'
  <2>1. DOMAIN request' = Clients
    BY <1>1 DEF AppealInv, AppealShapes
  <2>2. \A i \in 1..Len(appeals') : Fields \subseteq DOMAIN appeals'[i]
    BY <1>3, <1>6 DEF AppealInv, AppealShapes
  <2>3. \A q \in Clients : request'[q].kind = "review" =>
          request'[q].appeal \in 1..Len(appeals') /\ Fields \subseteq DOMAIN request'[q].loaded
    BY <1>6, <1>7, IdleKind DEF AppealInv, AppealShapes
  <2> QED
    BY <1>6, <2>1, <2>2, <2>3 DEF AppealShapes
<1>9. \A d : PendingOn(d)' \subseteq PendingOn(d)
  BY <1>2, <1>3, <1>6 DEF PendingOn, AppealsOf
<1>10. \A q \in Clients, d \in Calls : Filing(q, d)' => Filing(q, d)
  BY <1>7, IdleKind DEF Filing
<1>11. ASSUME NEW d \in Calls \ rival' PROVE OneOpen(d)'
  BY <1>1, <1>9, <1>10, <1>11 DEF AppealInv, OneOpen
<1> QED
  BY <1>8, <1>11 DEF AppealInv

-----------------------------------------------------------------------------
LEMMA AppealStart == AppealsInit => AppealInv
<1> SUFFICES ASSUME AppealsInit PROVE AppealInv
  OBVIOUS
<1>1. appeals \in Seq({}) /\ Len(appeals) = 0
  BY DEF AppealsInit
<1>2. \A r \in Clients : request[r].kind = "none"
  BY IdleKind DEF AppealsInit
<1>3. AppealShapes
  BY <1>1, <1>2 DEF AppealsInit, AppealShapes
<1>4. \A c \in Calls : PendingOn(c) = {}
  BY <1>1 DEF PendingOn, AppealsOf
<1>5. \A c \in Calls : OneOpen(c)
  BY <1>2, <1>4 DEF OneOpen, Filing
<1> QED
  BY <1>3, <1>5 DEF AppealInv

LEMMA AppealStep == AppealInv /\ [AppealsNext]_appealVars => AppealInv'
<1> SUFFICES ASSUME AppealInv, [AppealsNext]_appealVars PROVE AppealInv'
  OBVIOUS
<1>1. ASSUME UNCHANGED <<appeals, request, rival>> PROVE AppealInv'
  BY <1>1 DEF AppealInv, AppealShapes, OneOpen, Filing, PendingOn, AppealsOf
<1>2. ASSUME NEW c \in Calls, CallScored(c) PROVE AppealInv'
  BY <1>1, <1>2 DEF CallScored
<1>3. ASSUME NEW r \in Clients, RequestFails(r) PROVE AppealInv'
  BY <1>3, RequestMoves, IdleKind DEF RequestFails
<1>4. ASSUME NEW r \in Clients, NEW who, NEW a \in 1..Len(appeals), NEW confirmed, NEW dismissed,
             ReviewLoads(r, who, a, confirmed, dismissed)
      PROVE  AppealInv'
  <2> DEFINE new == [kind |-> "review", appeal |-> a, loaded |-> appeals[a],
                     confirmed |-> confirmed, dismissed |-> dismissed]
  <2>1. request' = [request EXCEPT ![r] = new] /\ UNCHANGED <<appeals, rival>>
    BY <1>4 DEF ReviewLoads
  <2>2. new.kind = "review" /\ new.appeal = a /\ new.loaded = appeals[a]
    OBVIOUS
  <2> HIDE DEF new
  <2>3. Fields \subseteq DOMAIN appeals[a]
    BY DEF AppealInv, AppealShapes
  <2> QED
    BY <2>1, <2>2, <2>3, RequestMoves
<1>5. ASSUME NEW r \in Clients, NEW who, NEW c \in Calls, NEW disputed, FileChecks(r, who, c, disputed)
      PROVE  AppealInv'
  BY <1>5, FileChecksKeeps
<1>6. ASSUME NEW r \in Clients, FileInserts(r) PROVE AppealInv'
  BY <1>6, FileInsertsKeeps
<1>7. ASSUME NEW r \in Clients, ReviewWrites(r) PROVE AppealInv'
  BY <1>7, ReviewWritesKeeps
<1> QED
  BY <1>1, <1>2, <1>3, <1>4, <1>5, <1>6, <1>7 DEF AppealsNext, appealVars

(* file_call_appeal: "One pending appeal per call"; a call has two only if two     *)
(* filings were both past the check at once.                                       *)
THEOREM AppealsOnePending == AppealsSpec => []OnePendingAppeal
<1>1. AppealInv => OnePendingAppeal
  <2> SUFFICES ASSUME AppealInv, NEW c \in Calls \ rival PROVE Cardinality(PendingOn(c)) <= 1
    BY DEF OnePendingAppeal
  <2>1. PendingOn(c) = {} \/ \E i : PendingOn(c) = {i}
    BY DEF AppealInv, OneOpen
  <2>2. CASE PendingOn(c) = {}
    <3>1. Cardinality(PendingOn(c)) = 0
      BY <2>2, FS_EmptySet
    <3> QED
      BY <3>1
  <2>3. ASSUME NEW i, PendingOn(c) = {i} PROVE Cardinality(PendingOn(c)) <= 1
    <3>1. Cardinality(PendingOn(c)) = 1
      BY <2>3, FS_Singleton, Zenon
    <3> QED
      BY <3>1
  <2> QED
    BY <2>1, <2>2, <2>3
<1> QED
  BY <1>1, AppealStart, AppealStep, PTL DEF AppealsSpec

-----------------------------------------------------------------------------
(***************************************************************************)
(* The verdict on an appeal, for any rubric, any scorings and any number   *)
(* of reviews.  Of an appeal no two reviews overlap on, the one under way  *)
(* has the row as it stands, so what the flush leaves of it is the verdict *)
(* as computed; and the elements it is computed from are those the percent *)
(* of the score was assembled from.                                        *)
(***************************************************************************)
ScoreWhole(row) ==
  /\ WellMarked(row.entries)
  /\ row = NoScore \/ row.percent = AssembledPercent(row.entries)
  /\ row.zone = ZoneFor(row.percent)

RowDecided(row) ==
  /\ row.status = "accepted" <=> row.confirmed # {}
  /\ row.status = "accepted" <=> row.override # NoPercent
  /\ row.status = "accepted" => /\ row.override >= row.basis.percent
                                /\ row.override = RecomputedPercent(row.basis.entries, row.confirmed)
  /\ row.status # "accepted" => row.dismissed = {}

Reviewing(r, a) == request[r].kind = "review" /\ request[r].appeal = a
OneReview(a) ==
  /\ \A r, q \in Clients : Reviewing(r, a) /\ Reviewing(q, a) => r = q
  /\ \A r \in Clients : Reviewing(r, a) => request[r].loaded = appeals[a]

VerdictInv ==
  /\ AppealInv
  /\ DOMAIN score = Calls /\ \A c \in Calls : ScoreWhole(score[c])
  /\ \A a \in 1..Len(appeals) : appeals[a].call \in Calls
  /\ \A r \in Clients : request[r].kind = "file" => request[r].call \in Calls
  /\ overlapped \subseteq 1..Len(appeals)
  /\ \A a \in 1..Len(appeals) \ overlapped : RowDecided(appeals[a]) /\ OneReview(a)

LEMMA NoScoreWhole == ScoreWhole(NoScore)
<1> DEFINE none == << >>
<1>1. NoScore.entries = none /\ NoScore.percent = NoPercent /\ DOMAIN none = {}
  BY DEF NoScore
<1>2. WellMarked(none)
  BY <1>1, FS_EmptySet DEF WellMarked
<1> QED
  BY <1>1, <1>2 DEF ScoreWhole, NoScore, ZoneFor

LEMMA RowWhole ==
  ASSUME NEW entries, WellMarked(entries), NEW qual, NEW target, NEW flags
  PROVE  ScoreWhole(ScoreRow(entries, qual, target, flags))
BY DEF ScoreWhole, ScoreRow

LEMMA NewScoresWhole == ASSUME NEW row \in NewScores PROVE ScoreWhole(row)
<1>1. PICK x \in Scorings : row = ScoreRow(PerCriterion(x.answer, x.objections), x.qual, x.target, x.flags)
  BY DEF NewScores
<1> DEFINE entries == PerCriterion(x.answer, x.objections)
<1>2. DOMAIN entries \subseteq Criteria
  BY DEF PerCriterion, Exercised
<1>3. IsFiniteSet(DOMAIN entries)
  BY <1>2, AppealsAssumption, FS_Subset DEF AppealsAssumption
<1>4. entries \in [DOMAIN entries -> [score : Nat, max : Nat \ {0}]]
      /\ \A c \in DOMAIN entries : entries[c].score <= entries[c].max
  BY DEF PerCriterion
<1>5. WellMarked(entries)
  BY <1>3, <1>4 DEF WellMarked
<1> HIDE DEF entries
<1> QED
  BY <1>1, <1>5, RowWhole DEF entries

(* What a review writes, if nobody wrote the row since it was loaded. *)
LEMMA VerdictDecides ==
  ASSUME NEW row, Fields \subseteq DOMAIN row, NEW basis, ScoreWhole(basis),
         NEW confirmed, NEW dismissed, NEW reviewed
  PROVE  RowDecided([Flushed(row, row, Verdict(row, basis.entries, confirmed, dismissed))
                       EXCEPT !.reviewed = reviewed, !.basis = basis])
<1> DEFINE verdict == Verdict(row, basis.entries, confirmed, dismissed)
           merged == Flushed(row, row, verdict)
           new == [merged EXCEPT !.reviewed = reviewed, !.basis = basis]
           percent == RecomputedPercent(basis.entries, confirmed)
<1>1. /\ verdict.confirmed = confirmed
      /\ verdict.status = IF confirmed = {} THEN "rejected" ELSE "accepted"
      /\ verdict.override = IF confirmed = {} THEN NoPercent ELSE percent
      /\ verdict.dismissed = IF confirmed = {} THEN {} ELSE dismissed
  BY DEF Verdict, Fields
<1>2. DOMAIN merged = DOMAIN row
  BY DEF Flushed
<1>3. \A f \in DOMAIN row : merged[f] = verdict[f]
  BY DEF Flushed
<1> HIDE DEF merged, verdict
<1>4. /\ merged.confirmed = verdict.confirmed /\ merged.status = verdict.status
      /\ merged.override = verdict.override /\ merged.dismissed = verdict.dismissed
  BY <1>3 DEF Fields
<1>5. /\ new.confirmed = merged.confirmed /\ new.status = merged.status /\ new.override = merged.override
      /\ new.dismissed = merged.dismissed /\ new.basis = basis
  BY <1>2 DEF Fields
<1>6. percent \in Nat /\ percent >= basis.percent
  <2>1. percent \in Nat /\ AssembledPercent(basis.entries) \in Nat /\ AssembledPercent(basis.entries) <= percent
    BY CorrectionRaises DEF ScoreWhole
  <2> HIDE DEF percent
  <2> QED
    BY <2>1 DEF ScoreWhole, NoScore, NoPercent
<1> HIDE DEF new
<1>7. percent # NoPercent
  BY <1>6 DEF NoPercent
<1>8. percent = RecomputedPercent(basis.entries, confirmed)
  OBVIOUS
<1> HIDE DEF percent
<1>9. RowDecided(new)
  BY <1>8, <1>1, <1>4, <1>5, <1>6, <1>7 DEF RowDecided
<1> QED
  BY <1>9 DEF new, merged, verdict

(* One client's request changes, and starts no review that is not the only one. *)
LEMMA RequestKeepsVerdicts ==
  ASSUME VerdictInv, AppealInv', NEW r \in Clients, NEW new, request' = [request EXCEPT ![r] = new],
         UNCHANGED <<appeals, score>>, overlapped' \subseteq 1..Len(appeals), overlapped \subseteq overlapped',
         new.kind = "file" => new.call \in Calls,
         new.kind = "review" =>
           /\ new.appeal \in 1..Len(appeals) /\ new.loaded = appeals[new.appeal]
           /\ new.appeal \notin overlapped' => \A o \in Clients \ {r} : ~Reviewing(o, new.appeal)
  PROVE  VerdictInv'
<1>1. \A q \in Clients : request'[q] = IF q = r THEN new ELSE request[q]
  BY DEF VerdictInv, AppealInv, AppealShapes
<1>2. ASSUME NEW a \in 1..Len(appeals) \ overlapped' PROVE OneReview(a)'
  <2>1. OneReview(a)
    BY DEF VerdictInv
  <2>2. \A q \in Clients : Reviewing(q, a)' <=>
          IF q = r THEN new.kind = "review" /\ new.appeal = a ELSE Reviewing(q, a)
    BY <1>1 DEF Reviewing
  <2> QED
    BY <1>1, <1>2, <2>1, <2>2 DEF OneReview
<1> QED
  BY <1>1, <1>2 DEF VerdictInv

LEMMA ReviewWritesVerdict ==
  ASSUME VerdictInv, AppealInv', NEW r \in Clients, ReviewWrites(r) PROVE VerdictInv'
<1> DEFINE a == request[r].appeal
           basis == score[appeals[a].call]
           row == [Flushed(appeals[a], request[r].loaded,
                           Verdict(request[r].loaded, basis.entries, request[r].confirmed, request[r].dismissed))
                    EXCEPT !.reviewed = NextReview, !.basis = basis]
<1>1. /\ appeals' = [appeals EXCEPT ![a] = row] /\ request' = [request EXCEPT ![r] = Idle]
      /\ UNCHANGED <<score, overlapped>> /\ request[r].kind = "review"
  BY DEF ReviewWrites
<1>2. /\ a \in 1..Len(appeals) /\ Fields \subseteq DOMAIN appeals[a] /\ Fields \subseteq DOMAIN request[r].loaded
      /\ appeals[a].call \in Calls
  BY <1>1 DEF VerdictInv, AppealInv, AppealShapes
<1>3. row.call = appeals[a].call
  BY <1>2, WrittenRow
<1>4. ScoreWhole(basis)
  BY <1>2 DEF VerdictInv
<1>5. a \notin overlapped => RowDecided(row)
  <2> SUFFICES ASSUME a \notin overlapped PROVE RowDecided(row)
    OBVIOUS
  <2>1. request[r].loaded = appeals[a]
    BY <1>1, <1>2 DEF VerdictInv, OneReview, Reviewing
  <2> HIDE DEF a, basis
  <2> QED
    BY <1>2, <1>4, <2>1, VerdictDecides
<1> HIDE DEF row, a
<1>6. PICK Rows : appeals \in Seq(Rows)
  BY DEF VerdictInv, AppealInv, AppealShapes
<1>7. appeals \in Seq(Rows \cup {row})
  BY <1>6, SeqMonotonic
<1>8. /\ Len(appeals') = Len(appeals)
      /\ \A i \in 1..Len(appeals) : appeals'[i] = IF i = a THEN row ELSE appeals[i]
  BY <1>1, <1>2, <1>7, ExceptSeq
<1>9. \A q \in Clients : request'[q] = IF q = r THEN Idle ELSE request[q]
  BY <1>1 DEF VerdictInv, AppealInv, AppealShapes
<1>10. ASSUME NEW i \in 1..Len(appeals) \ overlapped PROVE RowDecided(appeals'[i]) /\ OneReview(i)'
  <2>1. RowDecided(appeals[i]) /\ OneReview(i)
    BY <1>10 DEF VerdictInv
  <2>2. \A q \in Clients : Reviewing(q, i)' <=> q # r /\ Reviewing(q, i)
    BY <1>9, IdleKind DEF Reviewing
  <2>3. Reviewing(r, a)
    BY <1>1 DEF Reviewing, a
  <2>4. RowDecided(appeals'[i])
    BY <1>5, <1>8, <1>10, <2>1
  <2>5. CASE i = a
    <3>1. \A q \in Clients : ~Reviewing(q, i)'
      BY <2>1, <2>2, <2>3, <2>5 DEF OneReview
    <3> QED
      BY <2>4, <3>1 DEF OneReview
  <2>6. CASE i # a
    BY <1>8, <1>9, <1>10, <2>1, <2>2, <2>4, <2>6 DEF OneReview
  <2> QED
    BY <2>5, <2>6
<1>11. \A i \in 1..Len(appeals') : appeals'[i].call \in Calls
  BY <1>2, <1>3, <1>8 DEF VerdictInv
<1> QED
  BY <1>1, <1>8, <1>9, <1>10, <1>11, IdleKind DEF VerdictInv

LEMMA FileInsertsVerdict ==
  ASSUME VerdictInv, AppealInv', NEW r \in Clients, FileInserts(r) PROVE VerdictInv'
<1>1. PICK row : /\ appeals' = Append(appeals, row) /\ row.call = request[r].call
                 /\ row.status = "pending" /\ row.confirmed = {} /\ row.override = NoPercent /\ row.dismissed = {}
  BY DEF FileInserts
<1>2. PICK Rows : appeals \in Seq(Rows)
  BY DEF VerdictInv, AppealInv, AppealShapes
<1>3. appeals \in Seq(Rows \cup {row})
  BY <1>2, SeqMonotonic
<1>4. /\ Len(appeals') = Len(appeals) + 1 /\ Len(appeals) \in Nat
      /\ \A i \in 1..Len(appeals) : appeals'[i] = appeals[i]
      /\ appeals'[Len(appeals) + 1] = row
  BY <1>1, <1>3
<1>5. /\ request' = [request EXCEPT ![r] = Idle] /\ UNCHANGED <<score, overlapped>>
      /\ request[r].call \in Calls
  BY DEF FileInserts, VerdictInv
<1>6. \A q \in Clients : request'[q] = IF q = r THEN Idle ELSE request[q]
  BY <1>5 DEF VerdictInv, AppealInv, AppealShapes
<1>7. RowDecided(row)
  BY <1>1 DEF RowDecided
<1>8. \A q \in Clients : \A i : Reviewing(q, i)' => Reviewing(q, i) /\ request'[q] = request[q]
  BY <1>6, IdleKind DEF Reviewing
<1>9. ASSUME NEW i \in 1..Len(appeals') \ overlapped PROVE RowDecided(appeals'[i]) /\ OneReview(i)'
  <2>1. CASE i \in 1..Len(appeals)
    BY <1>4, <1>8, <1>9, <2>1 DEF VerdictInv, OneReview
  <2>2. CASE i = Len(appeals) + 1
    <3>1. \A q \in Clients : ~Reviewing(q, i)
      BY <1>4, <2>2 DEF VerdictInv, AppealInv, AppealShapes, Reviewing
    <3> QED
      BY <1>4, <1>7, <1>8, <2>2, <3>1 DEF OneReview
  <2> QED
    BY <1>4, <1>9, <2>1, <2>2
<1>10. \A i \in 1..Len(appeals') : appeals'[i].call \in Calls
  BY <1>1, <1>4, <1>5 DEF VerdictInv
<1>11. overlapped' \subseteq 1..Len(appeals')
  BY <1>4, <1>5 DEF VerdictInv
<1> QED
  BY <1>5, <1>6, <1>9, <1>10, <1>11, IdleKind DEF VerdictInv

LEMMA VerdictStart == AppealsInit => VerdictInv
<1> SUFFICES ASSUME AppealsInit PROVE VerdictInv
  OBVIOUS
<1>1. ScoreWhole(ScoreRow(OldEntries, TRUE, TRUE, Flags))
  BY RowWhole, AppealsAssumption DEF AppealsAssumption
<1>2. DOMAIN score = Calls /\ \A c \in Calls : ScoreWhole(score[c])
  BY <1>1, NoScoreWhole DEF AppealsInit
<1>3. Len(appeals) = 0 /\ overlapped = {}
  BY DEF AppealsInit
<1>4. \A r \in Clients : request[r].kind = "none"
  BY IdleKind DEF AppealsInit
<1> QED
  BY <1>2, <1>3, <1>4, AppealStart DEF VerdictInv

LEMMA VerdictStep == VerdictInv /\ [AppealsNext]_appealVars => VerdictInv'
<1> SUFFICES ASSUME VerdictInv, [AppealsNext]_appealVars PROVE VerdictInv'
  OBVIOUS
<1>1. AppealInv'
  BY AppealStep DEF VerdictInv
<1>2. CASE UNCHANGED appealVars
  BY <1>1, <1>2 DEF appealVars, VerdictInv, OneReview, Reviewing
<1>3. ASSUME NEW c \in Calls, CallScored(c) PROVE VerdictInv'
  <2>1. PICK row \in NewScores : score' = [score EXCEPT ![c] = row]
    BY <1>3 DEF CallScored
  <2>2. DOMAIN score' = Calls /\ \A d \in Calls : score'[d] = IF d = c THEN row ELSE score[d]
    BY <2>1 DEF VerdictInv
  <2>3. \A d \in Calls : ScoreWhole(score'[d])
    BY <2>2, NewScoresWhole DEF VerdictInv
  <2> QED
    BY <1>1, <1>3, <2>2, <2>3 DEF CallScored, VerdictInv, OneReview, Reviewing
<1>4. ASSUME NEW r \in Clients, RequestFails(r) PROVE VerdictInv'
  <2>1. request' = [request EXCEPT ![r] = Idle] /\ UNCHANGED <<appeals, score, overlapped>>
    BY <1>4 DEF RequestFails
  <2> QED
    BY <1>1, <2>1, IdleKind, RequestKeepsVerdicts DEF VerdictInv
<1>5. ASSUME NEW r \in Clients, NEW who, NEW a \in 1..Len(appeals), NEW confirmed, NEW dismissed,
             ReviewLoads(r, who, a, confirmed, dismissed)
      PROVE  VerdictInv'
  <2> DEFINE new == [kind |-> "review", appeal |-> a, loaded |-> appeals[a],
                     confirmed |-> confirmed, dismissed |-> dismissed]
  <2>1. request' = [request EXCEPT ![r] = new] /\ UNCHANGED <<appeals, score>>
    BY <1>5 DEF ReviewLoads
  <2>2. new.kind = "review" /\ new.appeal = a /\ new.loaded = appeals[a]
    OBVIOUS
  <2>3. overlapped' = IF \E o \in Clients \ {r} : Reviewing(o, a) THEN overlapped \cup {a} ELSE overlapped
    BY <1>5 DEF ReviewLoads, Reviewing
  <2> HIDE DEF new
  <2> QED
    BY <1>1, <2>1, <2>2, <2>3, RequestKeepsVerdicts DEF VerdictInv
<1>6. ASSUME NEW r \in Clients, NEW who, NEW c \in Calls, NEW disputed, FileChecks(r, who, c, disputed)
      PROVE  VerdictInv'
  <2> DEFINE new == [kind |-> "file", call |-> c, disputed |-> disputed,
                     dept |-> DeptOf(CallManager[c]), at |-> begun + 1]
  <2>1. request' = [request EXCEPT ![r] = new] /\ UNCHANGED <<appeals, score, overlapped>>
    BY <1>6 DEF FileChecks
  <2>2. new.kind = "file" /\ new.call = c
    OBVIOUS
  <2> HIDE DEF new
  <2> QED
    BY <1>1, <2>1, <2>2, RequestKeepsVerdicts DEF VerdictInv
<1>7. ASSUME NEW r \in Clients, FileInserts(r) PROVE VerdictInv'
  BY <1>1, <1>7, FileInsertsVerdict
<1>8. ASSUME NEW r \in Clients, ReviewWrites(r) PROVE VerdictInv'
  BY <1>1, <1>8, ReviewWritesVerdict
<1> QED
  BY <1>2, <1>3, <1>4, <1>5, <1>6, <1>7, <1>8 DEF AppealsNext

(* An appeal is accepted exactly when something is confirmed and a corrected       *)
(* percent stands, no lower than the one it corrects; a rejection leaves neither   *)
(* percent nor dismissed flags: for every rubric, every marking of it and every    *)
(* sequence of reviews and re-scorings, unless two reviews overlapped.              *)
THEOREM AppealsVerdictWhole == AppealsSpec => []VerdictWhole
<1>1. VerdictInv => VerdictWhole
  BY DEF VerdictInv, RowDecided, VerdictWhole
<1> QED
  BY <1>1, VerdictStart, VerdictStep, PTL DEF AppealsSpec

-----------------------------------------------------------------------------
(***************************************************************************)
(* What the screens make of it.  The newest row of a finite set exists; of *)
(* a call no reviews overlapped on, whose latest appeal decides it, the    *)
(* percent above is recomputed from the elements below, and that is what   *)
(* these add up to once the confirmed ones stand at full marks.            *)
(***************************************************************************)
LEMMA NewestOf ==
  ASSUME NEW S \in SUBSET Nat, IsFiniteSet(S), S # {}, NEW f, \A x \in S : f[x] \in Nat
  PROVE  \E i \in S : \A j \in S : f[j] < f[i] \/ (f[j] = f[i] /\ j <= i)
<1> DEFINE Has(s) == \E i \in s : \A j \in s : f[j] < f[i] \/ (f[j] = f[i] /\ j <= i)
           Bad == {s \in SUBSET S : s # {} /\ ~Has(s)}
<1>1. Bad = {}
  <2> SUFFICES ASSUME Bad # {} PROVE FALSE
    OBVIOUS
  <2>1. PICK s \in Bad : \A x \in s : s \ {x} \notin Bad
    <3>1. Bad \in SUBSET SUBSET S
      OBVIOUS
    <3> HIDE DEF Bad
    <3> QED
      BY <3>1, SmallestSet
  <2>2. PICK x \in s : TRUE
    OBVIOUS
  <2>3. CASE s = {x}
    BY <2>2, <2>3
  <2>4. CASE s # {x}
    <3>1. s \ {x} # {} /\ s \ {x} \in SUBSET S
      BY <2>2, <2>4
    <3>2. PICK y \in s \ {x} : \A j \in s \ {x} : f[j] < f[y] \/ (f[j] = f[y] /\ j <= y)
      BY <2>1, <2>2, <3>1
    <3>3. \A j \in s : j \in Nat /\ f[j] \in Nat
      OBVIOUS
    <3> HIDE DEF Bad
    <3>4. CASE f[x] < f[y] \/ (f[x] = f[y] /\ x <= y)
      BY <3>2, <3>4 DEF Bad
    <3>5. CASE ~(f[x] < f[y] \/ (f[x] = f[y] /\ x <= y))
      <4>1. \A j \in s : f[j] < f[x] \/ (f[j] = f[x] /\ j <= x)
        BY <2>2, <3>2, <3>3, <3>5
      <4> QED
        BY <2>2, <4>1 DEF Bad
    <3> QED
      BY <3>4, <3>5
  <2> QED
    BY <2>3, <2>4
<1> QED
  BY <1>1

(* Confirmed elements at full marks: what the recomputed percent counts. *)
LEMMA ShownAddsUp ==
  ASSUME NEW entries, WellMarked(entries), NEW confirmed
  PROVE  AssembledPercent(Awarded(entries, confirmed)) = RecomputedPercent(entries, confirmed)
<1> DEFINE S == DOMAIN entries
           shown == Awarded(entries, confirmed)
           yes == {c \in S : c \in confirmed \/ entries[c].score >= 1}
<1>1. DOMAIN shown = S
  BY DEF Awarded
<1>2. \A c \in S : /\ entries[c].score \in Nat /\ entries[c].max \in Nat \ {0} /\ entries[c].score <= entries[c].max
                   /\ shown[c].max = entries[c].max
                   /\ shown[c].score = IF c \in confirmed THEN entries[c].max ELSE entries[c].score
  BY DEF Awarded, WellMarked
<1>3. MaxOf(shown) = MaxOf(entries)
  <2>1. [c \in DOMAIN shown |-> shown[c].max] = [c \in DOMAIN entries |-> entries[c].max]
    <3> HIDE DEF shown
    <3> QED
      BY <1>1, <1>2
  <2> HIDE DEF shown
  <2> QED
    BY <1>1, <2>1, Zenon DEF MaxOf
<1>4. CASE S = {}
  BY <1>1, <1>4 DEF AssembledPercent, RecomputedPercent
<1>5. CASE S # {} /\ ~IsBinary(entries)
  BY <1>1, <1>3, <1>5 DEF AssembledPercent, RecomputedPercent
<1>6. CASE S # {} /\ IsBinary(entries)
  <2> DEFINE marks == [c \in S |-> shown[c].score]
             max == [c \in S |-> entries[c].max]
  <2>1. IsFiniteSet(S)
    BY DEF WellMarked
  <2>2. \A c \in S : entries[c].max = 1
    BY <1>6 DEF IsBinary
  <2>3. \A c \in S : marks[c] = (IF c \in yes THEN 1 ELSE 0) /\ max[c] = IF c \in S THEN 1 ELSE 0
    <3> HIDE DEF shown
    <3> QED
      BY <1>2, <2>2
  <2>4. PointsOf(shown) = SumFunctionOnSet(marks, S)
    <3> HIDE DEF shown
    <3> QED
      BY <1>1 DEF PointsOf
  <2>5. MaxOf(entries) = SumFunctionOnSet(max, S)
    BY DEF MaxOf
  <2>6. yes \in SUBSET S
    OBVIOUS
  <2>7. RecomputedPercent(entries, confirmed) = Hundredths(Cardinality(yes), Cardinality(S))
    BY <1>6 DEF RecomputedPercent
  <2>8. AssembledPercent(shown) = Hundredths(PointsOf(shown), MaxOf(shown))
    BY <1>1, <1>6 DEF AssembledPercent
  <2> HIDE DEF S, shown, yes, marks, max
  <2>9. SumFunctionOnSet(marks, S) = Cardinality(yes)
    BY <2>1, <2>3, <2>6, SumCounts
  <2>10. SumFunctionOnSet(max, S) = Cardinality(S)
    BY <2>1, <2>3, SumCounts
  <2>11. AssembledPercent(shown) = RecomputedPercent(entries, confirmed)
    BY <1>3, <2>4, <2>5, <2>7, <2>8, <2>9, <2>10
  <2> QED
    BY <2>11 DEF shown
<1> QED
  BY <1>4, <1>5, <1>6

(* What orders the appeals of a call: when each was filed and when it was decided. *)
Dated ==
  /\ begun \in Nat
  /\ \A r \in Clients : request[r].kind = "file" => request[r].at \in Nat
  /\ \A i \in 1..Len(appeals) : appeals[i].created \in Nat /\ appeals[i].reviewed \in Nat

(* A corrected percent is a number or none, whatever reviews overlapped on it. *)
Priced ==
  /\ \A i \in 1..Len(appeals) : appeals[i].override \in Int
  /\ \A r \in Clients : request[r].kind = "review" => request[r].loaded.override \in Int

CabinetInv == VerdictInv /\ Dated /\ Priced

LEMMA NextReviewDated == ASSUME VerdictInv, Dated PROVE NextReview \in Nat
<1> DEFINE S == 1..Len(appeals)
           on == [i \in S |-> appeals[i].reviewed]
           dates == {0} \cup {appeals[i].reviewed : i \in S}
<1>1. Len(appeals) \in Nat
  BY DEF VerdictInv, AppealInv, AppealShapes
<1>2. \A i \in S : on[i] \in Nat /\ on[i] = appeals[i].reviewed
  BY DEF Dated
<1>3. \E x \in dates : \A y \in dates : x >= y
  <2>1. CASE S = {}
    BY <2>1
  <2>2. CASE S # {}
    <3>1. PICK i \in S : \A j \in S : on[j] < on[i] \/ (on[j] = on[i] /\ j <= i)
      <4>1. S \in SUBSET Nat /\ IsFiniteSet(S)
        BY <1>1, FS_Interval
      <4> HIDE DEF S, on
      <4> QED
        BY <1>2, <2>2, <4>1, NewestOf
    <3>2. appeals[i].reviewed \in dates /\ appeals[i].reviewed \in Nat
      BY <1>2
    <3>3. \A j \in S : appeals[i].reviewed >= appeals[j].reviewed
      BY <1>2, <3>1
    <3> QED
      BY <3>2, <3>3
  <2> QED
    BY <2>1, <2>2
<1>4. Max(dates) \in dates
  <2> HIDE DEF dates
  <2> QED
    BY <1>3 DEF Max
<1>5. dates \subseteq Nat
  BY DEF Dated
<1>6. \A n \in dates : 1 + n \in Nat
  BY <1>5
<1> HIDE DEF dates
<1>7. 1 + Max(dates) \in Nat
  BY <1>4, <1>6
<1> QED
  BY <1>7 DEF NextReview, dates

LEMMA CabinetStep == CabinetInv /\ [AppealsNext]_appealVars => CabinetInv'
<1> SUFFICES ASSUME CabinetInv, [AppealsNext]_appealVars PROVE CabinetInv'
  OBVIOUS
<1>1. VerdictInv /\ VerdictInv' /\ Dated /\ Priced
  BY VerdictStep DEF CabinetInv
<1>2. DOMAIN request = Clients /\ \E Rows : appeals \in Seq(Rows)
  BY <1>1 DEF VerdictInv, AppealInv, AppealShapes
<1>3. CASE UNCHANGED <<request, begun, appeals>>
  BY <1>1, <1>3 DEF CabinetInv, Dated, Priced
<1>4. ASSUME NEW r \in Clients, RequestFails(r) PROVE CabinetInv'
  <2>1. \A q \in Clients : request'[q].kind \in {"file", "review"} => request'[q] = request[q]
    BY <1>2, <1>4, IdleKind DEF RequestFails
  <2> QED
    BY <1>1, <1>4, <2>1 DEF RequestFails, CabinetInv, Dated, Priced
<1>5. ASSUME NEW r \in Clients, NEW who, NEW a \in 1..Len(appeals), NEW confirmed, NEW dismissed,
             ReviewLoads(r, who, a, confirmed, dismissed)
      PROVE  CabinetInv'
  <2>1. \A q \in Clients : request'[q].kind = "file" => request'[q] = request[q]
    BY <1>2, <1>5 DEF ReviewLoads
  <2>2. \A q \in Clients : request'[q] = request[q] \/ request'[q].loaded = appeals[a]
    BY <1>2, <1>5 DEF ReviewLoads
  <2> QED
    BY <1>1, <1>5, <2>1, <2>2 DEF ReviewLoads, CabinetInv, Dated, Priced
<1>6. ASSUME NEW r \in Clients, NEW who, NEW c \in Calls, NEW disputed, FileChecks(r, who, c, disputed)
      PROVE  CabinetInv'
  <2>1. \A q \in Clients : \/ request'[q] = request[q]
                           \/ request'[q].kind = "file" /\ request'[q].at = begun + 1
    BY <1>2, <1>6 DEF FileChecks
  <2> QED
    BY <1>1, <1>6, <2>1 DEF FileChecks, CabinetInv, Dated, Priced
<1>7. ASSUME NEW r \in Clients, FileInserts(r) PROVE CabinetInv'
  <2>1. PICK row : appeals' = Append(appeals, row) /\ row.created = request[r].at /\ row.reviewed = 0
              /\ row.override = NoPercent
    BY <1>7 DEF FileInserts
  <2>2. PICK Rows : appeals \in Seq(Rows)
    BY <1>2
  <2>3. appeals \in Seq(Rows \cup {row})
    BY <2>2, SeqMonotonic
  <2>4. \A i \in 1..Len(appeals') : appeals'[i] = IF i = Len(appeals) + 1 THEN row ELSE appeals[i]
    BY <2>1, <2>3
  <2>5. Len(appeals') = Len(appeals) + 1 /\ Len(appeals) \in Nat
    BY <2>1, <2>3
  <2>6. row.created \in Nat /\ row.reviewed \in Nat /\ row.override \in Int
    BY <1>1, <1>7, <2>1 DEF FileInserts, Dated, NoPercent
  <2>7. \A q \in Clients : request'[q].kind \in {"file", "review"} => request'[q] = request[q]
    BY <1>2, <1>7, IdleKind DEF FileInserts
  <2>8. \A i \in 1..Len(appeals') :
          appeals'[i].created \in Nat /\ appeals'[i].reviewed \in Nat /\ appeals'[i].override \in Int
    BY <1>1, <2>4, <2>5, <2>6 DEF Dated, Priced
  <2> QED
    BY <1>1, <1>7, <2>7, <2>8 DEF FileInserts, CabinetInv, Dated, Priced
<1>8. ASSUME NEW r \in Clients, ReviewWrites(r) PROVE CabinetInv'
  <2> DEFINE a == request[r].appeal
             row == [Flushed(appeals[a], request[r].loaded,
                             Verdict(request[r].loaded, score[appeals[a].call].entries,
                                     request[r].confirmed, request[r].dismissed))
                      EXCEPT !.reviewed = NextReview, !.basis = score[appeals[a].call]]
  <2>1. appeals' = [appeals EXCEPT ![a] = row] /\ request' = [request EXCEPT ![r] = Idle]
    BY <1>8 DEF ReviewWrites
  <2>2. a \in 1..Len(appeals) /\ Fields \subseteq DOMAIN appeals[a] /\ Fields \subseteq DOMAIN request[r].loaded
    BY <1>1, <1>8 DEF VerdictInv, AppealInv, AppealShapes, ReviewWrites
  <2>3. /\ row.created = appeals[a].created /\ row.reviewed = NextReview
        /\ row.override \in {appeals[a].override, NoPercent,
                             RecomputedPercent(score[appeals[a].call].entries, request[r].confirmed)}
    BY <2>2, WrittenRow
  <2>9. RecomputedPercent(score[appeals[a].call].entries, request[r].confirmed) \in Nat
    BY <1>1, <2>2, CorrectionRaises DEF VerdictInv, ScoreWhole
  <2> HIDE DEF row, a
  <2>4. PICK Rows : appeals \in Seq(Rows)
    BY <1>2
  <2>5. appeals \in Seq(Rows \cup {row})
    BY <2>4, SeqMonotonic
  <2>6. /\ Len(appeals') = Len(appeals)
        /\ \A i \in 1..Len(appeals) : appeals'[i] = IF i = a THEN row ELSE appeals[i]
    BY <2>1, <2>2, <2>5, ExceptSeq
  <2>7. \A i \in 1..Len(appeals') :
          appeals'[i].created \in Nat /\ appeals'[i].reviewed \in Nat /\ appeals'[i].override \in Int
    BY <1>1, <2>2, <2>3, <2>6, <2>9, NextReviewDated DEF Dated, Priced, NoPercent
  <2>8. \A q \in Clients : request'[q].kind \in {"file", "review"} => request'[q] = request[q]
    BY <1>2, <2>1, IdleKind
  <2> QED
    BY <1>1, <1>8, <2>7, <2>8 DEF ReviewWrites, CabinetInv, Dated, Priced
<1>9. ASSUME NEW c \in Calls, CallScored(c) PROVE CabinetInv'
  BY <1>3, <1>9 DEF CallScored
<1> QED
  BY <1>3, <1>4, <1>5, <1>6, <1>7, <1>8, <1>9 DEF AppealsNext, appealVars

LEMMA CabinetStart == AppealsInit => CabinetInv
<1> SUFFICES ASSUME AppealsInit PROVE CabinetInv
  OBVIOUS
<1>1. Len(appeals) = 0 /\ begun = 0
  BY DEF AppealsInit
<1>2. \A r \in Clients : request[r].kind = "none"
  BY IdleKind DEF AppealsInit
<1> QED
  BY <1>1, <1>2, VerdictStart DEF CabinetInv, Dated, Priced

-----------------------------------------------------------------------------
LEMMA AppealsFinite ==
  ASSUME CabinetInv, NEW c
  PROVE  /\ AppealsOf(c) \in SUBSET (Nat \ {0}) /\ IsFiniteSet(AppealsOf(c))
         /\ AppealsOf(c) \subseteq 1..Len(appeals)
<1>1. Len(appeals) \in Nat
  BY DEF CabinetInv, VerdictInv, AppealInv, AppealShapes
<1>2. AppealsOf(c) \in SUBSET (1..Len(appeals))
  BY DEF AppealsOf
<1>3. IsFiniteSet(1..Len(appeals))
  BY <1>1, FS_Interval
<1>4. IsFiniteSet(AppealsOf(c))
  BY <1>2, <1>3, FS_Subset
<1> QED
  BY <1>1, <1>2, <1>4

LEMMA LastOnesExist ==
  ASSUME CabinetInv, NEW c, NEW ids \in SUBSET AppealsOf(c), ids # {}
  PROVE  LastReviewed(ids) \in ids /\ LastCreated(ids) \in ids
<1> DEFINE reviewed == [i \in ids |-> appeals[i].reviewed]
           created == [i \in ids |-> appeals[i].created]
<1>1. ids \in SUBSET Nat /\ IsFiniteSet(ids)
  BY AppealsFinite, FS_Subset
<1>2. \A i \in ids : /\ reviewed[i] \in Nat /\ reviewed[i] = appeals[i].reviewed
                     /\ created[i] \in Nat /\ created[i] = appeals[i].created
  BY AppealsFinite DEF CabinetInv, Dated
<1> HIDE DEF reviewed, created
<1>3. \E i \in ids : \A j \in ids : reviewed[j] < reviewed[i] \/ (reviewed[j] = reviewed[i] /\ j <= i)
  BY <1>1, <1>2, NewestOf
<1>4. \E i \in ids : \A j \in ids : created[j] < created[i] \/ (created[j] = created[i] /\ j <= i)
  BY <1>1, <1>2, NewestOf
<1> QED
  BY <1>2, <1>3, <1>4 DEF LastReviewed, LastCreated

(* The elements on the feedback screen are those of the score, or with the ones *)
(* that an accepted appeal confirmed at full marks.                              *)
LEMMA WhatIsShown ==
  ASSUME CabinetInv, NEW c \in ScoredCalls
  PROVE  /\ WellMarked(score[c].entries) /\ score[c].percent = AssembledPercent(score[c].entries)
         /\ DOMAIN ShownEntries(c) = DOMAIN score[c].entries
         /\ \A x \in DOMAIN score[c].entries :
              /\ ShownEntries(c)[x].max = score[c].entries[x].max
              /\ ShownEntries(c)[x].score \in {score[c].entries[x].score, score[c].entries[x].max}
         /\ AcceptedOn(c) = {} => ShownEntries(c) = score[c].entries
<1>1. c \in Calls /\ score[c] # NoScore
  BY DEF ScoredCalls
<1>2. WellMarked(score[c].entries) /\ score[c].percent = AssembledPercent(score[c].entries)
  BY <1>1 DEF CabinetInv, VerdictInv, ScoreWhole
<1>3. ASSUME LatestAppeal(c) # 0 PROVE LatestAppeal(c) \in AppealsOf(c)
  BY <1>3, LastOnesExist DEF LatestAppeal
<1>4. AcceptedOn(c) = {} => ShownEntries(c) = score[c].entries
  BY <1>3 DEF ShownEntries, AcceptedOn
<1>5. ASSUME NEW confirmed
      PROVE  /\ DOMAIN Awarded(score[c].entries, confirmed) = DOMAIN score[c].entries
             /\ \A x \in DOMAIN score[c].entries :
                  /\ Awarded(score[c].entries, confirmed)[x].max = score[c].entries[x].max
                  /\ Awarded(score[c].entries, confirmed)[x].score
                       \in {score[c].entries[x].score, score[c].entries[x].max}
  BY <1>2 DEF Awarded, WellMarked
<1>6. ShownEntries(c) = score[c].entries \/ \E confirmed : ShownEntries(c) = Awarded(score[c].entries, confirmed)
  BY DEF ShownEntries
<1>7. /\ DOMAIN ShownEntries(c) = DOMAIN score[c].entries
      /\ \A x \in DOMAIN score[c].entries :
           /\ ShownEntries(c)[x].max = score[c].entries[x].max
           /\ ShownEntries(c)[x].score \in {score[c].entries[x].score, score[c].entries[x].max}
  BY <1>5, <1>6
<1> QED
  BY <1>2, <1>4, <1>7

(* service.py:1088: the breakdown "stays consistent with the corrected headline *)
(* percent", for every rubric and every history of appeals and re-scorings.      *)
LEMMA ShownMatches ==
  ASSUME CabinetInv, NEW c \in ScoredCalls, Undisturbed(c),
         CorrectingOn(c) # {} => appeals[LastReviewed(CorrectingOn(c))].basis = score[c]
  PROVE  AssembledPercent(Feedback(c).entries) = Feedback(c).percent
<1>1. Feedback(c).entries = ShownEntries(c) /\ Feedback(c).percent = Corrected(LatestRow(c)).percent
  BY DEF Feedback
<1>2. LatestRow(c).call = c /\ LatestRow(c).percent = score[c].percent
  BY DEF LatestRow
<1>3. Corrected(LatestRow(c)).percent = IF ScoreOverride(c) = NoPercent THEN score[c].percent ELSE ScoreOverride(c)
  BY <1>2 DEF Corrected, LatestRow
<1>4. CASE AcceptedOn(c) = {}
  <2>1. ScoreOverride(c) = NoPercent
    BY <1>4 DEF ScoreOverride, CorrectingOn
  <2> QED
    BY <1>1, <1>3, <1>4, <2>1, WhatIsShown
<1>5. CASE AcceptedOn(c) # {}
  <2>1. AcceptedOn(c) \in SUBSET AppealsOf(c)
    BY DEF AcceptedOn
  <2>2. \A i \in AcceptedOn(c) : i \in 1..Len(appeals) \ overlapped /\ appeals[i].status = "accepted"
    BY AppealsFinite DEF AcceptedOn, Undisturbed
  <2>3. \A i \in AcceptedOn(c) : RowDecided(appeals[i])
    BY <2>2 DEF CabinetInv, VerdictInv
  <2>4. CorrectingOn(c) = AcceptedOn(c)
    BY <2>2, <2>3 DEF CorrectingOn, RowDecided
  <2> DEFINE a == LastReviewed(AcceptedOn(c))
  <2>5. a \in AcceptedOn(c)
    BY <1>5, <2>1, LastOnesExist
  <2>6. a = LatestAppeal(c) /\ a # 0
    BY <1>5, <2>1, <2>5, AppealsFinite DEF Undisturbed
  <2>7. ScoreOverride(c) = appeals[a].override
    BY <1>5, <2>4 DEF ScoreOverride
  <2>8. appeals[a].basis = score[c]
    BY <1>5, <2>4
  <2> HIDE DEF a
  <2>9. /\ appeals[a].status = "accepted" /\ appeals[a].override # NoPercent
        /\ appeals[a].override = RecomputedPercent(score[c].entries, appeals[a].confirmed)
    BY <2>2, <2>3, <2>5, <2>8 DEF RowDecided
  <2>10. ShownEntries(c) = Awarded(score[c].entries, appeals[a].confirmed)
    BY <2>6, <2>9 DEF ShownEntries
  <2>11. AssembledPercent(ShownEntries(c)) = appeals[a].override
    BY <2>9, <2>10, ShownAddsUp, WhatIsShown
  <2> QED
    BY <1>1, <1>3, <2>7, <2>9, <2>11
<1> QED
  BY <1>4, <1>5

(* The breakdown adds up to the headline, and the callback queue holds the calls  *)
(* whose booking element the feedback shows as failed.                             *)
THEOREM BreakdownAddsUp == AppealsSpec => []BreakdownMatchesHeadline
<1>1. ASSUME CabinetInv PROVE BreakdownMatchesHeadline
  <2> SUFFICES ASSUME NEW c \in ScoredCalls
               PROVE  LET full    == Feedback(c)
                          applies == BookedElement \in DOMAIN full.entries /\ IsBinary(full.entries)
                          queued  == c \in NoMeetingQueue(CallManager[c])
                      IN /\ /\ Undisturbed(c)
                            /\ CorrectingOn(c) # {} => appeals[LastReviewed(CorrectingOn(c))].basis = score[c]
                            => AssembledPercent(full.entries) = full.percent
                         /\ score[c].target /\ applies /\ full.entries[BookedElement].score = 0 => queued
                         /\ queued /\ AcceptedOn(c) = {} => full.entries[BookedElement].score = 0
    BY DEF BreakdownMatchesHeadline
  <2>1. Feedback(c).entries = ShownEntries(c)
    BY DEF Feedback
  <2>2. ASSUME score[c].target, BookedElement \in DOMAIN ShownEntries(c), IsBinary(ShownEntries(c)),
               ShownEntries(c)[BookedElement].score = 0
        PROVE  c \in NoMeetingQueue(CallManager[c])
    <3>1. BookedElement \in DOMAIN score[c].entries /\ IsBinary(score[c].entries)
      BY <2>2, <1>1, WhatIsShown DEF IsBinary
    <3>2. score[c].entries[BookedElement].max = 1
      BY <3>1 DEF IsBinary
    <3>3. score[c].entries[BookedElement].score = 0
      BY <1>1, <2>2, <3>1, <3>2, WhatIsShown
    <3> QED
      BY <2>2, <3>1, <3>3 DEF NoMeetingQueue
  <2>3. ASSUME c \in NoMeetingQueue(CallManager[c]), AcceptedOn(c) = {}
        PROVE  ShownEntries(c)[BookedElement].score = 0
    BY <1>1, <2>3, WhatIsShown DEF NoMeetingQueue
  <2> QED
    BY <1>1, <2>1, <2>2, <2>3, ShownMatches
<1> QED
  BY <1>1, CabinetStart, CabinetStep, PTL DEF AppealsSpec

-----------------------------------------------------------------------------
(***************************************************************************)
(* One number everywhere.  The first of two lists are the first of what    *)
(* was first in either: of the items before one that is not, a least one   *)
(* would itself have been among the first.                                 *)
(***************************************************************************)
LEMMA LeadingMerge ==
  ASSUME NEW U, IsFiniteSet(U), NEW A \in SUBSET U, NEW B \in SUBSET U, U = A \cup B, NEW limit \in Nat,
         \A x \in U : ~Before(x, x),
         \A x, y, z \in U : Before(x, y) /\ Before(y, z) => Before(x, z)
  PROVE  Leading(Leading(A, limit) \cup Leading(B, limit), limit) = Leading(U, limit)
<1> DEFINE T == Leading(A, limit) \cup Leading(B, limit)
           Ahead(S, x) == {y \in S : Before(y, x)}
<1>1. T \in SUBSET U
  BY DEF Leading
<1>2. \A S \in SUBSET U : \A x : IsFiniteSet(Ahead(S, x)) /\ Cardinality(Ahead(S, x)) \in Nat
  <2> SUFFICES ASSUME NEW S \in SUBSET U, NEW x
               PROVE  IsFiniteSet(Ahead(S, x)) /\ Cardinality(Ahead(S, x)) \in Nat
    OBVIOUS
  <2>1. Ahead(S, x) \in SUBSET U
    OBVIOUS
  <2> HIDE DEF Ahead
  <2> QED
    BY <2>1, FS_Subset, FS_CardinalityType
<1>3. \A R, S \in SUBSET U : \A x : R \subseteq S => Cardinality(Ahead(R, x)) <= Cardinality(Ahead(S, x))
  <2> SUFFICES ASSUME NEW R \in SUBSET U, NEW S \in SUBSET U, NEW x, R \subseteq S
               PROVE  Cardinality(Ahead(R, x)) <= Cardinality(Ahead(S, x))
    OBVIOUS
  <2>1. Ahead(R, x) \in SUBSET Ahead(S, x)
    OBVIOUS
  <2>2. IsFiniteSet(Ahead(S, x))
    BY <1>2
  <2> HIDE DEF Ahead
  <2> QED
    BY <2>1, <2>2, FS_Subset
<1>4. \A S \in SUBSET U : Leading(S, limit) = {x \in S : Cardinality(Ahead(S, x)) < limit}
  BY DEF Leading
<1>5. Leading(U, limit) \subseteq Leading(T, limit)
  <2> SUFFICES ASSUME NEW x \in U, Cardinality(Ahead(U, x)) < limit PROVE x \in Leading(T, limit)
    <3>1. U \in SUBSET U
      OBVIOUS
    <3> HIDE DEF Ahead, T
    <3> QED
      BY <1>4, <3>1
  <2>1. \A S \in SUBSET U : Cardinality(Ahead(S, x)) < limit
    <3> SUFFICES ASSUME NEW S \in SUBSET U PROVE Cardinality(Ahead(S, x)) < limit
      OBVIOUS
    <3>1. Cardinality(Ahead(S, x)) <= Cardinality(Ahead(U, x))
      BY <1>3
    <3>2. Cardinality(Ahead(S, x)) \in Nat /\ Cardinality(Ahead(U, x)) \in Nat
      BY <1>2
    <3> HIDE DEF Ahead
    <3> QED
      BY <3>1, <3>2
  <2> HIDE DEF Ahead, T
  <2>2. x \in T
    BY <1>4, <2>1 DEF T
  <2> QED
    BY <1>1, <1>4, <2>1, <2>2
<1>6. ASSUME NEW x \in Leading(T, limit) PROVE x \in Leading(U, limit)
  <2>1. x \in T /\ x \in U /\ Cardinality(Ahead(T, x)) < limit
    BY <1>1, <1>4, <1>6
  <2>2. CASE Ahead(U, x) \subseteq T
    <3>1. Ahead(U, x) = Ahead(T, x)
      BY <1>1, <2>2
    <3>2. Cardinality(Ahead(U, x)) < limit
      <4> HIDE DEF Ahead
      <4> QED
        BY <2>1, <3>1
    <3> HIDE DEF Ahead
    <3> QED
      BY <1>4, <2>1, <3>2
  <2>3. CASE ~(Ahead(U, x) \subseteq T)
    <3> DEFINE Left == Ahead(U, x) \ T
               Depths == {n \in Nat : \E y \in Left : Cardinality(Ahead(U, y)) = n}
    <3>1. Left # {} /\ Left \subseteq U
      BY <2>3
    <3>2. PICK n \in Depths : \A m \in Depths : n <= m
      <4>1. Depths # {} /\ Depths \in SUBSET Nat
        <5> HIDE DEF Ahead, Left
        <5> QED
          BY <1>2, <3>1
      <4> HIDE DEF Depths
      <4> QED
        BY <4>1, LeastNatural
    <3>3. PICK y \in Left : Cardinality(Ahead(U, y)) = n
      BY <3>2
    <3>4. y \in U /\ Before(y, x) /\ y \notin T
      BY <3>3
    <3>5. Ahead(U, y) \subseteq T
      <4> SUFFICES ASSUME NEW z \in Ahead(U, y), z \notin T PROVE FALSE
        OBVIOUS
      <4>1. z \in Left
        BY <2>1, <3>4
      <4>2. Ahead(U, z) \in SUBSET Ahead(U, y) /\ z \in Ahead(U, y) /\ z \notin Ahead(U, z)
        BY <3>4
      <4> HIDE DEF Ahead, Left
      <4>3. Cardinality(Ahead(U, z)) \in Nat /\ Cardinality(Ahead(U, z)) \in Depths
        BY <1>2, <4>1
      <4> HIDE DEF Depths
      <4>4. IsFiniteSet(Ahead(U, y)) /\ Cardinality(Ahead(U, y)) \in Nat
        BY <1>2
      <4>5. Cardinality(Ahead(U, z)) <= Cardinality(Ahead(U, y))
            /\ Cardinality(Ahead(U, z)) # Cardinality(Ahead(U, y))
        BY <4>2, <4>4, FS_Subset
      <4> QED
        BY <3>2, <3>3, <4>3, <4>4, <4>5
    <3>6. Ahead(U, y) \subseteq Ahead(T, x)
      BY <2>1, <3>4, <3>5
    <3> HIDE DEF Left, Depths
    <3>7. PICK S \in {A, B} : y \in S
      BY <3>4
    <3>8. Cardinality(Ahead(S, y)) <= Cardinality(Ahead(T, x))
      <4>1. Ahead(S, y) \in SUBSET Ahead(T, x)
        BY <3>6, <3>7
      <4>2. IsFiniteSet(Ahead(T, x))
        BY <1>1, <1>2
      <4> HIDE DEF Ahead, T
      <4> QED
        BY <4>1, <4>2, FS_Subset
    <3>9. y \in Leading(S, limit)
      <4>1. S \in SUBSET U /\ Cardinality(Ahead(S, y)) \in Nat /\ Cardinality(Ahead(T, x)) \in Nat
        BY <1>1, <1>2, <3>7
      <4> HIDE DEF Ahead, T
      <4>2. Cardinality(Ahead(S, y)) < limit
        BY <2>1, <3>8, <4>1
      <4> QED
        BY <1>4, <3>7, <4>1, <4>2
    <3> QED
      BY <3>4, <3>7, <3>9
  <2> QED
    BY <2>2, <2>3
<1> QED
  BY <1>5, <1>6

(* The feed of a manager: the newest of everything. *)
LEMMA FeedIsNewest ==
  ASSUME NEW m
  PROVE  UnifiedFeed(m, FeedLimit) = Newest(TimedCalls(m) \cup TimedMeetings(m), FeedLimit)
<1> DEFINE A == TimedCalls(m)
           B == TimedMeetings(m)
           U == A \cup B
<1>1. IsFiniteSet(A)
  <2> DEFINE D == {x \in ScoredCalls : CallManager[x] = m}
             f == [c \in D |-> [kind |-> "call", at |-> CallAt[c], place |-> 0, id |-> c]]
  <2>1. D \in SUBSET Calls
    BY DEF ScoredCalls
  <2>2. f \in Surjection(D, A)
    BY DEF TimedCalls, Surjection
  <2> HIDE DEF D, f
  <2> QED
    BY <2>1, <2>2, FS_Subset, FS_Surjection, ScreensAssumption DEF ScreensAssumption
<1>2. IsFiniteSet(B)
  <2> DEFINE D == MeetingsOf(m)
             f == [r \in D |-> [kind |-> "meeting", at |-> r.at, place |-> r.id, id |-> r.id]]
  <2>1. D \in SUBSET MeetingRows
    BY DEF MeetingsOf
  <2>2. f \in Surjection(D, B)
    BY DEF TimedMeetings, Surjection
  <2> HIDE DEF D, f
  <2> QED
    BY <2>1, <2>2, FS_Subset, FS_Surjection, ScreensAssumption DEF ScreensAssumption
<1>3. IsFiniteSet(U)
  <2> HIDE DEF A, B
  <2> QED
    BY <1>1, <1>2, FS_Union
<1>4. \A x \in U : x.at \in Int /\ x.place \in Int /\ x.kind \in {"call", "meeting"}
  BY ScreensAssumption DEF ScreensAssumption, TimedCalls, TimedMeetings, ScoredCalls, MeetingsOf
<1> HIDE DEF U
<1>5. \A x \in U : ~Before(x, x)
  BY <1>4 DEF Before
<1>6. \A x, y, z \in U : Before(x, y) /\ Before(y, z) => Before(x, z)
  BY <1>4 DEF Before
<1>7. A \in SUBSET U /\ B \in SUBSET U /\ U = A \cup B
  BY DEF U
<1> HIDE DEF A, B
<1>8. Leading(Leading(A, FeedLimit) \cup Leading(B, FeedLimit), FeedLimit) = Leading(U, FeedLimit)
  BY <1>3, <1>5, <1>6, <1>7, LeadingMerge, ScreensAssumption DEF ScreensAssumption
<1>9. UnifiedFeed(m, FeedLimit) = InOrder(Leading(Leading(A, FeedLimit) \cup Leading(B, FeedLimit), FeedLimit))
  BY DEF UnifiedFeed, Newest, A, B
<1>10. Newest(TimedCalls(m) \cup TimedMeetings(m), FeedLimit) = InOrder(Leading(U, FeedLimit))
  BY DEF Newest, A, B, U
<1> QED
  BY <1>8, <1>9, <1>10

(* What is counted in parts is counted whole. *)
LEMMA SumOfParts ==
  ASSUME NEW D, IsFiniteSet(D), NEW R, IsFiniteSet(R), NEW f, NEW class, \A r \in R : class[r] \in D,
         NEW part, \A x \in D : f[x] = Cardinality(part[x]),
         \A x \in D : \A r : r \in part[x] <=> r \in R /\ class[r] = x
  PROVE  SumFunctionOnSet(f, D) = Cardinality(R)
<1> DEFINE Of(s) == {r \in R : class[r] \in s}
<1>1. PICK F : AddsUp(F, f, SUBSET D) /\ SumFunctionOnSet(f, D) = F[D]
  BY SumIs
<1>2. \A s \in SUBSET D : IsFiniteSet(Of(s)) /\ Cardinality(Of(s)) \in Nat
  <2> SUFFICES ASSUME NEW s \in SUBSET D PROVE IsFiniteSet(Of(s)) /\ Cardinality(Of(s)) \in Nat
    OBVIOUS
  <2>1. Of(s) \in SUBSET R
    OBVIOUS
  <2> HIDE DEF Of
  <2> QED
    BY <2>1, FS_Subset, FS_CardinalityType
<1> DEFINE Bad == {s \in SUBSET D : F[s] # Cardinality(Of(s))}
<1>3. Bad = {}
  <2> SUFFICES ASSUME Bad # {} PROVE FALSE
    OBVIOUS
  <2>1. PICK s \in Bad : \A x \in s : s \ {x} \notin Bad
    <3>1. Bad \in SUBSET SUBSET D
      OBVIOUS
    <3> HIDE DEF Bad
    <3> QED
      BY <3>1, SmallestSet
  <2> DEFINE c == Chosen(s)
             t == s \ {c}
  <2>2. F[s] = IF s = {} THEN 0 ELSE f[c] + F[t]
    BY <1>1 DEF AddsUp
  <2>3. s # {}
    <3>1. ASSUME s = {} PROVE FALSE
      <4>1. Of(s) = {}
        BY <3>1
      <4>2. F[s] = 0
        BY <2>2, <3>1
      <4>3. F[s] # Cardinality(Of(s))
        OBVIOUS
      <4> HIDE DEF Of, Bad
      <4> QED
        BY <4>1, <4>2, <4>3, FS_EmptySet
    <3> QED
      BY <3>1
  <2>4. c \in s /\ c \in D
    BY <2>3 DEF Chosen
  <2>5. F[t] = Cardinality(Of(t)) /\ t \in SUBSET D
    BY <2>1, <2>4
  <2> DEFINE P == part[c]
  <2>6. Of(s) = P \cup Of(t) /\ P \cap Of(t) = {} /\ P \in SUBSET R
    BY <2>4
  <2>7. f[c] = Cardinality(P)
    BY <2>4
  <2>8. F[s] = f[c] + F[t] /\ F[s] # Cardinality(Of(s))
    BY <2>2, <2>3
  <2> HIDE DEF c, t, P, Of, Bad
  <2>9. IsFiniteSet(P) /\ IsFiniteSet(Of(t)) /\ Cardinality(P) \in Nat /\ Cardinality(Of(t)) \in Nat
    BY <1>2, <2>5, <2>6, FS_Subset, FS_CardinalityType
  <2>10. Cardinality(P \cup Of(t)) = Cardinality(P) + Cardinality(Of(t)) - Cardinality(P \cap Of(t))
    BY <2>9, FS_Union
  <2>11. Cardinality(P \cap Of(t)) = 0
    BY <2>6, FS_EmptySet
  <2>12. Cardinality(Of(s)) = Cardinality(P) + Cardinality(Of(t))
    <3>1. Cardinality(Of(s)) = Cardinality(P \cup Of(t))
      BY <2>6
    <3> QED
      BY <2>9, <2>10, <2>11, <3>1
  <2> QED
    BY <2>5, <2>7, <2>8, <2>12
<1>4. Of(D) = R /\ D \in SUBSET D
  OBVIOUS
<1>5. F[D] = Cardinality(Of(D))
  BY <1>3
<1> QED
  BY <1>1, <1>4, <1>5

-----------------------------------------------------------------------------
LEMMA CorrectedRow ==
  ASSUME CabinetInv, NEW c \in ScoredCalls
  PROVE  /\ Corrected(LatestRow(c)).call = c /\ Corrected(LatestRow(c)).manager = CallManager[c]
         /\ Corrected(LatestRow(c)).dept = DeptOf(CallManager[c])
         /\ Corrected(LatestRow(c)).flags = score[c].flags
         /\ Corrected(LatestRow(c)).percent \in Int
         /\ Corrected(LatestRow(c)).zone = ZoneFor(Corrected(LatestRow(c)).percent)
         /\ CorrectingOn(c) = {} => Corrected(LatestRow(c)) = LatestRow(c)
<1> DEFINE row == LatestRow(c)
<1>1. /\ row.call = c /\ row.manager = CallManager[c] /\ row.dept = DeptOf(CallManager[c])
      /\ row.flags = score[c].flags /\ row.percent = score[c].percent /\ row.zone = score[c].zone
      /\ DOMAIN row = {"call", "manager", "dept", "percent", "zone", "qual", "flags"}
  BY DEF LatestRow
<1>2. score[c].percent \in Int /\ score[c].zone = ZoneFor(score[c].percent)
  <2>1. c \in Calls
    BY DEF ScoredCalls
  <2>2. AssembledPercent(score[c].entries) \in Nat
    BY WhatIsShown, CorrectionRaises
  <2> QED
    BY <2>1, <2>2, WhatIsShown DEF CabinetInv, VerdictInv, ScoreWhole
<1>3. ScoreOverride(c) \in Int
  <2>1. CASE CorrectingOn(c) = {}
    BY <2>1 DEF ScoreOverride, NoPercent
  <2>2. CASE CorrectingOn(c) # {}
    <3>1. CorrectingOn(c) \in SUBSET AppealsOf(c)
      BY DEF CorrectingOn, AcceptedOn
    <3>2. LastReviewed(CorrectingOn(c)) \in 1..Len(appeals)
      BY <2>2, <3>1, LastOnesExist, AppealsFinite
    <3> QED
      BY <2>2, <3>2 DEF ScoreOverride, CabinetInv, Priced
  <2> QED
    BY <2>1, <2>2
<1>4. CorrectingOn(c) = {} => ScoreOverride(c) = NoPercent
  BY DEF ScoreOverride
<1> HIDE DEF row
<1>5. CASE ScoreOverride(c) = NoPercent
  <2>1. Corrected(row) = row
    BY <1>1, <1>5 DEF Corrected
  <2> QED
    BY <1>1, <1>2, <2>1 DEF row
<1>6. CASE ScoreOverride(c) # NoPercent
  <2>1. Corrected(row) = [row EXCEPT !.percent = ScoreOverride(c), !.zone = ZoneFor(ScoreOverride(c))]
    BY <1>1, <1>6 DEF Corrected
  <2>2. /\ Corrected(row).call = row.call /\ Corrected(row).manager = row.manager
        /\ Corrected(row).dept = row.dept /\ Corrected(row).flags = row.flags
        /\ Corrected(row).percent = ScoreOverride(c) /\ Corrected(row).zone = ZoneFor(ScoreOverride(c))
    BY <1>1, <2>1
  <2> QED
    BY <1>1, <1>3, <1>4, <1>6, <2>2 DEF row
<1> QED
  BY <1>5, <1>6

(* One call: the feed, its feedback, the card of the client and the export. *)
LEMMA CallsAgree ==
  ASSUME CabinetInv, NEW c \in ScoredCalls
  PROVE  LET item == FeedItem(Corrected(LatestRow(c)))
             full == Feedback(c)
         IN /\ item.percent = full.percent /\ item.zone = full.zone /\ item.okk5 = full.okk5
            /\ item.zone = ZoneFor(item.percent)
            /\ (item.okk5 >= 4 <=> item.zone = "strong") /\ (item.okk5 = 1 <=> item.zone = "risk")
            /\ Undisturbed(c) => item.flags = full.flags
            /\ \A who \in Identities : CanViewManager(who, CallManager[c]) =>
                 item \in CardCalls(who, CallCard[c], FALSE)
            /\ DeptOf(CallManager[c]) = TmDept => \A e \in ExportDetail(TmDept) :
                 e.call = c => e.percent = full.percent /\ e.zone = full.zone
<1> DEFINE row == Corrected(LatestRow(c))
           item == FeedItem(row)
           full == Feedback(c)
           latest == LatestAppeal(c)
<1>1. row.call = c /\ row.flags = score[c].flags /\ row.percent \in Int /\ row.zone = ZoneFor(row.percent)
  BY CorrectedRow
<1> HIDE DEF row
<1>2. /\ item.percent = row.percent /\ item.zone = row.zone /\ item.okk5 = Okk5(row.percent)
      /\ item.flags = row.flags \ DismissedFlags(c)
  BY <1>1 DEF FeedItem
<1>3. /\ full.percent = row.percent /\ full.zone = row.zone /\ full.okk5 = Okk5(row.percent)
      /\ full.flags = row.flags \ IF latest # 0 /\ appeals[latest].status = "accepted"
                                  THEN appeals[latest].dismissed ELSE {}
  BY DEF Feedback, row
<1>4. (Okk5(row.percent) >= 4 <=> row.zone = "strong") /\ (Okk5(row.percent) = 1 <=> row.zone = "risk")
  BY <1>1 DEF Okk5, ZoneFor, NoPercent
<1>5. ASSUME Undisturbed(c) PROVE item.flags = full.flags
  <2>1. AcceptedOn(c) \in SUBSET AppealsOf(c)
    BY DEF AcceptedOn
  <2>2. CASE AcceptedOn(c) = {}
    <3>1. latest # 0 => latest \in AppealsOf(c)
      BY LastOnesExist DEF LatestAppeal
    <3>2. ~(latest # 0 /\ appeals[latest].status = "accepted")
      BY <2>2, <3>1 DEF AcceptedOn
    <3>3. DismissedFlags(c) = {}
      BY <2>2 DEF DismissedFlags
    <3> HIDE DEF item, full, latest
    <3> QED
      BY <1>2, <1>3, <3>2, <3>3
  <2>3. CASE AcceptedOn(c) # {}
    <3>1. latest = LastReviewed(AcceptedOn(c)) /\ latest \in AcceptedOn(c)
      BY <1>5, <2>1, <2>3, LastOnesExist DEF Undisturbed
    <3>2. latest # 0 /\ appeals[latest].status = "accepted"
      BY <3>1, AppealsFinite DEF AcceptedOn
    <3>3. DismissedFlags(c) = appeals[latest].dismissed
      BY <2>3, <3>1 DEF DismissedFlags
    <3> HIDE DEF item, full, latest
    <3> QED
      BY <1>2, <1>3, <3>2, <3>3
  <2> QED
    BY <2>2, <2>3
<1>6. ASSUME NEW who, CanViewManager(who, CallManager[c]) PROVE item \in CardCalls(who, CallCard[c], FALSE)
  <2>1. CanViewCallRow(who, CallManager[c])
    BY <1>6 DEF CanViewManager, CanViewCallRow
  <2>2. CallCard[c] \in CardPairs(CallCard[c], FALSE)
    BY DEF CardPairs
  <2> QED
    BY <2>1, <2>2 DEF CardCalls, row
<1>7. ASSUME NEW e \in ExportDetail(TmDept), e.call = c PROVE e.percent = full.percent /\ e.zone = full.zone
  <2>1. PICK b \in ScoredCalls : /\ e.call = Corrected(LatestRow(b)).call
                                 /\ e.percent = Corrected(LatestRow(b)).percent
                                 /\ e.zone = Corrected(LatestRow(b)).zone
    BY DEF ExportDetail, ExportCalls, CorrectedRows, DeptRows
  <2>2. b = c
    BY <1>7, <2>1, CorrectedRow
  <2> QED
    BY <1>3, <2>1, <2>2 DEF row
<1> HIDE DEF item, full
<1>8. /\ item.percent = full.percent /\ item.zone = full.zone /\ item.okk5 = full.okk5
      /\ item.zone = ZoneFor(item.percent)
      /\ (item.okk5 >= 4 <=> item.zone = "strong") /\ (item.okk5 = 1 <=> item.zone = "risk")
  BY <1>1, <1>2, <1>3, <1>4
<1>9. /\ Undisturbed(c) => item.flags = full.flags
      /\ \A who \in Identities : CanViewManager(who, CallManager[c]) => item \in CardCalls(who, CallCard[c], FALSE)
      /\ DeptOf(CallManager[c]) = TmDept => \A e \in ExportDetail(TmDept) :
           e.call = c => e.percent = full.percent /\ e.zone = full.zone
  BY <1>5, <1>6, <1>7
<1> QED
  BY <1>8, <1>9 DEF item, full, row

(* The rows of a manager are those of the department that are the manager's. *)
LEMMA OwnRows ==
  ASSUME CabinetInv, NEW m \in Managers, NEW d, d = DeptOf(m), d # None
  PROVE  /\ CorrectedRows(RowsOf(m)) = {r \in CorrectedRows(DeptRows(d)) : r.manager = m}
         /\ (\A r \in MeetingRows : r.uploader = m <=> r.manager = m)
              => MeetingsInPeriod(m) = {r \in DeptMeetings(d) : r.manager = m}
         /\ \A r \in MeetingsInPeriod(m) : r.manager = m => r \in DeptMeetings(d)
<1>1. \A c \in ScoredCalls : /\ Corrected(LatestRow(c)).manager = CallManager[c]
                             /\ LatestRow(c).dept = DeptOf(CallManager[c])
  BY CorrectedRow DEF LatestRow
<1>2. CorrectedRows(RowsOf(m)) = {Corrected(LatestRow(c)) : c \in {x \in ScoredCalls : CallManager[x] = m}}
  BY DEF CorrectedRows, RowsOf
<1>3. CorrectedRows(DeptRows(d)) = {Corrected(LatestRow(c)) : c \in {x \in ScoredCalls : DeptOf(CallManager[x]) = d}}
  BY <1>1 DEF CorrectedRows, DeptRows
<1>4. CorrectedRows(RowsOf(m)) = {r \in CorrectedRows(DeptRows(d)) : r.manager = m}
  BY <1>1, <1>2, <1>3
<1>5. m # None
  BY AccessAssumption DEF AccessAssumption
<1>6. /\ (\A r \in MeetingRows : r.uploader = m <=> r.manager = m)
           => MeetingsInPeriod(m) = {r \in DeptMeetings(d) : r.manager = m}
      /\ \A r \in MeetingsInPeriod(m) : r.manager = m => r \in DeptMeetings(d)
  BY <1>5 DEF MeetingsInPeriod, MeetingsOf, DeptMeetings
<1> QED
  BY <1>4, <1>6

(* The correction of a row leaves it with its manager. *)
LEMMA RowsKeepManagers ==
  ASSUME CabinetInv, NEW d
  PROVE  /\ \A r \in CorrectedRows(DeptRows(d)) : \E q \in DeptRows(d) : r.manager = q.manager
         /\ \A q \in DeptRows(d) : \E r \in CorrectedRows(DeptRows(d)) : r.manager = q.manager
<1>1. \A c \in ScoredCalls : Corrected(LatestRow(c)).manager = LatestRow(c).manager
  BY CorrectedRow DEF LatestRow
<1> QED
  BY <1>1 DEF CorrectedRows, DeptRows

(* What is shown of a set of rows is what counts of it. *)
LEMMA CountedOnly ==
  ASSUME NEW A, NEW B, {r \in A : r.qual} = {r \in B : r.qual}
  PROVE  /\ OkkFromRows(A).n = OkkFromRows(B).n /\ OkkFromRows(A).percent = OkkFromRows(B).percent
         /\ OkkFromRows(A).zone = OkkFromRows(B).zone
<1> DEFINE X == {r \in A : r.qual}
           Y == {r \in B : r.qual}
<1>1. /\ OkkFromRows(A).n = Cardinality(X) /\ OkkFromRows(A).percent = MeanOf(X)
      /\ OkkFromRows(A).zone = ZoneFor(MeanOf(X))
  BY DEF OkkFromRows
<1>2. /\ OkkFromRows(B).n = Cardinality(Y) /\ OkkFromRows(B).percent = MeanOf(Y)
      /\ OkkFromRows(B).zone = ZoneFor(MeanOf(Y))
  BY DEF OkkFromRows
<1>3. X = Y
  OBVIOUS
<1> HIDE DEF X, Y
<1> QED
  BY <1>1, <1>2, <1>3, Zenon

(* One manager: the card, the line of the team and of the export, the feed, the trend *)
(* and the line of the report.                                                         *)
LEMMA CardsAgree ==
  ASSUME CabinetInv, NEW m \in Managers
  PROVE  LET card == Scorecard(m)
             d    == DeptOf(m)
             all  == TimedCalls(m) \cup TimedMeetings(m)
             asUploaded == \A r \in MeetingRows : r.uploader = m <=> r.manager = m
         IN /\ d # None /\ m \in DOMAIN TeamRoster(d) =>
                 card.okk = TeamRoster(d)[m].okk /\ (asUploaded => card = TeamRoster(d)[m])
            /\ d # None /\ OwnLine(m, OnExport(d), ExportName) =>
                 IF d = TmDept THEN ExportSummary(d)[ExportName(m)] = card.okk
                 ELSE asUploaded => ExportSummary(d)[ExportName(m)] = card.meetings
            /\ d \notin {None, TmDept} =>
                 \A r \in MeetingsInPeriod(m) : r.manager = m => MeetingFeedback(r).item \in ExportDetail(d)
            /\ TimedCalls(m) # {} => UnifiedFeed(m, FeedLimit) = Newest(all, FeedLimit)
            /\ Uncorrected(m) => card.okk.percent \in {TrendPoint(m), TrendPoint(m) - 10}
            /\ Uncorrected(m) /\ OwnLine(m, OnReport, ReportName) =>
                 ReportLine(ReportName(m)) =
                   [n |-> card.okk.n, percent |-> card.okk.percent, zone |-> card.okk.zone]
<1> DEFINE d == DeptOf(m)
           card == Scorecard(m)
           rows == CorrectedRows(RowsOf(m))
           asUploaded == \A r \in MeetingRows : r.uploader = m <=> r.manager = m
           Theirs == {r \in CorrectedRows(DeptRows(d)) : r.manager = m}
           Held == {r \in DeptMeetings(d) : r.manager = m}
<1>1. /\ card.okk = OkkFromRows(rows) /\ card.meetings = MeetingsScore(MeetingsInPeriod(m))
      /\ card = [okk |-> OkkFromRows(rows), meetings |-> MeetingsScore(MeetingsInPeriod(m))]
  BY DEF Scorecard, Card
<1>2. d # None => rows = Theirs /\ (asUploaded => MeetingsInPeriod(m) = Held)
  BY OwnRows
<1>3. ASSUME d # None, m \in DOMAIN TeamRoster(d)
      PROVE  card.okk = TeamRoster(d)[m].okk /\ (asUploaded => card = TeamRoster(d)[m])
  <2>1. TeamRoster(d)[m] = [okk |-> OkkFromRows(Theirs), meetings |-> MeetingsScore(Held)]
    BY <1>3 DEF TeamRoster, Card
  <2> HIDE DEF d, card, rows, Theirs, Held, asUploaded
  <2> QED
    BY <1>1, <1>2, <1>3, <2>1
<1>4. ASSUME d # None, OwnLine(m, OnExport(d), ExportName)
      PROVE  IF d = TmDept THEN ExportSummary(d)[ExportName(m)] = card.okk
             ELSE asUploaded => ExportSummary(d)[ExportName(m)] = card.meetings
  <2>1. m \in OnExport(d) /\ \A b \in OnExport(d) : ExportName(b) = ExportName(m) => b = m
    BY <1>4 DEF OwnLine
  <2>2. CASE d = TmDept
    <3> DEFINE Line == {r \in CorrectedRows(DeptRows(d)) : ExportName(r.manager) = ExportName(m)}
    <3>1. OnExport(d) = {r.manager : r \in DeptRows(d)}
      BY <2>2 DEF OnExport
    <3>2. Line = Theirs
      BY <2>1, <3>1, RowsKeepManagers
    <3>3. ExportSummary(d)[ExportName(m)] = OkkFromRows(Line)
      BY <2>1, <2>2, <3>1 DEF ExportSummary, CallSummary
    <3> HIDE DEF d, card, rows, Theirs, Line
    <3> QED
      BY <1>1, <1>2, <1>4, <2>2, <3>2, <3>3
  <2>3. CASE d # TmDept
    <3> DEFINE Line == {r \in DeptMeetings(d) : ExportName(r.manager) = ExportName(m)}
    <3>1. OnExport(d) = {r.manager : r \in DeptMeetings(d)}
      BY <2>3 DEF OnExport
    <3>2. Line = Held
      BY <2>1, <3>1
    <3>3. ExportSummary(d)[ExportName(m)] = MeetingsScore(Line)
      BY <2>1, <2>3, <3>1 DEF ExportSummary, MeetingSummary
    <3> HIDE DEF d, card, rows, Theirs, Held, asUploaded, Line
    <3> QED
      BY <1>1, <1>2, <1>4, <2>3, <3>2, <3>3
  <2> QED
    BY <2>2, <2>3
<1>5. ASSUME d \notin {None, TmDept}, NEW r \in MeetingsInPeriod(m), r.manager = m
      PROVE  MeetingFeedback(r).item \in ExportDetail(d)
  <2>1. r \in DeptMeetings(d)
    BY <1>5, OwnRows
  <2> QED
    BY <1>5, <2>1 DEF MeetingFeedback, ExportDetail, ExportMeetings
<1>6. Uncorrected(m) => rows = RowsOf(m)
  BY CorrectedRow DEF Uncorrected, CorrectedRows, RowsOf
<1>7. ASSUME Uncorrected(m) PROVE card.okk.percent \in {TrendPoint(m), TrendPoint(m) - 10}
  <2> DEFINE Counted == {r \in RowsOf(m) : r.qual}
  <2>1. OkkFromRows(RowsOf(m)).percent = MeanOf(Counted)
    BY DEF OkkFromRows
  <2>2. TrendPoint(m) = SqlMean(SumOf(Counted), Cardinality(Counted))
    BY DEF TrendPoint
  <2> HIDE DEF Counted, card, rows
  <2>3. MeanOf(Counted) \in {TrendPoint(m), TrendPoint(m) - 10}
    BY <2>2 DEF MeanOf, PythonMean
  <2> QED
    BY <1>1, <1>6, <1>7, <2>1, <2>3
<1>8. ASSUME Uncorrected(m), OwnLine(m, OnReport, ReportName)
      PROVE  ReportLine(ReportName(m)) = [n |-> card.okk.n, percent |-> card.okk.percent, zone |-> card.okk.zone]
  <2> DEFINE Line == {r \in ReportRows : ReportName(r.manager) = ReportName(m)}
  <2>1. \A b \in OnReport : ReportName(b) = ReportName(m) => b = m
    BY <1>8 DEF OwnLine
  <2>2. Line = {r \in ReportRows : r.manager = m}
    BY <2>1 DEF OnReport
  <2>3. {r \in Line : r.qual} = {r \in RowsOf(m) : r.qual}
    <3>1. \A c \in ScoredCalls : LatestRow(c).manager = CallManager[c]
      BY DEF LatestRow
    <3> QED
      BY <2>2, <3>1 DEF ReportRows, RowsOf
  <2>4. ReportLine(ReportName(m)) =
          [n |-> OkkFromRows(Line).n, percent |-> OkkFromRows(Line).percent, zone |-> OkkFromRows(Line).zone]
    BY DEF ReportLine
  <2> HIDE DEF Line, card, rows
  <2>5. /\ OkkFromRows(Line).n = OkkFromRows(RowsOf(m)).n
        /\ OkkFromRows(Line).percent = OkkFromRows(RowsOf(m)).percent
        /\ OkkFromRows(Line).zone = OkkFromRows(RowsOf(m)).zone
    BY <2>3, CountedOnly
  <2>6. card.okk = OkkFromRows(RowsOf(m))
    BY <1>1, <1>6, <1>8
  <2> QED
    BY <2>4, <2>5, <2>6
<1> QED
  BY <1>3, <1>4, <1>5, <1>7, <1>8, FeedIsNewest

(* Rows counted by a class of theirs. *)
LEMMA CountedByClass ==
  ASSUME NEW R, IsFiniteSet(R), NEW D, IsFiniteSet(D), NEW class, \A r \in R : class[r] \in D,
         NEW f, \A x \in D : f[x] = Cardinality({r \in R : class[r] = x})
  PROVE  SumFunctionOnSet(f, D) = Cardinality(R)
<1> DEFINE part == [x \in D |-> {r \in R : class[r] = x}]
<1>1. \A x \in D : part[x] = {r \in R : class[r] = x}
  OBVIOUS
<1>2. \A x \in D : \A r : r \in part[x] <=> r \in R /\ class[r] = x
  BY <1>1
<1> HIDE DEF part
<1>3. \A x \in D : f[x] = Cardinality(part[x])
  <2> SUFFICES ASSUME NEW x \in D PROVE f[x] = Cardinality(part[x])
    OBVIOUS
  <2>1. f[x] = Cardinality({r \in R : class[r] = x})
    OBVIOUS
  <2> QED
    BY <1>1, <2>1, Zenon
<1> QED
  BY <1>2, <1>3, SumOfParts

(* The rollup of a department: its managers add up, calls and meetings, and so do the *)
(* lines of its export.                                                                *)
LEMMA TeamAddsUp ==
  ASSUME CabinetInv, NEW d \in Depts
  PROVE  LET roster == TeamRoster(d)
             lines  == ExportSummary(d)
             Total(f) == SumFunctionOnSet(f, DOMAIN f)
         IN /\ TeamGroup(d).okk.n = Total([m \in DOMAIN roster |-> roster[m].okk.n])
            /\ TeamGroup(d).okk.zones["risk"] = Total([m \in DOMAIN roster |-> roster[m].okk.zones["risk"]])
            /\ TeamGroup(d).meetings.n = Total([m \in DOMAIN roster |-> roster[m].meetings.n])
            /\ TeamGroup(d).meetings.passed = Total([m \in DOMAIN roster |-> roster[m].meetings.passed])
            /\ Total([name \in DOMAIN lines |-> lines[name].n]) =
                 IF d = TmDept THEN TeamGroup(d).okk.n ELSE TeamGroup(d).meetings.n
<1> DEFINE Rows == CorrectedRows(DeptRows(d))
           Held == DeptMeetings(d)
           roster == TeamRoster(d)
           lines == ExportSummary(d)
           D == DOMAIN roster
           N == DOMAIN lines
           RowsBy(m) == {r \in Rows : r.manager = m}
           HeldBy(m) == {r \in Held : r.manager = m}
           Counted(rows) == {r \in rows : r.qual}
           AtRisk(rows) == {r \in Counted(rows) : r.zone = "risk"}
           Passed(rows) == {r \in rows : r.passed = "yes"}
<1>1. \A rows : OkkFromRows(rows).n = Cardinality(Counted(rows))
                /\ OkkFromRows(rows).zones["risk"] = Cardinality(AtRisk(rows))
  BY DEF OkkFromRows
<1>2. \A rows : MeetingsScore(rows).n = Cardinality(rows)
                /\ MeetingsScore(rows).passed = Cardinality(Passed(rows))
  BY DEF MeetingsScore
<1>3. D = {r.manager : r \in DeptRows(d) \cup Held}
  BY DEF TeamRoster
<1>4. \A m \in D : roster[m].okk = OkkFromRows(RowsBy(m)) /\ roster[m].meetings = MeetingsScore(HeldBy(m))
  BY DEF TeamRoster, Card
<1>5. TeamGroup(d).okk = OkkFromRows(Rows) /\ TeamGroup(d).meetings = MeetingsScore(Held)
  BY DEF TeamGroup, Card
<1>6. IsFiniteSet(DeptRows(d)) /\ IsFiniteSet(Rows) /\ IsFiniteSet(Held)
  <2> DEFINE C == {c \in ScoredCalls : DeptOf(CallManager[c]) = d}
             f == [c \in C |-> LatestRow(c)]
             g == [r \in DeptRows(d) |-> Corrected(r)]
  <2>1. C \in SUBSET Calls /\ Held \in SUBSET MeetingRows
    BY DEF ScoredCalls, DeptMeetings
  <2>2. f \in Surjection(C, DeptRows(d))
    <3>1. \A c \in ScoredCalls : LatestRow(c).dept = DeptOf(CallManager[c])
      BY DEF LatestRow
    <3> QED
      BY <3>1 DEF DeptRows, Surjection
  <2>3. g \in Surjection(DeptRows(d), Rows)
    BY DEF CorrectedRows, Surjection
  <2> HIDE DEF C, f, g, Held, Rows
  <2>4. IsFiniteSet(C) /\ IsFiniteSet(Held)
    BY <2>1, FS_Subset, ScreensAssumption DEF ScreensAssumption
  <2>5. IsFiniteSet(DeptRows(d))
    BY <2>2, <2>4, FS_Surjection
  <2> QED
    BY <2>3, <2>4, <2>5, FS_Surjection
<1>7. ASSUME NEW S, IsFiniteSet(S), NEW T, NEW f, f \in Surjection(S, T) PROVE IsFiniteSet(T)
  BY <1>7, FS_Surjection
<1>8. IsFiniteSet(D)
  <2> DEFINE S == DeptRows(d) \cup Held
             f == [r \in S |-> r.manager]
  <2>1. f \in Surjection(S, D)
    BY <1>3 DEF Surjection
  <2>2. IsFiniteSet(S)
    <3> HIDE DEF Held
    <3> QED
      BY <1>6, FS_Union
  <2> HIDE DEF f, S, D
  <2> QED
    BY <1>7, <2>1, <2>2
<1>9. \A r \in Rows \cup Held : r.manager \in D
  BY <1>3, RowsKeepManagers
<1>10. IsFiniteSet(N) /\ \A r \in IF d = TmDept THEN Rows ELSE Held : ExportName(r.manager) \in N
  <2> DEFINE S == IF d = TmDept THEN DeptRows(d) ELSE Held
             f == [r \in S |-> ExportName(r.manager)]
  <2>1. N = {ExportName(r.manager) : r \in S}
    BY DEF ExportSummary, CallSummary, MeetingSummary
  <2>2. f \in Surjection(S, N)
    BY <2>1 DEF Surjection
  <2>3. \A r \in IF d = TmDept THEN Rows ELSE Held : ExportName(r.manager) \in N
    BY <2>1, RowsKeepManagers
  <2> HIDE DEF f, N, Rows, Held
  <2>4. IsFiniteSet(S)
    BY <1>6
  <2> HIDE DEF S
  <2>5. IsFiniteSet(N)
    BY <1>7, <2>2, <2>4
  <2> QED
    BY <2>3, <2>5
<1>11. /\ d = TmDept => \A x \in N : lines[x].n = Cardinality({r \in Counted(Rows) : ExportName(r.manager) = x})
       /\ d # TmDept => \A x \in N : lines[x].n = Cardinality({r \in Held : ExportName(r.manager) = x})
  <2>1. ASSUME d = TmDept, NEW x \in N
        PROVE  lines[x].n = Cardinality({r \in Counted(Rows) : ExportName(r.manager) = x})
    <3> DEFINE Line == {r \in Rows : ExportName(r.manager) = x}
    <3>1. lines[x] = OkkFromRows(Line)
      BY <2>1 DEF ExportSummary, CallSummary
    <3>2. Counted(Line) = {r \in Counted(Rows) : ExportName(r.manager) = x}
      OBVIOUS
    <3> HIDE DEF Line, lines, Rows, N
    <3>3. lines[x].n = Cardinality(Counted(Line))
      BY <1>1, <3>1
    <3> HIDE DEF Counted
    <3> QED
      BY <3>2, <3>3, Zenon
  <2>2. ASSUME d # TmDept, NEW x \in N
        PROVE  lines[x].n = Cardinality({r \in Held : ExportName(r.manager) = x})
    <3>1. lines[x] = MeetingsScore({r \in Held : ExportName(r.manager) = x})
      BY <2>2 DEF ExportSummary, MeetingSummary
    <3> HIDE DEF lines, Held, N
    <3> QED
      BY <1>2, <3>1
  <2> QED
    BY <2>1, <2>2
<1> HIDE DEF D, N, Rows, Held, roster, lines
<1>12. \A R : R \in SUBSET Rows \/ R \in SUBSET Held => IsFiniteSet(R)
  BY <1>6, FS_Subset
<1>13. ASSUME NEW R, R \in SUBSET Rows \/ R \in SUBSET Held,
              NEW f, \A m \in D : f[m] = Cardinality({r \in R : r.manager = m})
       PROVE  SumFunctionOnSet(f, D) = Cardinality(R)
  <2> DEFINE class == [r \in R |-> r.manager]
  <2>1. \A r \in R : class[r] \in D
    BY <1>9, <1>13
  <2>2. \A m \in D : {r \in R : class[r] = m} = {r \in R : r.manager = m}
    OBVIOUS
  <2> HIDE DEF class
  <2>3. \A m \in D : f[m] = Cardinality({r \in R : class[r] = m})
    <3> SUFFICES ASSUME NEW m \in D PROVE f[m] = Cardinality({r \in R : class[r] = m})
      OBVIOUS
    <3>1. f[m] = Cardinality({r \in R : r.manager = m})
      BY <1>13
    <3> QED
      BY <2>2, <3>1, Zenon
  <2> QED
    BY <1>8, <1>12, <1>13, <2>1, <2>3, CountedByClass
<1>14. ASSUME NEW R, R \in SUBSET IF d = TmDept THEN Rows ELSE Held,
              NEW f, \A x \in N : f[x] = Cardinality({r \in R : ExportName(r.manager) = x})
       PROVE  SumFunctionOnSet(f, N) = Cardinality(R)
  <2> DEFINE class == [r \in R |-> ExportName(r.manager)]
  <2>1. \A r \in R : class[r] \in N
    BY <1>10, <1>14
  <2>2. \A x \in N : {r \in R : class[r] = x} = {r \in R : ExportName(r.manager) = x}
    OBVIOUS
  <2> HIDE DEF class
  <2>3. \A x \in N : f[x] = Cardinality({r \in R : class[r] = x})
    <3> SUFFICES ASSUME NEW x \in N PROVE f[x] = Cardinality({r \in R : class[r] = x})
      OBVIOUS
    <3>1. f[x] = Cardinality({r \in R : ExportName(r.manager) = x})
      BY <1>14
    <3> QED
      BY <2>2, <3>1, Zenon
  <2>4. IsFiniteSet(R)
    BY <1>12, <1>14
  <2>5. IsFiniteSet(N)
    BY <1>10
  <2> QED
    BY <2>1, <2>3, <2>4, <2>5, CountedByClass
<1>15. \A m : /\ Counted(RowsBy(m)) = {r \in Counted(Rows) : r.manager = m}
              /\ AtRisk(RowsBy(m)) = {r \in AtRisk(Rows) : r.manager = m}
              /\ HeldBy(m) = {r \in Held : r.manager = m}
              /\ Passed(HeldBy(m)) = {r \in Passed(Held) : r.manager = m}
  OBVIOUS
<1>16. Counted(Rows) \in SUBSET Rows /\ AtRisk(Rows) \in SUBSET Rows /\ Passed(Held) \in SUBSET Held
  OBVIOUS
<1> HIDE DEF RowsBy, HeldBy, Counted, AtRisk, Passed
<1>17. \A m \in D : /\ roster[m].okk.n = Cardinality(Counted(RowsBy(m)))
                    /\ roster[m].okk.zones["risk"] = Cardinality(AtRisk(RowsBy(m)))
                    /\ roster[m].meetings.n = Cardinality(HeldBy(m))
                    /\ roster[m].meetings.passed = Cardinality(Passed(HeldBy(m)))
  BY <1>1, <1>2, <1>4
<1>18. \A m \in D : /\ [x \in D |-> roster[x].okk.n][m] = Cardinality({r \in Counted(Rows) : r.manager = m})
                    /\ [x \in D |-> roster[x].okk.zones["risk"]][m] = Cardinality({r \in AtRisk(Rows) : r.manager = m})
                    /\ [x \in D |-> roster[x].meetings.n][m] = Cardinality({r \in Held : r.manager = m})
                    /\ [x \in D |-> roster[x].meetings.passed][m] = Cardinality({r \in Passed(Held) : r.manager = m})
  BY <1>15, <1>17
<1>19. /\ SumFunctionOnSet([x \in D |-> roster[x].okk.n], D) = Cardinality(Counted(Rows))
       /\ SumFunctionOnSet([x \in D |-> roster[x].okk.zones["risk"]], D) = Cardinality(AtRisk(Rows))
       /\ SumFunctionOnSet([x \in D |-> roster[x].meetings.n], D) = Cardinality(Held)
       /\ SumFunctionOnSet([x \in D |-> roster[x].meetings.passed], D) = Cardinality(Passed(Held))
  BY <1>13, <1>16, <1>18
<1>20. /\ TeamGroup(d).okk.n = Cardinality(Counted(Rows))
       /\ TeamGroup(d).okk.zones["risk"] = Cardinality(AtRisk(Rows))
       /\ TeamGroup(d).meetings.n = Cardinality(Held)
       /\ TeamGroup(d).meetings.passed = Cardinality(Passed(Held))
  BY <1>1, <1>2, <1>5
<1>21. SumFunctionOnSet([x \in N |-> lines[x].n], N) =
         IF d = TmDept THEN TeamGroup(d).okk.n ELSE TeamGroup(d).meetings.n
  <2> DEFINE f == [x \in N |-> lines[x].n]
             R == IF d = TmDept THEN Counted(Rows) ELSE Held
  <2>1. \A x \in N : f[x] = Cardinality({r \in R : ExportName(r.manager) = x})
    <3>1. CASE d = TmDept
      BY <1>11, <3>1
    <3>2. CASE d # TmDept
      BY <1>11, <3>2
    <3> QED
      BY <3>1, <3>2
  <2>2. R \in SUBSET IF d = TmDept THEN Rows ELSE Held
    BY <1>16
  <2> HIDE DEF f
  <2>3. SumFunctionOnSet(f, N) = Cardinality(R)
    <3> HIDE DEF R
    <3> QED
      BY <1>14, <2>1, <2>2
  <2> QED
    BY <1>20, <2>3 DEF f
<1> QED
  BY <1>19, <1>20, <1>21 DEF D, N, roster, lines

(* models/appeal.py:11, export.py:8, okk.py: a corrected percent stands on the feed,   *)
(* the feedback, the cards, the team and the export; a manager's card is the line of    *)
(* the team, and of the export and report where the name is his alone, a team adds up   *)
(* by managers and by names, the trend is at most a tenth away where nothing is         *)
(* corrected and a feed is the newest of everything: for any calls, meetings, names,    *)
(* appeals and re-scorings, as long as a manager is in one call at a time.              *)
THEOREM ScreensShowOneNumber == AppealsSpec => []HeadlinesAgree
<1>1. CabinetInv => HeadlinesAgree
  <2> SUFFICES ASSUME CabinetInv PROVE HeadlinesAgree
    OBVIOUS
  <2> QED
    BY CallsAgree, CardsAgree, TeamAddsUp DEF HeadlinesAgree
<1> QED
  BY <1>1, CabinetStart, CabinetStep, PTL DEF AppealsSpec
===============================================================================
