----------------------------- MODULE AuditPassProofs -----------------------------
(***************************************************************************)
(* The audit, for any number of deals, slots, overlapping passes and       *)
(* failures: its cursor leaves no deal behind without a verdict, a verdict *)
(* is never lost, and a deal in flight is not paid for again, but where    *)
(* two passes had found one deal open.  Three facts carry the argument.    *)
(* Deals are lost in the order of their CLOSEDATE, so one that closes      *)
(* while a pass runs comes after all the pass has listed.  The poller      *)
(* touches pending rows only, so a row a pass found neither settled nor    *)
(* pending is still so when it commits, unless another pass wrote it: then *)
(* it is contested.  And the row of a deal in a running batch is pending.  *)
(* At the end, what the audit's rules conclude of any portal.              *)
(***************************************************************************)
EXTENDS AuditPass, AuditRules, FiniteSetTheorems, WellFoundedInduction, TLAPS

PassTypes ==
  [stage : {"idle", "listed", "skips", "settles"}, mode : Modes \cup {"off"}, from : Dates,
   deals : SUBSET Deals, done : SUBSET Deals, inFlight : SUBSET Deals]
Shapes ==
  /\ closed \subseteq Deals /\ cursor \in Dates
  /\ DOMAIN verdict = Deals /\ DOMAIN batch = Slots
  /\ pass \in [Passes -> PassTypes]

(* Deals close in order, and the cursor stands at one of them. *)
ClosedInOrder == \A d \in closed, e \in Deals : e < d => e \in closed
Reached(t) == t = 0 \/ \E d \in closed : ClosedAt[d] = t
CursorReached == Reached(cursor)

(* No deal before a date is left without a verdict. *)
Good(d) == verdict[d] \in Settled \/ d \in excused \cup contested
Before(t) == \A d \in closed : ClosedAt[d] < t => Good(d)

(* What a pass has not listed was behind the cursor then or has closed since. *)
Covers(p) ==
  pass[p].stage # "idle" =>
    /\ pass[p].deals \subseteq closed /\ Reached(pass[p].from) /\ Before(pass[p].from)
    /\ \A d \in closed \ pass[p].deals :
         ClosedAt[d] < pass[p].from \/ \A e \in pass[p].deals : e < d
PassesCover == \A p \in Passes : Covers(p)

(* What a pass does not skip has no verdict and is not in flight, or is contested. *)
Open(d) == verdict[d] \in {"none", "error"}
StartsFresh(p) == pass[p].stage \in {"listed", "skips"} => pass[p].inFlight = {}
FreshOpen(p) == pass[p].stage \in {"skips", "settles"} => \A d \in Fresh(p) : Open(d) \/ d \in contested
FreshIsOpen == \A p \in Passes : StartsFresh(p) /\ FreshOpen(p)

AuditInv == Shapes /\ ClosedInOrder /\ CursorReached /\ PassesCover /\ FreshIsOpen /\ Before(cursor)

(* What is drained has ended, and the row of a deal in a running batch is pending. *)
BatchShapes ==
  /\ DOMAIN poll = {"todo", "draining", "left"}
  /\ \A s \in Slots : DOMAIN batch[s] = {"deals", "results"}
DrainsEnded == \A s \in poll.draining : s \in Slots /\ Ended(s)
RunningHeld ==
  \A s \in Slots, d \in Deals : Running(s, d) => verdict[d] = "pending" \/ d \in contested \cup redrained
BatchInv == BatchShapes /\ DrainsEnded /\ RunningHeld

-----------------------------------------------------------------------------
LEMMA DatesAreNumbers ==
  /\ NDeals \in Nat /\ \A d \in Deals : d \in Int
  /\ \A t \in Dates : t \in Int
  /\ 0 \in Dates /\ \A d \in Deals : ClosedAt[d] \in Dates /\ ClosedAt[d] \in Int /\ ClosedAt[d] > 0
  /\ \A d, e \in Deals : d < e => ClosedAt[d] <= ClosedAt[e]
BY AuditAssumption DEF AuditAssumption, Deals, Dates

(* The part of a set of deals above one of its deals that has the least such part is empty. *)
LEMMA MaxOfDeals ==
  ASSUME NEW S \in SUBSET Deals, S # {} PROVE Max(S) \in S
<1> DEFINE Above(x) == {y \in S : y > x}
           parts == {Above(x) : x \in S}
<1>1. IsFiniteSet(S) /\ \A x \in S : x \in Int
  <2>1. IsFiniteSet(Deals)
    <3>1. NDeals \in Int
      BY DatesAreNumbers
    <3> QED
      BY <3>1, FS_Interval DEF Deals
  <2> QED
    BY <2>1, FS_Subset, DatesAreNumbers
<1>2. parts \subseteq FiniteSubsetsOf(S) /\ parts # {}
  <2>1. \A x \in S : Above(x) \in SUBSET S
    OBVIOUS
  <2>2. \A T \in SUBSET S : IsFiniteSet(T)
    BY <1>1, FS_Subset
  <2> QED
    BY <2>1, <2>2 DEF FiniteSubsetsOf
<1>3. PICK part \in parts : \A q \in parts : ~ (<<q, part>> \in StrictSubsetOrdering(S))
  <2> HIDE DEF parts
  <2>1. IsWellFoundedOn(StrictSubsetOrdering(S), FiniteSubsetsOf(S))
    BY FS_StrictSubsetOrderingWellFounded
  <2> QED
    BY <1>2, <2>1, WFMin
<1>4. PICK top \in S : part = Above(top)
  BY <1>3
<1>5. ASSUME NEW y \in S, y > top PROVE FALSE
  <2>1. Above(y) \subseteq part /\ y \in part /\ y \notin Above(y)
    BY <1>1, <1>4, <1>5
  <2>2. <<Above(y), part>> \in StrictSubsetOrdering(S)
    BY <2>1, <1>4 DEF StrictSubsetOrdering
  <2> QED
    BY <1>3, <2>2
<1>6. \A y \in S : top >= y
  BY <1>1, <1>5
<1> QED
  BY <1>6 DEF Max

-----------------------------------------------------------------------------
(* Whatever closes now, closes after everything that a pass lists or left behind. *)
LEMMA DealClosesKeeps ==
  ASSUME AuditInv, NEW d \in Deals, DealCloses(d) PROVE AuditInv'
<1>1. /\ closed' = closed \cup {d} /\ d \notin closed /\ \A e \in Deals : e < d => e \in closed
      /\ UNCHANGED <<verdict, cursor, batch, pass, excused, contested>>
  BY DEF DealCloses, tally
<1>2. \A e \in closed : e < d
  BY <1>1, DatesAreNumbers DEF AuditInv, Shapes, ClosedInOrder
<1>3. \A t \in Dates : Reached(t) => ~(ClosedAt[d] < t)
  <2> TAKE t \in Dates
  <2>1. ASSUME t = 0 PROVE ~(ClosedAt[d] < t)
    BY <2>1, DatesAreNumbers
  <2>2. ASSUME NEW e \in closed, ClosedAt[e] = t PROVE ~(ClosedAt[d] < t)
    <3>1. e < d /\ e \in Deals
      BY <1>2 DEF AuditInv, Shapes
    <3>2. ClosedAt[e] <= ClosedAt[d] /\ ClosedAt[e] \in Int /\ ClosedAt[d] \in Int
      BY <3>1, DatesAreNumbers
    <3> QED
      BY <2>2, <3>2
  <2> QED
    BY <2>1, <2>2 DEF Reached
<1>4. \A t \in Dates : Reached(t) /\ Before(t) => Reached(t)' /\ Before(t)'
  BY <1>1, <1>3 DEF Reached, Before, Good
<1>5. Shapes' /\ ClosedInOrder'
  BY <1>1 DEF AuditInv, Shapes, ClosedInOrder
<1>6. CursorReached' /\ Before(cursor)'
  BY <1>1, <1>4 DEF AuditInv, Shapes, CursorReached, Reached, Before, Good
<1>7. FreshIsOpen'
  BY <1>1 DEF AuditInv, FreshIsOpen, StartsFresh, FreshOpen, Fresh, Open
<1>8. ASSUME NEW p \in Passes, pass[p].stage # "idle"
      PROVE  /\ pass[p].deals \subseteq closed' /\ Reached(pass[p].from)' /\ Before(pass[p].from)'
             /\ \A e \in closed' \ pass[p].deals :
                  ClosedAt[e] < pass[p].from \/ \A f \in pass[p].deals : f < e
  <2>1. /\ pass[p].deals \subseteq closed /\ Reached(pass[p].from) /\ Before(pass[p].from)
        /\ pass[p].from \in Dates
        /\ \A e \in closed \ pass[p].deals :
             ClosedAt[e] < pass[p].from \/ \A f \in pass[p].deals : f < e
    BY <1>8 DEF AuditInv, Shapes, PassTypes, PassesCover, Covers
  <2>2. Reached(pass[p].from)' /\ Before(pass[p].from)'
    BY <1>1, <1>4, <2>1 DEF Reached, Before, Good
  <2>3. \A f \in pass[p].deals : f < d
    BY <1>2, <2>1
  <2> QED
    BY <1>1, <2>1, <2>2, <2>3
<1>9. PassesCover'
  BY <1>1, <1>8 DEF PassesCover, Covers, Reached, Before, Good
<1> QED
  BY <1>5, <1>6, <1>7, <1>9 DEF AuditInv

(* Where nothing closes and no good deal goes bad, a pass that does not move keeps what it covers. *)
LEMMA CoversStays ==
  ASSUME AuditInv, UNCHANGED closed, \A d \in closed : Good(d) => Good(d)',
         NEW p \in Passes, \/ pass'[p].stage = "idle"
                           \/ /\ pass[p].stage # "idle"
                              /\ pass'[p].from = pass[p].from /\ pass'[p].deals = pass[p].deals
  PROVE  Covers(p)'
<1>1. CASE pass'[p].stage = "idle"
  BY <1>1 DEF Covers
<1>2. CASE /\ pass[p].stage # "idle"
           /\ pass'[p].from = pass[p].from /\ pass'[p].deals = pass[p].deals
  BY <1>2 DEF AuditInv, PassesCover, Covers, Reached, Before
<1> QED
  BY <1>1, <1>2

LEMMA PassListsKeeps ==
  ASSUME AuditInv, NEW p \in Passes, NEW mode \in Modes, PassLists(p, mode) PROVE AuditInv'
<1>1. pass' = [pass EXCEPT ![p] = [Idle EXCEPT !.stage = "listed", !.mode = mode, !.from = cursor,
                                               !.deals = {d \in closed : ClosedAt[d] >= cursor}]]
  BY DEF PassLists
<1>2. /\ pass'[p].stage = "listed" /\ pass'[p].from = cursor /\ pass'[p].inFlight = {}
      /\ pass'[p].deals = {d \in closed : ClosedAt[d] >= cursor}
      /\ \A q \in Passes \ {p} : pass'[q] = pass[q]
  BY <1>1 DEF Idle, AuditInv, Shapes
<1>3. UNCHANGED <<closed, verdict, cursor, batch, excused, contested>>
  BY DEF PassLists, world, tally
<1>4. pass' \in [Passes -> PassTypes]
  <2>1. [Idle EXCEPT !.stage = "listed", !.mode = mode, !.from = cursor,
                     !.deals = {d \in closed : ClosedAt[d] >= cursor}] \in PassTypes
    BY DEF Idle, PassTypes, AuditInv, Shapes
  <2> QED
    BY <1>1, <2>1 DEF AuditInv, Shapes
<1>5. Shapes' /\ ClosedInOrder' /\ CursorReached' /\ Before(cursor)'
  BY <1>3, <1>4 DEF AuditInv, Shapes, ClosedInOrder, CursorReached, Reached, Before, Good
<1>6. Covers(p)'
  <2>1. \A d \in closed : ClosedAt[d] \in Int /\ cursor \in Int
    BY DatesAreNumbers DEF AuditInv, Shapes
  <2>2. \A d \in closed \ pass'[p].deals : ClosedAt[d] < cursor
    BY <1>2, <2>1
  <2> QED
    BY <1>2, <1>3, <2>2 DEF AuditInv, CursorReached, Covers, Reached, Before, Good
<1>7. PassesCover'
  <2>1. ASSUME NEW q \in Passes, q # p PROVE Covers(q)'
    BY <1>2, <1>3, <2>1, CoversStays DEF Good
  <2> QED
    BY <1>6, <2>1 DEF PassesCover
<1>8. FreshIsOpen'
  BY <1>2, <1>3 DEF AuditInv, FreshIsOpen, StartsFresh, FreshOpen, Fresh, Open
<1> QED
  BY <1>5, <1>7, <1>8 DEF AuditInv

(* The two reads of a pass. *)
LEMMA PassReadsKeep ==
  ASSUME AuditInv, NEW p \in Passes, PassReadsDone(p) \/ PassReadsInFlight(p) PROVE AuditInv'
<1>1. UNCHANGED <<closed, verdict, cursor, batch, excused, contested>>
  BY DEF PassReadsDone, PassReadsInFlight, world, tally
<1>2. pass[p] \in PassTypes
  BY DEF AuditInv, Shapes
<1>3. /\ pass' \in [Passes -> PassTypes] /\ pass[p].stage # "idle"
      /\ pass'[p].deals = pass[p].deals /\ pass'[p].from = pass[p].from
      /\ \A q \in Passes \ {p} : pass'[q] = pass[q]
  BY <1>2 DEF AuditInv, Shapes, PassTypes, PassReadsDone, PassReadsInFlight
<1>4. Shapes' /\ ClosedInOrder' /\ CursorReached' /\ Before(cursor)'
  BY <1>1, <1>3 DEF AuditInv, Shapes, ClosedInOrder, CursorReached, Reached, Before, Good
<1>5. PassesCover'
  <2>1. ASSUME NEW q \in Passes PROVE Covers(q)'
    BY <1>1, <1>3, CoversStays, <2>1 DEF Good, Covers
  <2> QED
    BY <2>1 DEF PassesCover
<1>6. StartsFresh(p)' /\ FreshOpen(p)'
  <2>1. CASE PassReadsDone(p)
    <3>1. /\ pass'[p].done = {d \in pass[p].deals : verdict[d] \notin {"none", "error"}}
          /\ pass'[p].inFlight = pass[p].inFlight /\ pass[p].stage = "listed"
      BY <1>2, <2>1 DEF AuditInv, Shapes, PassTypes, PassReadsDone
    <3> QED
      BY <1>1, <1>3, <3>1 DEF AuditInv, FreshIsOpen, StartsFresh, FreshOpen, Fresh, Open
  <2>2. CASE PassReadsInFlight(p)
    <3>1. /\ pass'[p].done = pass[p].done /\ pass[p].stage = "skips" /\ pass'[p].stage = "settles"
      BY <1>2, <2>2 DEF AuditInv, Shapes, PassTypes, PassReadsInFlight
    <3> QED
      BY <1>1, <1>3, <3>1 DEF AuditInv, FreshIsOpen, StartsFresh, FreshOpen, Fresh, Open
  <2> QED
    BY <2>1, <2>2
<1>7. FreshIsOpen'
  BY <1>1, <1>3, <1>6 DEF AuditInv, FreshIsOpen, StartsFresh, FreshOpen, Fresh, Open
<1> QED
  BY <1>4, <1>5, <1>7 DEF AuditInv

-----------------------------------------------------------------------------
LEMMA ChunksWithin == \A S : \A c \in Chunks(S) : c \subseteq S
BY DEF Chunks

LEMMA WrittenIsFresh ==
  ASSUME NEW p \in Passes
  PROVE  /\ Fresh(p) \subseteq pass[p].deals /\ Now(p) \subseteq Fresh(p)
         /\ \A accepted \in SUBSET Submits(p) :
              UNION accepted \subseteq Fresh(p) /\ Now(p) \cap UNION accepted = {}
<1>1. Fresh(p) \subseteq pass[p].deals /\ Now(p) \subseteq Fresh(p) /\ ToJudge(p) \subseteq Fresh(p)
  BY DEF Fresh, Now, ToCheck, ToJudge
<1>2. ASSUME NEW accepted \in SUBSET Submits(p)
      PROVE  UNION accepted \subseteq Fresh(p) /\ Now(p) \cap UNION accepted = {}
  <2>1. UNION accepted \subseteq ToJudge(p) /\ (UNION accepted # {} => pass[p].mode = "batch")
    BY ChunksWithin DEF Submits
  <2> QED
    BY <1>1, <2>1 DEF Now, ToCheck, ToJudge
<1> QED
  BY <1>1, <1>2

(* What a commit does, in terms of what it judged and what was accepted. *)
CommitsWith(p, outcome, accepted) ==
  /\ \E slot \in [accepted -> {s \in Slots : batch[s] = Free}] : batch' = [s \in Slots |->
         IF \E c \in accepted : slot[c] = s
         THEN [deals |-> CHOOSE c \in accepted : slot[c] = s, results |-> <<>>]
         ELSE batch[s]]
  /\ verdict' = [d \in Deals |-> CASE d \in Now(p) -> outcome[d]
                                   [] d \in UNION accepted -> "pending"
                                   [] OTHER -> verdict[d]]
  /\ cursor' = NewCursor(p, outcome)
  /\ excused' = excused \cup {d \in pass[p].deals \ pass[p].inFlight :
         /\ verdict'[d] \notin Settled
         /\ d \in pass[p].done \/ (route[d] = "judge" /\ d \notin transcribed)}
  /\ contested' = contested \cup {d \in Now(p) \cup UNION accepted :
         \E q \in Passes \ {p} : pass[q].stage \in {"skips", "settles"} /\ d \in Fresh(q)}

LEMMA CommitsSomehow ==
  ASSUME NEW p \in Passes, PassCommits(p)
  PROVE  \E outcome \in [Now(p) -> Settled \cup {"error"}], accepted \in SUBSET Submits(p) :
           CommitsWith(p, outcome, accepted)
<1>1. PICK outcome \in [Now(p) -> Settled \cup {"error"}], accepted \in SUBSET Submits(p) :
        /\ \E slot \in [accepted -> {s \in Slots : batch[s] = Free}] :
             /\ \A c1, c2 \in accepted : c1 # c2 => slot[c1] # slot[c2]
             /\ batch' = [s \in Slots |->
                  IF \E c \in accepted : slot[c] = s
                  THEN [deals |-> CHOOSE c \in accepted : slot[c] = s, results |-> <<>>]
                  ELSE batch[s]]
        /\ verdict' = [d \in Deals |-> CASE d \in Now(p) -> outcome[d]
                                         [] d \in UNION accepted -> "pending"
                                         [] OTHER -> verdict[d]]
        /\ cursor' = NewCursor(p, outcome)
        /\ excused' = excused \cup {d \in pass[p].deals \ pass[p].inFlight :
                /\ verdict'[d] \notin Settled
                /\ d \in pass[p].done \/ (route[d] = "judge" /\ d \notin transcribed)}
        /\ contested' = contested \cup {d \in Now(p) \cup UNION accepted :
                \E q \in Passes \ {p} : pass[q].stage \in {"skips", "settles"} /\ d \in Fresh(q)}
  BY DEF PassCommits
<1>2. CommitsWith(p, outcome, accepted)
  BY <1>1 DEF CommitsWith
<1> QED
  BY <1>2

(* A pass writes what is open or contested, so no good deal goes bad. *)
LEMMA CommitWrites ==
  ASSUME AuditInv, NEW p \in Passes, pass[p].stage = "settles", NEW outcome \in [Now(p) -> Settled \cup {"error"}],
         NEW accepted \in SUBSET Submits(p), CommitsWith(p, outcome, accepted)
  PROVE  /\ \A d \in Now(p) \cup UNION accepted : d \in Fresh(p) /\ (Open(d) \/ d \in contested)
         /\ \A d \in Deals \ (Now(p) \cup UNION accepted) : verdict'[d] = verdict[d]
         /\ \A d \in Deals \cap Now(p) : verdict'[d] = outcome[d]
         /\ \A d \in (Deals \ Now(p)) \cap UNION accepted : verdict'[d] = "pending"
         /\ \A d \in Deals : Good(d) => Good(d)'
         /\ excused \subseteq excused' /\ contested \subseteq contested'
<1>1. \A d \in Now(p) \cup UNION accepted : d \in Fresh(p) /\ (Open(d) \/ d \in contested)
  BY WrittenIsFresh DEF AuditInv, FreshIsOpen, FreshOpen
<1>2. /\ \A d \in Deals \ (Now(p) \cup UNION accepted) : verdict'[d] = verdict[d]
      /\ \A d \in Deals \cap Now(p) : verdict'[d] = outcome[d]
      /\ \A d \in (Deals \ Now(p)) \cap UNION accepted : verdict'[d] = "pending"
  <2> DEFINE now == Now(p)
             sent == UNION accepted
  <2>1. verdict' = [d \in Deals |-> CASE d \in now -> outcome[d]
                                     [] d \in sent -> "pending"
                                     [] OTHER -> verdict[d]]
    BY DEF CommitsWith
  <2>2. now \cap sent = {}
    BY WrittenIsFresh
  <2> HIDE DEF now, sent
  <2>3. /\ \A d \in Deals \ (now \cup sent) : verdict'[d] = verdict[d]
        /\ \A d \in Deals \cap now : verdict'[d] = outcome[d]
        /\ \A d \in (Deals \ now) \cap sent : verdict'[d] = "pending"
    BY <2>1, <2>2
  <2> QED
    BY <2>3 DEF now, sent
<1>3. excused \subseteq excused' /\ contested \subseteq contested'
  BY DEF CommitsWith
<1>4. \A d \in Deals : Good(d) => Good(d)'
  BY <1>1, <1>2, <1>3 DEF Good, Open, Settled
<1> QED
  BY <1>1, <1>2, <1>3, <1>4

(* A pass settles what it found open, and its cursor stops at the first deal not done. *)
LEMMA PassCommitsKeeps ==
  ASSUME AuditInv, NEW p \in Passes, PassCommits(p) PROVE AuditInv'
<1>1. PICK outcome \in [Now(p) -> Settled \cup {"error"}], accepted \in SUBSET Submits(p) :
        CommitsWith(p, outcome, accepted)
  BY CommitsSomehow
<1>2. pass' = [pass EXCEPT ![p] = Idle] /\ UNCHANGED closed /\ pass[p].stage = "settles"
  BY DEF PassCommits, world
<1>3. /\ pass'[p].stage = "idle" /\ \A q \in Passes \ {p} : pass'[q] = pass[q]
      /\ pass' \in [Passes -> PassTypes]
  <2>1. Idle \in PassTypes /\ Idle.stage = "idle"
    BY DatesAreNumbers DEF Idle, PassTypes
  <2> QED
    BY <1>2, <2>1 DEF AuditInv, Shapes
<1>4. /\ \A d \in Now(p) \cup UNION accepted : d \in Fresh(p) /\ (Open(d) \/ d \in contested)
      /\ \A d \in Deals \ (Now(p) \cup UNION accepted) : verdict'[d] = verdict[d]
      /\ \A d \in Deals \cap Now(p) : verdict'[d] = outcome[d]
      /\ \A d \in (Deals \ Now(p)) \cap UNION accepted : verdict'[d] = "pending"
      /\ \A d \in Deals : Good(d) => Good(d)'
      /\ excused \subseteq excused' /\ contested \subseteq contested'
  BY <1>1, <1>2, CommitWrites
<1>5. /\ pass[p] \in PassTypes /\ pass[p].deals \subseteq closed /\ Reached(pass[p].from) /\ Before(pass[p].from)
      /\ \A d \in closed \ pass[p].deals :
           ClosedAt[d] < pass[p].from \/ \A e \in pass[p].deals : e < d
  BY <1>2 DEF AuditInv, Shapes, PassesCover, Covers
<1> DEFINE run == {d \in pass[p].deals : \A e \in pass[p].deals : e <= d => Done(p, e, outcome)}
<1>6. \/ cursor' = cursor
      \/ \E m \in pass[p].deals : cursor' = ClosedAt[m] /\ \A e \in pass[p].deals : e <= m => Done(p, e, outcome)
  <2>1. CASE run = {}
    BY <1>1, <2>1 DEF CommitsWith, NewCursor
  <2>2. CASE run # {}
    <3>1. Max(run) \in run
      BY <1>5, <2>2, MaxOfDeals DEF PassTypes
    <3>2. cursor' = cursor \/ cursor' = ClosedAt[Max(run)]
      BY <1>1, <2>2 DEF CommitsWith, NewCursor
    <3> QED
      BY <3>1, <3>2
  <2> QED
    BY <2>1, <2>2
<1>7. Shapes'
  <2>1. cursor' \in Dates
    BY <1>5, <1>6, DatesAreNumbers DEF AuditInv, Shapes, PassTypes
  <2>2. DOMAIN verdict' = Deals /\ DOMAIN batch' = Slots
    BY <1>1 DEF CommitsWith
  <2> QED
    BY <1>2, <1>3, <2>1, <2>2 DEF AuditInv, Shapes
<1>8. ClosedInOrder' /\ CursorReached'
  BY <1>2, <1>5, <1>6 DEF AuditInv, ClosedInOrder, CursorReached, Reached
<1>9. PassesCover'
  <2>1. ASSUME NEW q \in Passes PROVE Covers(q)'
    <3>1. \A d \in closed : Good(d) => Good(d)'
      BY <1>4 DEF AuditInv, Shapes
    <3>2. CASE q = p
      BY <1>3, <3>2 DEF Covers
    <3>3. CASE q # p /\ pass[q].stage = "idle"
      BY <1>3, <3>3 DEF Covers
    <3>4. CASE q # p /\ pass[q].stage # "idle"
      BY <1>2, <1>3, <3>1, <3>4, CoversStays
    <3> QED
      BY <3>2, <3>3, <3>4
  <2> QED
    BY <2>1 DEF PassesCover
<1>10. FreshIsOpen'
  <2>1. StartsFresh(p)' /\ FreshOpen(p)'
    BY <1>3 DEF StartsFresh, FreshOpen
  <2>2. ASSUME NEW q \in Passes \ {p} PROVE StartsFresh(q)' /\ FreshOpen(q)'
    <3>1. StartsFresh(q)'
      BY <1>3 DEF AuditInv, FreshIsOpen, StartsFresh
    <3>2. ASSUME pass[q].stage \in {"skips", "settles"}, NEW d \in Fresh(q)
          PROVE  verdict'[d] \in {"none", "error"} \/ d \in contested'
      <4>1. d \in Deals
        BY DEF AuditInv, Shapes, PassTypes, Fresh
      <4>2. CASE d \in Now(p) \cup UNION accepted
        BY <1>1, <3>2, <4>2 DEF CommitsWith
      <4>3. CASE d \notin Now(p) \cup UNION accepted
        BY <1>4, <3>2, <4>1, <4>3 DEF AuditInv, FreshIsOpen, FreshOpen, Open
      <4> QED
        BY <4>2, <4>3
    <3>3. FreshOpen(q)'
      BY <1>3, <3>2 DEF FreshOpen, Fresh, Open
    <3> QED
      BY <3>1, <3>3
  <2> QED
    BY <2>1, <2>2 DEF FreshIsOpen
<1>11. ASSUME NEW d \in closed, ClosedAt[d] < cursor' PROVE Good(d)'
  <2>1. d \in Deals /\ ClosedAt[d] \in Int /\ cursor \in Int /\ cursor' \in Int
    BY <1>7, DatesAreNumbers DEF AuditInv, Shapes
  <2>2. CASE cursor' = cursor
    BY <1>4, <1>11, <2>1, <2>2 DEF AuditInv, Before
  <2>3. ASSUME NEW m \in pass[p].deals, cursor' = ClosedAt[m],
               \A e \in pass[p].deals : e <= m => Done(p, e, outcome)
        PROVE  Good(d)'
    <3>1. m \in Deals /\ d \in Int /\ m \in Int /\ ClosedAt[m] \in Int
      BY <1>5, <2>1, DatesAreNumbers DEF PassTypes
    <3>2. d < m
      <4>1. d # m
        BY <1>11, <2>1, <2>3
      <4>2. m < d => ClosedAt[m] <= ClosedAt[d]
        BY <2>1, <3>1, DatesAreNumbers
      <4> QED
        BY <1>11, <2>1, <2>3, <3>1, <4>1, <4>2
    <3>3. CASE d \in pass[p].deals
      <4>1. Done(p, d, outcome)
        BY <2>3, <3>1, <3>2, <3>3
      <4>2. d \notin pass[p].inFlight
        <5>1. d \in pass[p].inFlight => d \notin Now(p) /\ d \notin pass[p].done \ pass[p].inFlight
          BY WrittenIsFresh DEF Fresh
        <5> QED
          BY <4>1, <5>1 DEF Done
      <4>3. CASE d \in pass[p].done \ pass[p].inFlight
        BY <1>1, <3>3, <4>2, <4>3 DEF CommitsWith, Good
      <4>4. CASE d \notin pass[p].done /\ d \in Now(p)
        <5>1. outcome[d] \in Settled
          BY <4>1, <4>2, <4>4 DEF Done
        <5> QED
          BY <1>4, <2>1, <4>4, <5>1 DEF Good
      <4>5. CASE d \notin pass[p].done /\ d \notin Now(p)
        <5>1. route[d] = "judge" /\ d \notin transcribed
          BY <4>1, <4>2, <4>5 DEF Done
        <5> QED
          BY <1>1, <3>3, <4>2, <5>1 DEF CommitsWith, Good
      <4> QED
        BY <4>2, <4>3, <4>4, <4>5
    <3>4. CASE d \notin pass[p].deals
      <4>1. ~ (m < d)
        BY <3>1, <3>2
      <4>2. ClosedAt[d] < pass[p].from
        BY <1>5, <3>4, <4>1
      <4> QED
        BY <1>4, <1>5, <2>1, <4>2 DEF Before
    <3> QED
      BY <3>3, <3>4
  <2> QED
    BY <1>6, <2>2, <2>3
<1>12. Before(cursor)'
  BY <1>2, <1>11 DEF Before, Good
<1> QED
  BY <1>7, <1>8, <1>9, <1>10, <1>12 DEF AuditInv

(* The poller writes pending rows only. *)
LEMMA PollDrainsKeeps ==
  ASSUME AuditInv, NEW d \in Deals, PollDrains(d) PROVE AuditInv'
<1>1. PICK s \in poll.draining : verdict' = [verdict EXCEPT ![d] = Drained(@, batch[s].results[d])]
  BY DEF PollDrains
<1>2. UNCHANGED <<closed, cursor, batch, pass, excused, contested>>
  BY DEF PollDrains, world
<1>3. \A e \in Deals : verdict[e] # "pending" => verdict'[e] = verdict[e]
  BY <1>1 DEF AuditInv, Shapes, Drained
<1>4. Shapes'
  BY <1>1, <1>2 DEF AuditInv, Shapes
<1>5. \A e \in Deals : Good(e) => Good(e)'
  BY <1>2, <1>3 DEF Good, Settled
<1>6. ClosedInOrder' /\ CursorReached' /\ Before(cursor)'
  BY <1>2, <1>5 DEF AuditInv, Shapes, ClosedInOrder, CursorReached, Reached, Before
<1>7. PassesCover'
  <2>1. \A e \in closed : Good(e) => Good(e)'
    BY <1>5 DEF AuditInv, Shapes
  <2>2. ASSUME NEW p \in Passes PROVE Covers(p)'
    BY <1>2, <2>1, CoversStays
  <2> QED
    BY <2>2 DEF PassesCover
<1>8. FreshIsOpen'
  BY <1>2, <1>3 DEF AuditInv, Shapes, PassTypes, FreshIsOpen, StartsFresh, FreshOpen, Fresh, Open
<1> QED
  BY <1>4, <1>6, <1>7, <1>8 DEF AuditInv

(* Steps that change neither rows, nor the cursor, nor what a running pass knows. *)
LEMMA QuietStep ==
  ASSUME AuditInv, UNCHANGED <<closed, verdict, cursor, excused, contested>>, DOMAIN batch' = Slots,
         \/ pass' = pass
         \/ \E p \in Passes : pass' = [pass EXCEPT ![p] = Idle]
  PROVE  AuditInv'
<1>1. Idle \in PassTypes /\ Idle.stage = "idle"
  BY DatesAreNumbers DEF Idle, PassTypes
<1>2. /\ pass' \in [Passes -> PassTypes]
      /\ \A p \in Passes : pass'[p] = pass[p] \/ pass'[p].stage = "idle"
  BY <1>1 DEF AuditInv, Shapes
<1>3. Shapes' /\ ClosedInOrder' /\ CursorReached' /\ Before(cursor)'
  BY <1>2 DEF AuditInv, Shapes, ClosedInOrder, CursorReached, Reached, Before, Good
<1>4. FreshIsOpen'
  BY <1>2 DEF AuditInv, FreshIsOpen, StartsFresh, FreshOpen, Fresh, Open
<1>5. PassesCover'
  <2>1. ASSUME NEW p \in Passes PROVE Covers(p)'
    BY <1>2, CoversStays DEF Good, Covers
  <2> QED
    BY <2>1 DEF PassesCover
<1> QED
  BY <1>3, <1>4, <1>5 DEF AuditInv

-----------------------------------------------------------------------------
LEMMA AuditStart == Init => AuditInv /\ BatchInv
<1> SUFFICES ASSUME Init PROVE AuditInv /\ BatchInv
  OBVIOUS
<1>1. Idle \in PassTypes
  BY DatesAreNumbers DEF Idle, PassTypes
<1>2. Shapes
  BY <1>1, DatesAreNumbers DEF Init, Shapes
<1>3. \A p \in Passes : pass[p].stage = "idle"
  BY DEF Init, Idle
<1>4. AuditInv
  BY <1>2, <1>3 DEF Init, AuditInv, ClosedInOrder, CursorReached, Reached, PassesCover, Covers,
                    FreshIsOpen, StartsFresh, FreshOpen, Before
<1>5. BatchInv
  BY DEF Init, BatchInv, BatchShapes, DrainsEnded, RunningHeld, Running, Free, NoPoll
<1> QED
  BY <1>4, <1>5

LEMMA AuditStep == AuditInv /\ [Next]_vars => AuditInv'
<1> SUFFICES ASSUME AuditInv, [Next]_vars PROVE AuditInv'
  OBVIOUS
<1>0. DOMAIN batch = Slots
  BY DEF AuditInv, Shapes
<1>1. ASSUME UNCHANGED vars PROVE AuditInv'
  BY <1>0, <1>1, QuietStep DEF vars
<1>2. ASSUME NEW d \in Deals, TranscriptArrives(d) PROVE AuditInv'
  BY <1>0, <1>2, QuietStep DEF TranscriptArrives, tally
<1>3. ASSUME NEW s \in Slots, BatchEnds(s) PROVE AuditInv'
  BY <1>0, <1>3, QuietStep DEF BatchEnds, world, tally
<1>4. ASSUME NEW s \in Slots, PollRetrieves(s) \/ PollPasses(s) PROVE AuditInv'
  BY <1>0, <1>4, QuietStep DEF PollRetrieves, PollPasses, world, tally
<1>5. ASSUME OrphansEnd \/ PollStarts \/ PollDies PROVE AuditInv'
  BY <1>0, <1>5, QuietStep DEF OrphansEnd, PollStarts, PollDies, world, tally
<1>6. ASSUME PollCloses PROVE AuditInv'
  BY <1>0, <1>6, QuietStep DEF PollCloses, world, tally
<1>7. ASSUME NEW d \in Deals, DealCloses(d) \/ PollDrains(d) PROVE AuditInv'
  BY <1>7, DealClosesKeeps, PollDrainsKeeps
<1>8. ASSUME NEW p \in Passes, NEW mode \in Modes, PassLists(p, mode) PROVE AuditInv'
  BY <1>8, PassListsKeeps
<1>9. ASSUME NEW p \in Passes, PassReadsDone(p) \/ PassReadsInFlight(p) \/ PassCommits(p) PROVE AuditInv'
  BY <1>9, PassReadsKeep, PassCommitsKeeps
<1>10. ASSUME NEW p \in Passes, PassDies(p) PROVE AuditInv'
  BY <1>0, <1>10, QuietStep DEF PassDies, world, tally
<1> QED
  BY <1>1, <1>2, <1>3, <1>4, <1>5, <1>6, <1>7, <1>8, <1>9, <1>10 DEF Next

-----------------------------------------------------------------------------
(* The slots after a commit: what is new is an accepted chunk, and has not ended. *)
LEMMA CommitOpens ==
  ASSUME BatchInv, NEW p \in Passes, NEW outcome, NEW accepted \in SUBSET Submits(p),
         CommitsWith(p, outcome, accepted)
  PROVE  \A s \in Slots :
           /\ DOMAIN batch'[s] = {"deals", "results"}
           /\ \/ batch'[s] = batch[s]
              \/ batch[s] = Free /\ ~Ended(s) /\ batch'[s].deals \in accepted
<1>1. PICK slot \in [accepted -> {s \in Slots : batch[s] = Free}] : batch' = [s \in Slots |->
         IF \E c \in accepted : slot[c] = s
         THEN [deals |-> CHOOSE c \in accepted : slot[c] = s, results |-> <<>>]
         ELSE batch[s]]
  BY DEF CommitsWith
<1>2. ASSUME NEW s \in Slots
      PROVE  /\ DOMAIN batch'[s] = {"deals", "results"}
             /\ \/ batch'[s] = batch[s]
                \/ batch[s] = Free /\ ~Ended(s) /\ batch'[s].deals \in accepted
  <2>1. CASE \E c \in accepted : slot[c] = s
    <3>1. batch'[s] = [deals |-> CHOOSE c \in accepted : slot[c] = s, results |-> <<>>]
      BY <1>1, <2>1
    <3>2. batch[s] = Free /\ (CHOOSE c \in accepted : slot[c] = s) \in accepted
      BY <2>1
    <3> QED
      BY <3>1, <3>2 DEF Free, Ended
  <2>2. CASE ~ \E c \in accepted : slot[c] = s
    BY <1>1, <2>2 DEF BatchInv, BatchShapes
  <2> QED
    BY <2>1, <2>2
<1> QED
  BY <1>2

LEMMA CommitHolds ==
  ASSUME AuditInv, BatchInv, NEW p \in Passes, PassCommits(p) PROVE BatchInv'
<1>1. PICK outcome \in [Now(p) -> Settled \cup {"error"}], accepted \in SUBSET Submits(p) :
        CommitsWith(p, outcome, accepted)
  BY CommitsSomehow
<1>2. UNCHANGED <<poll, redrained>> /\ pass[p].stage = "settles"
  BY DEF PassCommits
<1>3. \A s \in Slots :
           /\ DOMAIN batch'[s] = {"deals", "results"}
           /\ \/ batch'[s] = batch[s]
              \/ batch[s] = Free /\ ~Ended(s) /\ batch'[s].deals \in accepted
  BY <1>1, CommitOpens
<1>4. BatchShapes' /\ DrainsEnded'
  BY <1>2, <1>3 DEF BatchInv, BatchShapes, DrainsEnded, Ended
<1>5. /\ \A d \in Now(p) \cup UNION accepted : d \in Fresh(p) /\ (Open(d) \/ d \in contested)
      /\ \A d \in Deals \ (Now(p) \cup UNION accepted) : verdict'[d] = verdict[d]
      /\ \A d \in (Deals \ Now(p)) \cap UNION accepted : verdict'[d] = "pending"
      /\ contested \subseteq contested' /\ Now(p) \cap UNION accepted = {}
  BY <1>1, <1>2, CommitWrites, WrittenIsFresh
<1>6. ASSUME NEW s \in Slots, NEW d \in Deals, Running(s, d)'
      PROVE  verdict'[d] = "pending" \/ d \in contested' \cup redrained'
  <2>1. CASE d \in UNION accepted
    BY <1>5, <2>1
  <2>2. CASE d \notin UNION accepted
    <3>1. Running(s, d)
      BY <1>3, <1>6, <2>2 DEF Running, Ended
    <3>2. verdict[d] = "pending" \/ d \in contested \cup redrained
      BY <3>1 DEF BatchInv, RunningHeld
    <3> QED
      BY <1>2, <1>5, <2>2, <3>2 DEF Open
  <2> QED
    BY <2>1, <2>2
<1> QED
  BY <1>4, <1>6 DEF BatchInv, RunningHeld

LEMMA PollDrainsHolds ==
  ASSUME AuditInv, BatchInv, NEW d \in Deals, PollDrains(d) PROVE BatchInv'
<1>1. /\ UNCHANGED <<batch, contested>> /\ redrained \subseteq redrained'
      /\ \A e \in Deals \ {d} : verdict'[e] = verdict[e]
      /\ verdict[d] = "pending" /\ (\E s \in Slots \ poll.draining : Running(s, d)) => d \in redrained'
      /\ poll' = [poll EXCEPT !.left = @ \ {d}]
  BY DEF PollDrains, AuditInv, Shapes
<1>2. poll'.draining = poll.draining /\ DOMAIN poll' = DOMAIN poll
  BY <1>1 DEF BatchInv, BatchShapes
<1>3. BatchShapes' /\ DrainsEnded'
  BY <1>1, <1>2 DEF BatchInv, BatchShapes, DrainsEnded, Ended
<1>4. ASSUME NEW s \in Slots, NEW e \in Deals, Running(s, e)'
      PROVE  verdict'[e] = "pending" \/ e \in contested' \cup redrained'
  <2>1. Running(s, e) /\ s \notin poll.draining
    BY <1>1, <1>4 DEF Running, Ended, BatchInv, DrainsEnded
  <2>2. verdict[e] = "pending" \/ e \in contested \cup redrained
    BY <2>1 DEF BatchInv, RunningHeld
  <2> QED
    BY <1>1, <2>1, <2>2
<1> QED
  BY <1>3, <1>4 DEF BatchInv, RunningHeld

(* Steps that open no batch and leave the rows alone. *)
LEMMA QuietHolds ==
  ASSUME BatchInv, UNCHANGED <<verdict, contested, redrained>>, BatchShapes', DrainsEnded',
         \A s \in Slots, d \in Deals : Running(s, d)' => Running(s, d)
  PROVE  BatchInv'
BY DEF BatchInv, RunningHeld

LEMMA BatchStep == AuditInv /\ BatchInv /\ [Next]_vars => BatchInv'
<1> SUFFICES ASSUME AuditInv, BatchInv, [Next]_vars PROVE BatchInv'
  OBVIOUS
<1> USE DEF tally, world
<1>0. DOMAIN batch = Slots
  BY DEF AuditInv, Shapes
<1>1. ASSUME UNCHANGED <<verdict, batch, poll, contested, redrained>> PROVE BatchInv'
  BY <1>1 DEF BatchInv, BatchShapes, DrainsEnded, RunningHeld, Running, Ended
<1>2. ASSUME NEW s \in Slots, BatchEnds(s) PROVE BatchInv'
  <2>1. PICK results \in [batch[s].deals -> Results] : batch' = [batch EXCEPT ![s].results = results]
    BY <1>2 DEF BatchEnds
  <2>2. /\ batch[s].deals # {} /\ ~Ended(s)
        /\ UNCHANGED <<verdict, poll, contested, redrained>>
    BY <1>2 DEF BatchEnds
  <2>3. \A t \in Slots : t # s => batch'[t] = batch[t]
    BY <1>0, <2>1
  <2>4. batch'[s] = [batch[s] EXCEPT !.results = results]
    BY <1>0, <2>1
  <2>5. DOMAIN batch'[s] = {"deals", "results"} /\ batch'[s].results = results /\ batch'[s].deals = batch[s].deals
    BY <2>4 DEF BatchInv, BatchShapes
  <2>6. Ended(s)'
    BY <2>2, <2>5 DEF Ended
  <2>7. BatchShapes' /\ DrainsEnded'
    BY <2>2, <2>3, <2>5, <2>6 DEF BatchInv, BatchShapes, DrainsEnded, Ended
  <2>8. \A t \in Slots, d \in Deals : Running(t, d)' => Running(t, d)
    BY <2>3, <2>6 DEF Running, Ended
  <2> QED
    BY <2>2, <2>7, <2>8, QuietHolds
<1>3. ASSUME NEW s \in Slots, PollRetrieves(s) PROVE BatchInv'
  <2>1. /\ UNCHANGED <<verdict, batch, contested, redrained>> /\ Ended(s)
        /\ poll' = [todo |-> poll.todo \ {s}, draining |-> {s}, left |-> batch[s].deals]
    BY <1>3 DEF PollRetrieves
  <2>2. poll'.draining = {s} /\ DOMAIN poll' = {"todo", "draining", "left"}
    BY <2>1
  <2>3. BatchShapes' /\ DrainsEnded'
    BY <2>1, <2>2 DEF BatchInv, BatchShapes, DrainsEnded, Ended
  <2> QED
    BY <2>1, <2>3, QuietHolds DEF Running, Ended
<1>4. ASSUME NEW s \in Slots, PollPasses(s) PROVE BatchInv'
  <2>1. UNCHANGED <<verdict, batch, contested, redrained>> /\ poll' = [poll EXCEPT !.todo = @ \ {s}]
    BY <1>4 DEF PollPasses
  <2>2. poll'.draining = poll.draining /\ DOMAIN poll' = DOMAIN poll
    BY <2>1 DEF BatchInv, BatchShapes
  <2>3. BatchShapes' /\ DrainsEnded'
    BY <2>1, <2>2 DEF BatchInv, BatchShapes, DrainsEnded, Ended
  <2> QED
    BY <2>1, <2>3, QuietHolds DEF Running, Ended
<1>5. ASSUME PollStarts \/ PollDies PROVE BatchInv'
  <2>1. UNCHANGED <<verdict, batch, contested, redrained>>
    BY <1>5 DEF PollStarts, PollDies
  <2>2. poll'.draining = {} /\ DOMAIN poll' = {"todo", "draining", "left"}
    BY <1>5 DEF PollStarts, PollDies, NoPoll
  <2>3. BatchShapes' /\ DrainsEnded'
    BY <2>1, <2>2 DEF BatchInv, BatchShapes, DrainsEnded
  <2> QED
    BY <2>1, <2>3, QuietHolds DEF Running, Ended
<1>6. ASSUME PollCloses PROVE BatchInv'
  <2>1. /\ UNCHANGED <<verdict, contested, redrained>> /\ poll' = [poll EXCEPT !.draining = {}]
        /\ batch' = [s \in Slots |-> IF s \in poll.draining THEN Free ELSE batch[s]]
    BY <1>6 DEF PollCloses
  <2>2. poll'.draining = {} /\ DOMAIN poll' = {"todo", "draining", "left"}
    BY <2>1 DEF BatchInv, BatchShapes
  <2>3. \A s \in Slots : batch'[s] = Free \/ batch'[s] = batch[s]
    BY <2>1
  <2>4. BatchShapes' /\ DrainsEnded'
    BY <2>2, <2>3 DEF BatchInv, BatchShapes, DrainsEnded, Free
  <2>5. \A t \in Slots, d \in Deals : Running(t, d)' => Running(t, d)
    BY <2>3 DEF Running, Ended, Free
  <2> QED
    BY <2>1, <2>4, <2>5, QuietHolds
<1>7. ASSUME NEW d \in Deals, PollDrains(d) PROVE BatchInv'
  BY <1>7, PollDrainsHolds
<1>8. ASSUME NEW p \in Passes, PassCommits(p) PROVE BatchInv'
  BY <1>8, CommitHolds
<1>9. ASSUME UNCHANGED vars PROVE BatchInv'
  BY <1>1, <1>9 DEF vars
<1>10. ASSUME NEW d \in Deals, DealCloses(d) \/ TranscriptArrives(d) PROVE BatchInv'
  BY <1>1, <1>10 DEF DealCloses, TranscriptArrives
<1>11. ASSUME NEW p \in Passes, \/ \E mode \in Modes : PassLists(p, mode)
                                \/ PassReadsDone(p) \/ PassReadsInFlight(p) \/ PassDies(p)
       PROVE  BatchInv'
  BY <1>1, <1>11 DEF PassLists, PassReadsDone, PassReadsInFlight, PassDies
<1>12. ASSUME OrphansEnd PROVE BatchInv'
  BY <1>1, <1>12 DEF OrphansEnd
<1> QED
  BY <1>2, <1>3, <1>4, <1>5, <1>6, <1>7, <1>8, <1>9, <1>10, <1>11, <1>12 DEF Next

-----------------------------------------------------------------------------
(* What a single step may do to a verdict and to a free slot. *)
VerdictKept == \A d \in Deals : verdict[d] \in Settled /\ d \notin contested => verdict'[d] = verdict[d]
SlotPaidOnce ==
  \A s \in Slots : batch[s] = Free /\ batch'[s] # Free
    => \A d \in batch'[s].deals \ contested :
         /\ verdict[d] \in {"none", "error"}
         /\ d \in redrained \/ \A t \in Slots : ~Running(t, d)

LEMMA CommitPaysOnce ==
  ASSUME AuditInv, BatchInv, NEW p \in Passes, PassCommits(p) PROVE VerdictKept /\ SlotPaidOnce
<1>1. PICK outcome \in [Now(p) -> Settled \cup {"error"}], accepted \in SUBSET Submits(p) :
        CommitsWith(p, outcome, accepted)
  BY CommitsSomehow
<1>2. pass[p].stage = "settles"
  BY DEF PassCommits
<1>3. /\ \A d \in Now(p) \cup UNION accepted : d \in Fresh(p) /\ (Open(d) \/ d \in contested)
      /\ \A d \in Deals \ (Now(p) \cup UNION accepted) : verdict'[d] = verdict[d]
  BY <1>1, <1>2, CommitWrites
<1>4. VerdictKept
  BY <1>3 DEF VerdictKept, Open, Settled
<1>5. Fresh(p) \subseteq Deals
  BY DEF AuditInv, Shapes, PassTypes, Fresh
<1>6. ASSUME NEW s \in Slots, batch'[s] # batch[s], NEW d \in batch'[s].deals, d \notin contested
      PROVE  verdict[d] \in {"none", "error"} /\ (d \in redrained \/ \A t \in Slots : ~Running(t, d))
  <2>1. batch'[s].deals \in accepted
    BY <1>1, <1>6, CommitOpens
  <2>2. Open(d) /\ d \in Deals
    BY <1>3, <1>5, <1>6, <2>1
  <2> QED
    BY <1>6, <2>2 DEF Open, BatchInv, RunningHeld
<1>7. SlotPaidOnce
  BY <1>6 DEF SlotPaidOnce
<1> QED
  BY <1>4, <1>7

LEMMA StepPaysOnce ==
  ASSUME AuditInv, BatchInv, [Next]_vars PROVE VerdictKept /\ SlotPaidOnce
<1>0. DOMAIN batch = Slots /\ DOMAIN verdict = Deals
  BY DEF AuditInv, Shapes
<1>1. ASSUME UNCHANGED <<verdict, batch>> PROVE VerdictKept /\ SlotPaidOnce
  BY <1>1 DEF VerdictKept, SlotPaidOnce
<1>2. ASSUME NEW d \in Deals, PollDrains(d) PROVE VerdictKept /\ SlotPaidOnce
  <2>1. PICK s \in poll.draining : verdict' = [verdict EXCEPT ![d] = Drained(@, batch[s].results[d])]
    BY <1>2 DEF PollDrains
  <2>2. VerdictKept
    BY <1>0, <2>1 DEF VerdictKept, Drained, Settled
  <2> QED
    BY <1>2, <2>2 DEF PollDrains, SlotPaidOnce
<1>3. ASSUME NEW s \in Slots, BatchEnds(s) PROVE VerdictKept /\ SlotPaidOnce
  <2>1. UNCHANGED verdict /\ batch[s] # Free /\ \A t \in Slots \ {s} : batch'[t] = batch[t]
    BY <1>0, <1>3 DEF BatchEnds, Free
  <2> QED
    BY <2>1 DEF VerdictKept, SlotPaidOnce
<1>4. ASSUME PollCloses PROVE VerdictKept /\ SlotPaidOnce
  <2>1. UNCHANGED verdict /\ \A t \in Slots : batch'[t] \in {Free, batch[t]}
    BY <1>4 DEF PollCloses
  <2> QED
    BY <2>1 DEF VerdictKept, SlotPaidOnce
<1>5. ASSUME NEW p \in Passes, PassCommits(p) PROVE VerdictKept /\ SlotPaidOnce
  BY <1>5, CommitPaysOnce
<1>6. ASSUME NEW p \in Passes, \/ \E mode \in Modes : PassLists(p, mode)
                               \/ PassReadsDone(p) \/ PassReadsInFlight(p) \/ PassDies(p)
      PROVE  VerdictKept /\ SlotPaidOnce
  BY <1>1, <1>6 DEF PassLists, PassReadsDone, PassReadsInFlight, PassDies
<1> QED
  BY <1>1, <1>2, <1>3, <1>4, <1>5, <1>6
  DEF Next, vars, DealCloses, TranscriptArrives, OrphansEnd, PollRetrieves, PollPasses, PollStarts, PollDies

-----------------------------------------------------------------------------
(* The module's "only advances past deals that are definitively done": every deal    *)
(* behind the cursor has a verdict, is excused or was found open by two passes.      *)
THEOREM AuditCursorWaits == Spec => []CursorWaits
<1>1. AuditInv => CursorWaits
  BY DEF AuditInv, CursorWaits, Before, Good
<1> QED
  BY <1>1, AuditStart, AuditStep, PTL DEF Spec

(* _settle: a verdict, once given, is neither replaced nor deleted, except by a pass *)
(* that had found the deal open when another wrote it.                                *)
THEOREM AuditVerdictStays == Spec => VerdictStays
<1>1. AuditInv /\ BatchInv /\ [Next]_vars =>
        [\A d \in Deals : verdict[d] \in Settled /\ d \notin contested => verdict'[d] = verdict[d]]_vars
  BY StepPaysOnce DEF VerdictKept
<1> QED
  BY <1>1, AuditStart, AuditStep, BatchStep, PTL DEF Spec, VerdictStays

(* run_audit, "must not be submitted twice": a batch is opened over deals that are *)
(* not settled and that no known batch runs over, but for contested deals and      *)
(* those whose row a batch drained late had taken.                                  *)
THEOREM AuditNotSubmittedTwice == Spec => NotSubmittedTwice
<1>1. AuditInv /\ BatchInv /\ [Next]_vars =>
        [\A s \in Slots : batch[s] = Free /\ batch'[s] # Free
           => \A d \in batch'[s].deals \ contested :
                /\ verdict[d] \in {"none", "error"}
                /\ d \in redrained \/ \A t \in Slots : ~Running(t, d)]_vars
  BY StepPaysOnce DEF SlotPaidOnce
<1> QED
  BY <1>1, AuditStart, AuditStep, BatchStep, PTL DEF Spec, NotSubmittedTwice
-----------------------------------------------------------------------------
(* What the checks conclude of a portal, however many deals and dials it has. *)

LEMMA LeastPlace ==
  ASSUME NEW S \in SUBSET Nat, S # {}
  PROVE  \E n \in S : \A m \in S : n <= m
<1>1. PICK n \in S : \A m \in S : ~(<<m, n>> \in OpToRel(<, Nat))
  BY NatLessThanWellFounded, WFMin, Zenon
<1>2. \A m \in S : ~(m < n)
  BY <1>1 DEF OpToRel
<1> QED
  BY <1>2

LEMMA GreatestPlace ==
  ASSUME NEW N \in Nat, NEW S \in SUBSET (1..N), S # {}
  PROVE  \E n \in S : \A m \in S : m <= n
<1> DEFINE T == {k \in Nat : \E m \in S : k = N - m}
<1>1. \A m \in S : m \in Int /\ m <= N
  OBVIOUS
<1>2. T \in SUBSET Nat /\ T # {}
  <2>1. PICK m \in S : TRUE
    OBVIOUS
  <2>2. N - m \in T
    BY <1>1, <2>1
  <2> QED
    BY <2>2
<1>3. PICK k \in T : \A m \in T : k <= m
  <2> HIDE DEF T
  <2> QED
    BY <1>2, LeastPlace
<1>4. PICK n \in S : k = N - n
  BY <1>3
<1>5. \A m \in S : N - n <= N - m
  BY <1>1, <1>3, <1>4
<1> QED
  BY <1>1, <1>4, <1>5

(* Two items are enough to find one beside a given one among the oldest. *)
LEMMA OldestFindsAnother ==
  ASSUME NEW S \in SUBSET Nat, NEW d, S \ {d} # {}, NEW n \in Nat \ {0, 1}
  PROVE  Oldest(S, n) \ {d} # {}
<1>1. PICK a \in S \ {d} : \A b \in S \ {d} : a <= b
  BY LeastPlace
<1>2. {y \in S : y < a} \subseteq {d}
  <2>1. \A y \in S : y \in Int
    OBVIOUS
  <2>2. ASSUME NEW y \in S, y < a, y # d PROVE FALSE
    <3>1. a <= y /\ a \in Int
      BY <1>1, <2>1, <2>2
    <3> QED
      BY <2>1, <2>2, <3>1
  <2> QED
    BY <2>2
<1>3. Cardinality({y \in S : y < a}) <= 1
  <2>1. IsFiniteSet({d}) /\ Cardinality({d}) = 1
    BY FS_Singleton
  <2> QED
    BY <1>2, <2>1, FS_Subset
<1>4. IsFiniteSet({y \in S : y < a})
  BY <1>2, FS_Singleton, FS_Subset
<1>5. Cardinality({y \in S : y < a}) < n
  <2>1. Cardinality({y \in S : y < a}) \in Nat
    BY <1>4, FS_CardinalityType
  <2> QED
    BY <1>3, <2>1
<1> QED
  BY <1>1, <1>5 DEF Oldest

(* A cut list has as many items as fit. *)
LEMMA LatestAsMany ==
  ASSUME NEW N \in Nat, NEW S \in SUBSET (1..N), NEW n \in Nat \ {0}
  PROVE  /\ Latest(S, n) \subseteq S
         /\ Cardinality(Latest(S, n)) = Min({n, Cardinality(S)})
<1> DEFINE R == Latest(S, n)
           above(x) == {y \in S : y > x}
<1>1. IsFiniteSet(S) /\ Cardinality(S) \in Nat
  <2>1. IsFiniteSet(1..N)
    BY FS_Interval
  <2> QED
    BY <2>1, FS_Subset, FS_CardinalityType
<1>2. R \subseteq S /\ IsFiniteSet(R) /\ Cardinality(R) \in Nat /\ Cardinality(R) <= Cardinality(S)
  <2>1. R \in SUBSET S
    BY DEF Latest
  <2> QED
    BY <1>1, <2>1, FS_Subset, FS_CardinalityType
<1>3. \A x \in S : /\ IsFiniteSet(above(x)) /\ Cardinality(above(x)) \in Nat
                   /\ x \in R <=> Cardinality(above(x)) < n
  <2>1. ASSUME NEW x \in S PROVE IsFiniteSet(above(x)) /\ Cardinality(above(x)) \in Nat
    BY <1>1, FS_Subset, FS_CardinalityType
  <2> QED
    BY <2>1 DEF Latest
<1> HIDE DEF R
<1>4. Cardinality(R) <= n
  <2>1. CASE R = {}
    BY <2>1, FS_EmptySet
  <2>2. CASE R # {}
    <3>1. PICK z \in R : \A x \in R : z <= x
      BY <1>2, <2>2, LeastPlace
    <3>2. R \ {z} \in SUBSET above(z)
      BY <1>2, <3>1
    <3>3. Cardinality(above(z)) < n /\ Cardinality(above(z)) \in Nat /\ IsFiniteSet(above(z))
      BY <1>2, <1>3, <3>1
    <3>4. Cardinality(R \ {z}) = Cardinality(R) - 1
      BY <1>2, <3>1, FS_RemoveElement
    <3>5. Cardinality(R \ {z}) <= Cardinality(above(z))
      <4> HIDE DEF above
      <4> QED
        BY <3>2, <3>3, FS_Subset
    <3> QED
      BY <1>2, <3>3, <3>4, <3>5
  <2> QED
    BY <2>1, <2>2
<1>5. CASE R = S
  <2>1. Cardinality(R) = Cardinality(S)
    BY <1>5
  <2> QED
    BY <1>1, <1>2, <1>4, <2>1 DEF Min, R
<1>6. CASE R # S
  <2>1. PICK x \in S \ R : \A y \in S \ R : y <= x
    <3>1. S \ R \in SUBSET (1..N) /\ S \ R # {}
      BY <1>2, <1>6
    <3> QED
      BY <3>1, GreatestPlace
  <2>2. above(x) \in SUBSET R
    <3>1. \A y \in S : y \in Int
      OBVIOUS
    <3>2. ASSUME NEW y \in S, y > x, y \notin R PROVE FALSE
      <4>1. y <= x /\ x \in Int
        BY <2>1, <3>1, <3>2
      <4> QED
        BY <3>1, <3>2, <4>1
    <3> QED
      BY <3>2
  <2>3. ~(Cardinality(above(x)) < n) /\ Cardinality(above(x)) \in Nat
    BY <1>3, <2>1
  <2>4. Cardinality(above(x)) <= Cardinality(R)
    <3> HIDE DEF above
    <3> QED
      BY <1>2, <2>2, FS_Subset
  <2>5. Cardinality(R) = n /\ n <= Cardinality(S)
    BY <1>1, <1>2, <1>4, <2>3, <2>4
  <2> QED
    BY <1>1, <1>2, <2>5 DEF Min, R
<1> QED
  BY <1>5, <1>6
(* The state of a portal that is looked at: places of deals and dials are numbers. *)
LEMMA PortalShape ==
  ASSUME RulesInit
  PROVE  /\ Len(portal.deals) \in Nat /\ AllDeals \in SUBSET Nat /\ IsFiniteSet(AllDeals)
         /\ \A d \in AllDeals : /\ Card_(d).contact \in Contacts \cup {NoContact}
                                /\ Card_(d).reason \in DOMAIN Route
                                /\ Card_(d).created \in Int /\ Card_(d).closed \in Int
         /\ DOMAIN portal.dials \in SUBSET Nat /\ IsFiniteSet(DOMAIN portal.dials)
         /\ \A i \in DOMAIN portal.dials : portal.dials[i].at \in Int
<1>1. portal \in Portals
  BY DEF RulesInit
<1>2. /\ portal.deals \in Seq(Range(portal.deals)) /\ portal.dials \in Seq(Range(portal.dials))
      /\ \A c \in Range(portal.deals) : /\ c.contact \in Contacts \cup {NoContact} /\ c.reason \in DOMAIN Route
                                        /\ c.created \in Int /\ c.closed \in Int
      /\ \A r \in Range(portal.dials) : r.at \in Int
  BY <1>1, RulesAssumption
<1>3. /\ Len(portal.deals) \in Nat /\ DOMAIN portal.deals = 1..Len(portal.deals)
      /\ Len(portal.dials) \in Nat /\ DOMAIN portal.dials = 1..Len(portal.dials)
  BY <1>2
<1>4. \A d \in AllDeals : Card_(d) \in Range(portal.deals)
  BY <1>3 DEF AllDeals, Card_, Range
<1>5. \A i \in DOMAIN portal.dials : portal.dials[i] \in Range(portal.dials)
  BY DEF Range
<1>6. IsFiniteSet(AllDeals) /\ IsFiniteSet(DOMAIN portal.dials)
  <2>1. IsFiniteSet(1..Len(portal.deals)) /\ IsFiniteSet(1..Len(portal.dials))
    BY <1>3, FS_Interval
  <2> QED
    BY <1>3, <2>1 DEF AllDeals
<1>7. AllDeals \in SUBSET Nat /\ DOMAIN portal.dials \in SUBSET Nat
  BY <1>3 DEF AllDeals
<1> QED
  BY <1>2, <1>3, <1>4, <1>5, <1>6, <1>7

Sharing(d) == {e \in AllDeals : Card_(e).contact \in SharingContacts(d)}

(* The deals of the contacts found are the deal itself and the same person's. *)
LEMMA SharingIsTwins ==
  ASSUME RulesInit, NEW d \in AllDeals, NumbersOf(d) # {}
  PROVE  /\ Sharing(d) = Twins(d) \cup {d} /\ d \notin Twins(d)
         /\ OtherDeals(d) \subseteq Twins(d) /\ (Twins(d) # {} => OtherDeals(d) # {})
<1>1. NoContact \notin Contacts /\ MaxDupDeals \in Nat \ {0, 1}
  BY RulesAssumption
<1>2. Card_(d).contact \in Contacts /\ NumbersOf(d) = portal.book[Card_(d).contact]
  BY PortalShape DEF NumbersOf
<1>3. \A e \in AllDeals :
        Card_(e).contact \in SharingContacts(d) <=>
          Card_(e).contact = Card_(d).contact \/ NumbersOf(e) \cap NumbersOf(d) # {}
  <2> TAKE e \in AllDeals
  <2>1. Card_(e).contact \in Contacts \cup {NoContact}
    BY PortalShape
  <2>2. CASE Card_(e).contact = NoContact
    BY <1>1, <1>2, <2>2 DEF NumbersOf, SharingContacts
  <2>3. CASE Card_(e).contact \in Contacts
    <3>1. NumbersOf(e) = portal.book[Card_(e).contact]
      BY <1>1, <2>3 DEF NumbersOf
    <3> QED
      BY <2>3, <3>1 DEF SharingContacts
  <2> QED
    BY <2>1, <2>2, <2>3
<1>4. Sharing(d) = Twins(d) \cup {d} /\ d \notin Twins(d)
  BY <1>3 DEF Sharing, Twins
<1>5. OtherDeals(d) = Oldest(Sharing(d), MaxDupDeals) \ {d}
  BY DEF OtherDeals, Sharing
<1>6. OtherDeals(d) \subseteq Twins(d)
  BY <1>4, <1>5 DEF Oldest
<1>7. ASSUME Twins(d) # {} PROVE OtherDeals(d) # {}
  <2>1. Sharing(d) \ {d} # {} /\ Sharing(d) \in SUBSET Nat
    BY <1>4, <1>7, PortalShape DEF Sharing
  <2> QED
    BY <1>1, <1>5, <2>1, OldestFindsAnother
<1> QED
  BY <1>4, <1>6, <1>7

(* A twin is one both ways, and has a number. *)
LEMMA TwinsMeet ==
  ASSUME RulesInit, NEW d \in AllDeals, NumbersOf(d) # {}, NEW e \in Twins(d)
  PROVE  e \in AllDeals /\ NumbersOf(e) # {} /\ d \in Twins(e) /\ d # e
BY DEF Twins, NumbersOf

LEMMA DuplicatesAreTrue ==
  ASSUME RulesInit, NEW d \in AllDeals, NumbersOf(d) # {}
  PROVE  /\ DuplicateVerdict(d) = "contradicted" <=> Twins(d) = {} /\ portal.leads \cap NumbersOf(d) = {}
         /\ \A e \in Twins(d) :
              /\ DuplicateVerdict(d) = "supported" /\ DuplicateVerdict(e) # "contradicted"
              /\ Twins(d) = {e} /\ Twins(e) = {d} /\ Card_(d).tm /\ Card_(e).tm
                   => ExpectedKind(d) = ExpectedKind(e)
<1>1. OtherDeals(d) = {} <=> Twins(d) = {}
  BY SharingIsTwins
<1>2. DuplicateVerdict(d) = "contradicted" <=> Twins(d) = {} /\ portal.leads \cap NumbersOf(d) = {}
  BY <1>1 DEF DuplicateVerdict
<1>3. ASSUME NEW e \in Twins(d)
      PROVE  /\ DuplicateVerdict(d) = "supported" /\ DuplicateVerdict(e) # "contradicted"
             /\ Twins(d) = {e} /\ Twins(e) = {d} /\ Card_(d).tm /\ Card_(e).tm
                  => ExpectedKind(d) = ExpectedKind(e)
  <2>1. e \in AllDeals /\ NumbersOf(e) # {} /\ d \in Twins(e) /\ d # e
    BY TwinsMeet
  <2>2. OtherDeals(d) # {} /\ OtherDeals(e) # {}
    BY <1>3, <2>1, SharingIsTwins
  <2>3. DuplicateVerdict(d) = "supported" /\ DuplicateVerdict(e) # "contradicted"
    BY <2>1, <2>2 DEF DuplicateVerdict
  <2>4. ASSUME Twins(d) = {e}, Twins(e) = {d}, Card_(d).tm, Card_(e).tm
        PROVE  ExpectedKind(d) = ExpectedKind(e)
    <3>1. OtherDeals(d) = {e}
      BY <2>2, <2>4, SharingIsTwins
    <3>2. OtherDeals(e) = {d}
      BY <2>1, <2>2, <2>4, SharingIsTwins
    <3>3. ExpectedKind(d) = IF Card_(d).project = "none" \/ {Card_(e).project} \ {"none"} = {} THEN "unresolved"
                            ELSE IF Card_(d).project \in {Card_(e).project} \ {"none"} THEN "same" ELSE "other"
      <4>1. {Card_(x).project : x \in {y \in OtherDeals(d) : Card_(y).tm}} = {Card_(e).project}
        BY <2>4, <3>1
      <4> QED
        BY <4>1 DEF ExpectedKind
    <3>4. ExpectedKind(e) = IF Card_(e).project = "none" \/ {Card_(d).project} \ {"none"} = {} THEN "unresolved"
                            ELSE IF Card_(e).project \in {Card_(d).project} \ {"none"} THEN "same" ELSE "other"
      <4>1. {Card_(x).project : x \in {y \in OtherDeals(e) : Card_(y).tm}} = {Card_(d).project}
        BY <2>4, <3>2
      <4> QED
        BY <4>1 DEF ExpectedKind
    <3> QED
      BY <3>3, <3>4
  <2> QED
    BY <2>3, <2>4
<1> QED
  BY <1>2, <1>3

LEMMA ReachedAreTrue ==
  ASSUME RulesInit, NEW d \in AllDeals, NumbersOf(d) # {}
  PROVE  /\ \A r \in AnsweredTo(d) :
              /\ Card_(d).created - DayBuffer <= r.at
              /\ r.at <= Card_(d).closed \/ (Card_(d).closed <= Card_(d).created /\ r.at < Card_(d).created + MonthSpan)
              => \/ ReachVerdict(d) = "contradicted"
                 \/ Cardinality({i \in DOMAIN portal.dials : portal.dials[i].number = r.number}) > MaxDials
         /\ ReachVerdict(d) = "contradicted" => AnsweredTo(d) # {}
<1> DEFINE w == AuditWindow(d)
           rows(n) == {i \in DOMAIN portal.dials : LET r == portal.dials[i]
                                                  IN r.number = n /\ w.from <= r.at /\ r.at < w.to}
           all(n) == {i \in DOMAIN portal.dials : portal.dials[i].number = n}
<1>1. /\ MaxDials \in Nat /\ DayBuffer \in Nat \ {0} /\ MonthSpan \in Nat \ {0}
      /\ Card_(d).created \in Int /\ Card_(d).closed \in Int
  BY RulesAssumption, PortalShape
<1>2. \A n : Attempts(n, w) = Oldest(rows(n), MaxDials)
  BY DEF Attempts
<1>3. ASSUME NEW r \in AnsweredTo(d), Card_(d).created - DayBuffer <= r.at,
             r.at <= Card_(d).closed \/ (Card_(d).closed <= Card_(d).created /\ r.at < Card_(d).created + MonthSpan),
             ReachVerdict(d) # "contradicted"
      PROVE  Cardinality(all(r.number)) > MaxDials
  <2>1. PICK i \in DOMAIN portal.dials : portal.dials[i] = r
    BY DEF AnsweredTo, Range
  <2>2. r.answered /\ r.number \in NumbersOf(d) /\ r.at \in Int
    BY <2>1, PortalShape DEF AnsweredTo
  <2>3. w.from <= r.at /\ r.at < w.to
    <3>1. w.from = Card_(d).created - DayBuffer
      BY DEF AuditWindow
    <3>2. w.to = IF Card_(d).closed > Card_(d).created THEN Card_(d).closed + DayBuffer
                 ELSE Card_(d).created + MonthSpan
      BY DEF AuditWindow
    <3> HIDE DEF w
    <3> QED
      BY <1>1, <1>3, <2>2, <3>1, <3>2
  <2>4. i \in rows(r.number)
    BY <2>1, <2>3
  <2>5. i \notin Attempts(r.number, w)
    BY <1>3, <2>1, <2>2 DEF ReachVerdict
  <2> HIDE DEF w
  <2> DEFINE before == {j \in rows(r.number) : j < i}
  <2>6. ~(Cardinality(before) < MaxDials)
    BY <1>2, <2>4, <2>5 DEF Oldest
  <2>7. IsFiniteSet(all(r.number)) /\ before \in SUBSET (all(r.number) \ {i}) /\ i \in all(r.number)
    <3>1. all(r.number) \in SUBSET (DOMAIN portal.dials)
      OBVIOUS
    <3>2. IsFiniteSet(all(r.number))
      BY <3>1, PortalShape, FS_Subset
    <3>3. DOMAIN portal.dials \in SUBSET Nat
      BY PortalShape
    <3> QED
      BY <2>4, <3>2, <3>3
  <2> HIDE DEF before, all
  <2>8. /\ Cardinality(all(r.number) \ {i}) = Cardinality(all(r.number)) - 1
        /\ IsFiniteSet(all(r.number) \ {i})
    BY <2>7, FS_RemoveElement
  <2>9. Cardinality(before) <= Cardinality(all(r.number) \ {i}) /\ IsFiniteSet(before)
    BY <2>7, <2>8, FS_Subset
  <2>10. Cardinality(before) \in Nat /\ Cardinality(all(r.number)) \in Nat
    BY <2>7, <2>9, FS_CardinalityType
  <2> QED
    BY <1>1, <2>6, <2>8, <2>9, <2>10
<1>4. ASSUME ReachVerdict(d) = "contradicted" PROVE AnsweredTo(d) # {}
  <2>1. PICK n \in NumbersOf(d) : \E i \in Attempts(n, w) : portal.dials[i].answered
    BY <1>4 DEF ReachVerdict
  <2>2. PICK i \in Attempts(n, w) : portal.dials[i].answered
    BY <2>1
  <2>3. i \in DOMAIN portal.dials /\ portal.dials[i].number = n
    BY <1>2, <2>2 DEF Oldest
  <2>4. portal.dials[i] \in AnsweredTo(d)
    BY <2>1, <2>2, <2>3 DEF AnsweredTo, Range
  <2> QED
    BY <2>4
<1> QED
  BY <1>3, <1>4

(* duplicates.py "the number carries no other deal and no lead", telephony.py "answered *)
(* at least once in the deal's lifetime": whatever the portal holds, a finding that is  *)
(* shown is true, and one that is due is shown unless the queue is full.                 *)
THEOREM AuditFindingsTrue == RulesInit => FindingsAreTrue
<1> SUFFICES ASSUME RulesInit PROVE FindingsAreTrue
  OBVIOUS
<1>1. ASSUME NEW m
      PROVE  LET shown == FindingsShown(m)
                 due   == {d \in AllDeals : /\ Card_(d).who = m
                                            /\ \/ Card_(d).reason \in {"same", "other"} /\ DuplicateVerdict(d) = "contradicted"
                                               \/ Card_(d).reason = "never" /\ ReachVerdict(d) = "contradicted"}
             IN shown \subseteq due /\ Cardinality(shown) = Min({MaxFindings, Cardinality(due)})
  <2> DEFINE due == {d \in AllDeals : /\ Card_(d).who = m
                                      /\ \/ Card_(d).reason \in {"same", "other"} /\ DuplicateVerdict(d) = "contradicted"
                                         \/ Card_(d).reason = "never" /\ ReachVerdict(d) = "contradicted"}
             found == {d \in AllDeals : /\ Card_(d).who = m /\ Card_(d).reason # "robot"
                                        /\ RuleVerdict(d) = "contradicted"}
  <2>1. ASSUME NEW d \in AllDeals PROVE d \in found <=> d \in due
    <3>1. Card_(d).reason \in {"same", "other", "never", "robot", "price"}
      BY PortalShape DEF Route
    <3>2. CASE Card_(d).reason \in {"same", "other"}
      <4>1. RuleVerdict(d) = DuplicateVerdict(d)
        BY <3>2 DEF RuleVerdict, Route
      <4> QED
        BY <2>1, <3>2, <4>1
    <3>3. CASE Card_(d).reason \in {"never", "robot"}
      <4>1. RuleVerdict(d) = ReachVerdict(d)
        BY <3>3 DEF RuleVerdict, Route
      <4> QED
        BY <2>1, <3>3, <4>1
    <3>4. CASE Card_(d).reason = "price"
      <4>1. RuleVerdict(d) = "none"
        BY <3>4 DEF RuleVerdict, Route
      <4> QED
        BY <2>1, <3>4, <4>1
    <3> QED
      BY <3>1, <3>2, <3>3, <3>4
  <2>2. found = due
    BY <2>1, Zenon
  <2>3. FindingsShown(m) = Latest(due, MaxFindings)
    <3>1. FindingsShown(m) = Latest(found, MaxFindings)
      BY DEF FindingsShown
    <3> QED
      BY <2>2, <3>1
  <2>4. Len(portal.deals) \in Nat /\ due \in SUBSET (1..Len(portal.deals)) /\ MaxFindings \in Nat \ {0}
    BY PortalShape, RulesAssumption DEF AllDeals
  <2> HIDE DEF due
  <2>5. Latest(due, MaxFindings) \subseteq due /\ Cardinality(Latest(due, MaxFindings)) = Min({MaxFindings, Cardinality(due)})
    BY <2>4, LatestAsMany
  <2> QED
    BY <2>3, <2>5, Zenon DEF due
<1> QED
  BY <1>1, DuplicatesAreTrue, ReachedAreTrue, Zenon DEF FindingsAreTrue
===============================================================================
