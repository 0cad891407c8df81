------------------------------- MODULE CabinetProofs -------------------------------
(***************************************************************************)
(* The department of a manager, for any number of managers, transactions   *)
(* and keys.  Of a manager no two transactions cross, the one under way    *)
(* has the row as it stands; so an enriching pass is not under way once    *)
(* the cabinet has given its word, and a request writes what it means.     *)
(***************************************************************************)
EXTENDS CabinetAccess, ScreenCaches, SequenceTheorems, FiniteSetTheorems, TLAPS

StaffRows == [known : BOOLEAN, dept : Depts \cup {None}, enriched : BOOLEAN]
Busy(w, m) == writer[w].job # "rest" /\ writer[w].manager = m

AccessShapes ==
  /\ staff \in [Managers -> StaffRows] /\ word \in [Managers -> Depts \cup {None}]
  /\ DOMAIN writer = Writers
  /\ \A w \in Writers : writer[w].job # "rest" =>
       writer[w].manager \in Managers /\ writer[w].loaded \in StaffRows
         /\ writer[w].dept \in Depts \cup {None}

(* The one transaction on a manager's row has loaded what is there. *)
Alone(m) ==
  /\ \A w, o \in Writers : Busy(w, m) /\ Busy(o, m) => w = o
  /\ \A w \in Writers : Busy(w, m) =>
       writer[w].loaded = staff[m] /\ (writer[w].job = "enrich" => ~staff[m].enriched)

WordKept(m) == word[m] # None => staff[m].dept = word[m] /\ staff[m].enriched

AccessInv == AccessShapes /\ \A m \in Managers \ crossed : Alone(m) /\ WordKept(m)

LEMMA BeginsKeeps ==
  ASSUME AccessInv, NEW w \in Writers, NEW m \in Managers, NEW work \in {"enrich", "assign"},
         NEW dept \in Depts \cup {None}, NEW replaces, Begins(w, m, work, dept, replaces),
         work = "enrich" => ~staff[m].enriched, UNCHANGED <<staff, word>>
  PROVE  AccessInv'
<1> DEFINE new == [job |-> work, manager |-> m, loaded |-> staff[m], dept |-> dept, replaces |-> replaces]
<1>1. /\ writer' = [writer EXCEPT ![w] = new] /\ writer[w].job = "rest"
      /\ crossed \subseteq crossed'
      /\ m \notin crossed' => \A o \in Writers \ {w} : ~Busy(o, m)
  BY DEF Begins, Busy
<1>2. /\ new.job = work /\ new.manager = m /\ new.loaded = staff[m] /\ new.dept = dept
      /\ staff[m] \in StaffRows
  BY DEF AccessInv, AccessShapes
<1> HIDE DEF new
<1>3. \A o \in Writers : writer'[o] = IF o = w THEN new ELSE writer[o]
  BY <1>1 DEF AccessInv, AccessShapes
<1>4. AccessShapes'
  BY <1>1, <1>2, <1>3 DEF AccessInv, AccessShapes
<1>5. ASSUME NEW n \in Managers \ crossed' PROVE Alone(n)' /\ WordKept(n)'
  <2>1. Alone(n) /\ WordKept(n)
    BY <1>1 DEF AccessInv
  <2>2. CASE n = m
    BY <1>1, <1>2, <1>3, <1>5, <2>1, <2>2 DEF Alone, WordKept, Busy
  <2>3. CASE n # m
    BY <1>2, <1>3, <2>1, <2>3 DEF Alone, WordKept, Busy
  <2> QED
    BY <2>2, <2>3
<1> QED
  BY <1>4, <1>5 DEF AccessInv

(* A transaction ends; the row it writes keeps the word, if it was alone on it. *)
LEMMA WriterEnds ==
  ASSUME AccessInv, NEW w \in Writers, writer[w].job # "rest",
         writer' = [writer EXCEPT ![w] = Resting], UNCHANGED crossed,
         NEW m \in Managers, m = writer[w].manager,
         NEW new \in StaffRows, staff' = [staff EXCEPT ![m] = new],
         NEW said \in Depts \cup {None}, word' = [word EXCEPT ![m] = said],
         Alone(m) /\ WordKept(m) /\ said # None => new.dept = said /\ new.enriched
  PROVE  AccessInv'
<1>1. Resting.job = "rest"
  BY DEF Resting
<1>2. \A o \in Writers : writer'[o] = IF o = w THEN Resting ELSE writer[o]
  BY DEF AccessInv, AccessShapes
<1>3. \A n \in Managers : /\ staff'[n] = IF n = m THEN new ELSE staff[n]
                          /\ word'[n] = IF n = m THEN said ELSE word[n]
  BY DEF AccessInv, AccessShapes
<1>4. AccessShapes'
  BY <1>1, <1>2 DEF AccessInv, AccessShapes
<1>5. ASSUME NEW n \in Managers \ crossed' PROVE Alone(n)' /\ WordKept(n)'
  <2>1. Alone(n) /\ WordKept(n)
    BY DEF AccessInv
  <2>2. CASE n = m
    <3>1. \A o \in Writers : ~Busy(o, m)'
      BY <1>1, <1>2, <2>1, <2>2 DEF Alone, Busy
    <3> QED
      BY <1>3, <2>1, <2>2, <3>1 DEF Alone, WordKept
  <2>3. CASE n # m
    BY <1>1, <1>2, <1>3, <2>1, <2>3 DEF Alone, WordKept, Busy
  <2> QED
    BY <2>2, <2>3
<1> QED
  BY <1>4, <1>5 DEF AccessInv

(* What an ORM flush leaves of a row that nobody else has touched. *)
LEMMA MergedRow ==
  ASSUME NEW loaded \in StaffRows, NEW current \in StaffRows, NEW dept \in Depts \cup {None}
  PROVE  /\ Merged(loaded, current, dept) \in StaffRows
         /\ loaded = current /\ dept # None =>
              Merged(loaded, current, dept).dept = dept /\ Merged(loaded, current, dept).enriched
BY DEF Merged, StaffRows

LEMMA WritesKeep ==
  ASSUME AccessInv, NEW w \in Writers, EnrichWrites(w) \/ EnrichDegrades(w) \/ AssignWrites(w) \/ WriterFails(w)
  PROVE  AccessInv'
<1> DEFINE m == writer[w].manager
<1>1. /\ writer[w].job # "rest" /\ writer' = [writer EXCEPT ![w] = Resting] /\ UNCHANGED crossed
  BY DEF EnrichWrites, EnrichDegrades, AssignWrites, WriterFails
<1>2. /\ m \in Managers /\ writer[w].loaded \in StaffRows /\ writer[w].dept \in Depts \cup {None}
      /\ staff[m] \in StaffRows /\ word[m] \in Depts \cup {None}
  BY <1>1 DEF AccessInv, AccessShapes
<1>3. Alone(m) => writer[w].loaded = staff[m] /\ (writer[w].job = "enrich" => ~staff[m].enriched)
  BY <1>1 DEF Alone, Busy
<1> DEFINE merged == Merged(writer[w].loaded, staff[m], writer[w].dept)
<1>4. merged \in StaffRows /\ (writer[w].loaded = staff[m] /\ writer[w].dept # None =>
                                 merged.dept = writer[w].dept /\ merged.enriched)
  BY <1>2, MergedRow
<1> HIDE DEF m, merged
<1>5. CASE EnrichWrites(w)
  <2>1. /\ staff' = [staff EXCEPT ![m] = merged] /\ word' = [word EXCEPT ![m] = word[m]]
        /\ writer[w].job = "enrich"
    BY <1>5 DEF EnrichWrites, m, merged, AccessInv, AccessShapes
  <2>2. Alone(m) /\ WordKept(m) => word[m] = None
    BY <1>3, <2>1 DEF WordKept
  <2> QED
    BY <1>1, <1>2, <1>4, <2>1, <2>2, WriterEnds DEF m
<1>6. CASE EnrichDegrades(w)
  <2> DEFINE bare == [staff[m] EXCEPT !.known = TRUE]
  <2>1. /\ staff' = [staff EXCEPT ![m] = bare] /\ word' = [word EXCEPT ![m] = word[m]]
        /\ writer[w].job = "enrich"
    BY <1>6 DEF EnrichDegrades, m, AccessInv, AccessShapes
  <2>2. Alone(m) /\ WordKept(m) => word[m] = None
    BY <1>3, <2>1 DEF WordKept
  <2>3. bare \in StaffRows
    BY <1>2 DEF StaffRows
  <2> HIDE DEF bare
  <2> QED
    BY <1>1, <1>2, <2>1, <2>2, <2>3, WriterEnds DEF m
<1>7. CASE AssignWrites(w)
  <2>1. staff' = [staff EXCEPT ![m] = merged] /\ word' = [word EXCEPT ![m] = writer[w].dept]
    BY <1>7 DEF AssignWrites, m, merged
  <2> QED
    BY <1>1, <1>2, <1>3, <1>4, <2>1, WriterEnds DEF m
<1>8. CASE WriterFails(w)
  <2>1. staff' = [staff EXCEPT ![m] = staff[m]] /\ word' = [word EXCEPT ![m] = word[m]]
    BY <1>8 DEF WriterFails, AccessInv, AccessShapes
  <2>2. Alone(m) /\ WordKept(m) /\ word[m] # None => staff[m].dept = word[m] /\ staff[m].enriched
    BY DEF WordKept
  <2> QED
    BY <1>1, <1>2, <2>1, <2>2, WriterEnds DEF m
<1> QED
  BY <1>5, <1>6, <1>7, <1>8

LEMMA AccessStart == AccessInit => AccessInv
<1> SUFFICES ASSUME AccessInit PROVE AccessInv
  OBVIOUS
<1>1. /\ NoRow \in StaffRows
      /\ [known : {TRUE}, dept : {None}, enriched : {FALSE}] \subseteq StaffRows
      /\ [known : {TRUE}, dept : Depts, enriched : {TRUE}] \subseteq StaffRows
  BY DEF NoRow, StaffRows
<1>2. staff \in [Managers -> StaffRows]
  BY <1>1 DEF AccessInit
<1>3. \A w \in Writers : writer[w].job = "rest"
  BY DEF AccessInit, Resting
<1> QED
  BY <1>2, <1>3 DEF AccessInit, AccessInv, AccessShapes, Alone, WordKept, Busy

LEMMA AccessStep == AccessInv /\ [AccessNext]_accessVars => AccessInv'
<1> SUFFICES ASSUME AccessInv, [AccessNext]_accessVars PROVE AccessInv'
  OBVIOUS
<1>1. ASSUME UNCHANGED <<staff, writer, word, crossed>> PROVE AccessInv'
  BY <1>1 DEF AccessInv, AccessShapes, Alone, WordKept, Busy
<1>2. ASSUME NEW w \in Writers, NEW m \in Managers, EnrichReads(w, m) PROVE AccessInv'
  <2>1. BitrixDept[m] \in Depts \cup {None}
    BY AccessAssumption DEF AccessAssumption
  <2> QED
    BY <1>2, <2>1, BeginsKeeps DEF EnrichReads
<1>3. ASSUME NEW w \in Writers, NEW m \in Managers, NEW d \in Depts, IssueReads(w, m, d) PROVE AccessInv'
  BY <1>3, BeginsKeeps DEF IssueReads
<1>4. ASSUME NEW w \in Writers, NEW m \in Managers, NEW d \in Depts, ImportReads(w, m, d) PROVE AccessInv'
  <2>1. PICK i : Begins(w, m, "assign", d, i)
    BY <1>4 DEF ImportReads
  <2> QED
    BY <1>4, <2>1, BeginsKeeps DEF ImportReads
<1>5. ASSUME NEW w \in Writers, EnrichWrites(w) \/ EnrichDegrades(w) \/ AssignWrites(w) \/ WriterFails(w)
      PROVE  AccessInv'
  BY <1>5, WritesKeep
<1> QED
  BY <1>1, <1>2, <1>3, <1>4, <1>5
  DEF AccessNext, accessVars, GlobalHeadIssues, CommandLine, Revokes

(* service.py:457 "the cabinet's word over Bitrix's": the department a head gave a  *)
(* manager is the one it is listed under, unless two transactions crossed on its row. *)
THEOREM AccessCabinetWins == AccessSpec => []CabinetWins
<1>1. AccessInv => CabinetWins
  BY DEF AccessInv, WordKept, CabinetWins
<1> QED
  BY <1>1, AccessStart, AccessStep, PTL DEF AccessSpec

-----------------------------------------------------------------------------
(* The rule of scope needs only the shapes of the two tables it is read from. *)
KeyRows ==
  [role : {"head", "manager"}, manager : Managers \cup {None}, dept : Depts \cup {None}, active : BOOLEAN]

LEMMA KeyAdded ==
  ASSUME NEW old \in Seq(KeyRows), NEW role \in {"head", "manager"},
         NEW m \in Managers \cup {None}, NEW d \in Depts \cup {None}
  PROVE  WithKey(old, role, m, d) \in Seq(KeyRows)
<1> DEFINE copy == [i \in 1..Len(old) |-> old[i]]
           key  == [role |-> role, manager |-> m, dept |-> d, active |-> TRUE]
<1>1. copy \in Seq(KeyRows)
  <2>1. \A i \in 1..Len(old) : old[i] \in KeyRows
    OBVIOUS
  <2>2. Len(old) \in Nat
    OBVIOUS
  <2> QED
    BY <2>1, <2>2
<1>2. key \in KeyRows
  BY DEF KeyRows
<1> HIDE DEF copy, key
<1>3. Append(copy, key) \in Seq(KeyRows)
  BY <1>1, <1>2
<1> QED
  BY <1>3 DEF WithKey, copy, key

LEMMA KeyTouched ==
  ASSUME NEW old \in Seq(KeyRows), NEW new, DOMAIN new = 1..Len(old),
         \A k \in 1..Len(old) : new[k] \in KeyRows, new = [k \in 1..Len(old) |-> new[k]]
  PROVE  new \in Seq(KeyRows)
<1>1. Len(old) \in Nat
  OBVIOUS
<1> QED
  BY <1>1

LEMMA FlagSet ==
  ASSUME NEW key \in KeyRows, NEW flag \in BOOLEAN
  PROVE  [key EXCEPT !.active = flag] \in KeyRows
BY DEF KeyRows

LEMMA KeysStep ==
  ASSUME AccessInv, keys \in Seq(KeyRows), [AccessNext]_accessVars PROVE keys' \in Seq(KeyRows)
<1>1. \A k \in 1..Len(keys) : keys[k] \in KeyRows /\ keys[k].active \in BOOLEAN
  <2>1. \A k \in 1..Len(keys) : keys[k] \in KeyRows
    OBVIOUS
  <2>2. \A key \in KeyRows : key.active \in BOOLEAN
    BY DEF KeyRows
  <2> QED
    BY <2>1, <2>2
<1>2. ASSUME NEW w \in Writers, AssignWrites(w) PROVE keys' \in Seq(KeyRows)
  <2> DEFINE left == [i \in 1..Len(keys) |->
                        IF i = writer[w].replaces THEN [keys[i] EXCEPT !.active = FALSE] ELSE keys[i]]
  <2>1. \A k \in 1..Len(keys) : left[k] \in KeyRows
    BY <1>1, FlagSet
  <2>2. left \in Seq(KeyRows)
    BY <2>1, KeyTouched
  <2>3. writer[w].manager \in Managers
    BY <1>2 DEF AssignWrites, AccessInv, AccessShapes
  <2>4. keys' = WithKey(left, "manager", writer[w].manager, None)
    BY <1>2 DEF AssignWrites
  <2> HIDE DEF left
  <2> QED
    BY <2>2, <2>3, <2>4, KeyAdded
<1>3. ASSUME GlobalHeadIssues PROVE keys' \in Seq(KeyRows)
  BY <1>3, KeyAdded DEF GlobalHeadIssues
<1>4. ASSUME NEW i \in 1..Len(keys), NEW flag \in BOOLEAN, keys' = [keys EXCEPT ![i].active = flag]
      PROVE  keys' \in Seq(KeyRows)
  <2>1. keys' = [k \in 1..Len(keys) |-> IF k = i THEN [keys[i] EXCEPT !.active = flag] ELSE keys[k]]
    <3>1. keys = [k \in 1..Len(keys) |-> keys[k]]
      OBVIOUS
    <3> QED
      BY <1>4, <3>1
  <2>2. \A k \in 1..Len(keys) : keys'[k] \in KeyRows
    BY <1>1, <2>1, FlagSet
  <2> QED
    BY <2>1, <2>2, KeyTouched
<1>5. ASSUME CommandLine PROVE keys' \in Seq(KeyRows)
  <2>1. ASSUME NEW i \in 1..Len(keys), keys' = [keys EXCEPT ![i].active = ~@] PROVE keys' \in Seq(KeyRows)
    BY <1>1, <1>4, <2>1
  <2>2. ASSUME keys' = WithKey(keys, "head", None, None) PROVE keys' \in Seq(KeyRows)
    BY <2>2, KeyAdded
  <2> QED
    BY <1>5, <2>1, <2>2 DEF CommandLine
<1>6. ASSUME NEW who \in Sessions, NEW i \in 1..Len(keys), Revokes(who, i) PROVE keys' \in Seq(KeyRows)
  BY <1>4, <1>6 DEF Revokes
<1>7. ASSUME UNCHANGED keys PROVE keys' \in Seq(KeyRows)
  BY <1>7
<1> QED
  BY <1>2, <1>3, <1>5, <1>6, <1>7
  DEF AccessNext, accessVars, EnrichReads, IssueReads, ImportReads, EnrichWrites, EnrichDegrades, WriterFails

LEMMA ScopeOfShapes ==
  ASSUME AccessShapes, keys \in Seq(KeyRows) PROVE OneScopeRule
<1> SUFFICES ASSUME NEW who \in Identities
             PROVE  /\ \A m \in Managers \cup {None} : CanViewManager(who, m) <=> CanViewCallRow(who, m)
                    /\ None \in FeedbackPages(who) <=> who = GlobalHead
                    /\ UNION {TeamPages(who, d) : d \in Depts} =
                         {m \in ScoredPages(who) : who.role = "head" /\ staff[m].dept # None}
                    /\ MyDept(who) # None => FeedbackPages(who) \subseteq LivePages(HeadOf(MyDept(who)))
                    /\ who.role = "head" =>
                         /\ \A m \in Managers : staff[m].known => (CanViewManager(who, m) <=> m \in Roster(who))
                         /\ \A i \in 1..Len(keys) :
                              MayRevoke(who, i) <=> Administers(who, i) /\ ~(keys[i].role = "head" /\ keys[i].dept = None)
  BY DEF OneScopeRule
<1>1. \/ who = GlobalHead /\ who.role = "head" /\ who.dept = None /\ who.manager = None
      \/ who # GlobalHead /\ who.role = "head" /\ who.dept \in Depts /\ who.manager = None
      \/ who # GlobalHead /\ who.role = "manager" /\ who.dept = None /\ who.manager \in Managers
  BY AccessAssumption DEF AccessAssumption, Identities, GlobalHead, HeadOf, ManagerSelf
<1>2. /\ None \notin Managers /\ None \notin Depts
      /\ \A m \in Managers : staff[m].dept \in Depts \cup {None} /\ DeptOf(m) = staff[m].dept
      /\ DeptOf(None) = None
  BY AccessAssumption DEF AccessAssumption, AccessShapes, StaffRows, DeptOf
<1>3. \A i \in 1..Len(keys) : keys[i].role \in {"head", "manager"} /\ keys[i].manager \in Managers \cup {None}
  <2>1. \A i \in 1..Len(keys) : keys[i] \in KeyRows
    OBVIOUS
  <2>2. \A key \in KeyRows : key.role \in {"head", "manager"} /\ key.manager \in Managers \cup {None}
    BY DEF KeyRows
  <2> QED
    BY <2>1, <2>2
<1>4. \A m \in Managers \cup {None} : CanViewManager(who, m) <=> CanViewCallRow(who, m)
  BY DEF CanViewManager, CanViewCallRow
<1>5. None \in FeedbackPages(who) <=> who = GlobalHead
  BY <1>1, <1>2 DEF FeedbackPages, CanViewManager, CanViewDept
<1>6. UNION {TeamPages(who, d) : d \in Depts} =
        {m \in ScoredPages(who) : who.role = "head" /\ staff[m].dept # None}
  <2>1. \A d \in Depts : \A m : m \in TeamPages(who, d) <=>
          m \in Managers /\ who.role = "head" /\ who.dept \in {None, d} /\ staff[m].known /\ staff[m].dept = d
    BY DEF TeamPages, MayOpenTeam
  <2>2. \A m : m \in ScoredPages(who) /\ who.role = "head" <=>
          m \in Managers /\ staff[m].known /\ who.role = "head"
            /\ (who.dept = None \/ staff[m].dept = who.dept)
    BY <1>2 DEF ScoredPages, CanViewManager, CanViewDept
  <2>3. \A m : m \in UNION {TeamPages(who, d) : d \in Depts} <=> \E d \in Depts : m \in TeamPages(who, d)
    OBVIOUS
  <2>4. \A m : (\E d \in Depts : m \in TeamPages(who, d)) <=>
                  m \in ScoredPages(who) /\ who.role = "head" /\ staff[m].dept # None
    BY <1>2, <2>1, <2>2
  <2> QED
    BY <2>3, <2>4
<1>7. MyDept(who) # None => FeedbackPages(who) \subseteq LivePages(HeadOf(MyDept(who)))
  <2>1. \A d : HeadOf(d).role = "head" /\ HeadOf(d).dept = d
    BY DEF HeadOf
  <2> QED
    BY <1>1, <1>2, <2>1 DEF MyDept, FeedbackPages, LivePages, CanViewManager, CanViewDept
<1>8. who.role = "head" => \A m \in Managers : staff[m].known => (CanViewManager(who, m) <=> m \in Roster(who))
  BY <1>2 DEF CanViewManager, CanViewDept, Roster
<1>9. who.role = "head" => \A i \in 1..Len(keys) :
        MayRevoke(who, i) <=> Administers(who, i) /\ ~(keys[i].role = "head" /\ keys[i].dept = None)
  BY <1>1, <1>2, <1>3 DEF MayRevoke, Administers, CanViewDept
<1> QED
  BY <1>4, <1>5, <1>6, <1>7, <1>8, <1>9

(* One rule of scope, at every endpoint, for every identity and whatever keys and *)
(* departments there are.                                                          *)
THEOREM AccessScope == AccessSpec => []OneScopeRule
<1> DEFINE Inv == AccessInv /\ keys \in Seq(KeyRows)
<1>1. AccessInit => Inv
  BY AccessStart, EmptySeq DEF AccessInit
<1>2. Inv /\ [AccessNext]_accessVars => Inv'
  BY AccessStep, KeysStep
<1>3. Inv => OneScopeRule
  BY ScopeOfShapes DEF AccessInv
<1> QED
  BY <1>1, <1>2, <1>3, PTL DEF AccessSpec

-----------------------------------------------------------------------------
(***************************************************************************)
(* The age of a live screen, for any number of requests, any lifetimes and *)
(* any checkpoints.  Whatever a request has read is as old as the shared   *)
(* count it may have found; a finished view is tied to the instant its     *)
(* request began, and outlives it by a read and a lifetime at most.        *)
(***************************************************************************)
DayAt(date, at) == IF date = TodayTab THEN Today(at) ELSE date
Passed(day, at) == {s \in Srezy : day * HoursADay + s <= at}
KeyAt(screen, date, at) ==
  <<screen, date, IF screen = "team" THEN Cardinality(Passed(DayAt(date, at), at)) ELSE 0>>
Asked(screen) == {TodayTab} \cup IF screen = "hygiene" THEN {} ELSE Nat

(* How old the counts may be that the reads of a screen find in the shared caches. *)
CountsAge(screen) == IF screen = "trend" THEN LongTTL ELSE ShortTTL

CountsFresh ==
  \A k \in DOMAIN shared :
    /\ shared[k].until \in Int /\ shared[k].asof \in Int
    /\ shared[k].until - shared[k].asof <= SharedTTL(k[1]) + MaxRead

(* A request under way. *)
RequestFields == {"screen", "key", "day", "step", "since", "pulling", "asof", "refresh"}
RequestFresh(q, now) ==
  /\ RequestFields \subseteq DOMAIN q
  /\ q.screen \in Screens /\ q.step \in Nat \ {0}
  /\ q.since \in Nat /\ q.since <= now /\ now <= q.since + MaxRead
  /\ q.asof \in Int /\ q.asof <= q.since /\ q.since - CountsAge(q.screen) - MaxRead <= q.asof
  /\ q.screen = "hygiene" => q.asof = q.since
  /\ q.refresh => q.screen = "hygiene"
  /\ \E date \in Asked(q.screen) : q.key = KeyAt(q.screen, date, q.since) /\ q.day = DayAt(date, q.since)

(* A view kept under k, made by a request that began at an instant. *)
ViewOf(k, view, screen, date, at, now) ==
  /\ k = KeyAt(screen, date, at) /\ view.day = DayAt(date, at)
  /\ at <= now /\ view.until <= at + MaxRead + ViewTTL(screen)
  /\ at - CountsAge(screen) - MaxRead <= view.asof
ViewFresh(k) ==
  /\ views[k].until \in Int /\ views[k].asof \in Int
  /\ \E screen \in Screens : \E date \in Asked(screen), at \in Nat : ViewOf(k, views[k], screen, date, at, hour)

(* While no two loads of the hygiene screen overlapped, nothing kept or being read *)
(* of it is older than the last "check again".                                      *)
HygieneLoad(r) == reader[r].screen = "hygiene"
CheckedAgain ==
  ~raced =>
    /\ \A r, o \in Readers : HygieneLoad(r) /\ HygieneLoad(o) => r = o
    /\ \A r \in Readers : HygieneLoad(r) => refreshed <= reader[r].since
    /\ \A k \in DOMAIN views : k[1] = "hygiene" => refreshed <= views[k].asof

CacheInv ==
  /\ hour \in Nat /\ refreshed \in Int /\ refreshed <= hour
  /\ DOMAIN reader = Readers
  /\ \A r \in Readers : reader[r].screen # "none" => RequestFresh(reader[r], hour)
  /\ CountsFresh
  /\ \A k \in DOMAIN views : ViewFresh(k)
  /\ CheckedAgain

-----------------------------------------------------------------------------
(* Arithmetic of days. *)
LEMMA Scaled == ASSUME NEW x \in Int, NEW y \in Int, x <= y PROVE x * HoursADay <= y * HoursADay
BY CachesExpireOvernight DEF CachesExpireOvernight

LEMMA DayBounds ==
  ASSUME NEW h \in Nat
  PROVE  Today(h) \in Nat /\ Today(h) * HoursADay <= h /\ h < Today(h) * HoursADay + HoursADay
BY CachesExpireOvernight DEF CachesExpireOvernight, Today

(* Two instants less than a day apart are of one day, or midnight is between them. *)
LEMMA MidnightBetween ==
  ASSUME NEW a \in Nat, NEW b \in Nat, a <= b, b <= a + HoursADay, Today(a) # Today(b)
  PROVE  a < Today(b) * HoursADay /\ Today(a) = Today(b) - 1
<1> DEFINE p == Today(a)
           q == Today(b)
<1>1. p \in Nat /\ q \in Nat /\ HoursADay \in Nat \ {0}
  BY DayBounds, CachesExpireOvernight DEF CachesExpireOvernight
<1>2. /\ p * HoursADay <= a /\ a < p * HoursADay + HoursADay
      /\ q * HoursADay <= b /\ b < q * HoursADay + HoursADay
  BY DayBounds
<1>3. p # q
  OBVIOUS
<1> HIDE DEF p, q
<1>4. \A x \in Int : (x + 1) * HoursADay = x * HoursADay + HoursADay
  BY <1>1
<1>5. p <= q
  <2>1. CASE q + 1 <= p
    <3>1. (q + 1) * HoursADay <= p * HoursADay
      BY <1>1, <2>1, Scaled
    <3>2. q * HoursADay + HoursADay <= p * HoursADay
      BY <1>1, <1>4, <3>1
    <3>3. p * HoursADay \in Int /\ q * HoursADay \in Int
      BY <1>1
    <3> QED
      BY <1>1, <1>2, <3>2, <3>3
  <2> QED
    BY <1>1, <2>1
<1>6. p + 1 <= q
  BY <1>1, <1>3, <1>5
<1>7. p * HoursADay + HoursADay <= q * HoursADay
  <2>1. (p + 1) * HoursADay <= q * HoursADay
    BY <1>1, <1>6, Scaled
  <2> QED
    BY <1>1, <1>4, <2>1
<1>8. p * HoursADay \in Int /\ q * HoursADay \in Int
  BY <1>1
<1>9. a < q * HoursADay
  BY <1>1, <1>2, <1>7, <1>8
<1>10. q <= p + 1
  <2>1. CASE p + 2 <= q
    <3>1. (p + 1 + 1) * HoursADay <= q * HoursADay
      BY <1>1, <2>1, Scaled
    <3>2. p + 1 \in Int
      BY <1>1
    <3>3. p * HoursADay + HoursADay + HoursADay <= q * HoursADay
      BY <1>1, <1>4, <3>1, <3>2
    <3> QED
      BY <1>1, <1>2, <1>8, <3>3
  <2> QED
    BY <1>1, <2>1
<1> QED
  BY <1>1, <1>6, <1>9, <1>10 DEF p, q

-----------------------------------------------------------------------------
LEMMA FreeScreen == Free.screen = "none"
BY DEF Free

LEMMA CacheConstants ==
  /\ ShortTTL \in Nat \ {0} /\ TeamTTL \in Nat \ {0} /\ LongTTL \in Nat \ {0}
  /\ MaxRead \in Nat \ {0} /\ HoursADay \in Nat \ {0}
  /\ \A screen : ViewTTL(screen) \in Nat /\ CountsAge(screen) \in Nat
  /\ \A via : SharedTTL(via) \in Nat
BY CachesExpireOvernight DEF CachesExpireOvernight, ViewTTL, CountsAge, SharedTTL

(* The months are counted for the trend alone, and hygiene counts nothing. *)
LEMMA ReadsVia ==
  ASSUME NEW screen \in Screens, NEW i \in 1..Len(Reads(screen))
  PROVE  Reads(screen)[i].via # "none" =>
           screen # "hygiene" /\ (Reads(screen)[i].via = "months" <=> screen = "trend")
<1>1. CASE screen = "day"
  BY <1>1 DEF Reads
<1>2. CASE screen = "team"
  BY <1>2 DEF Reads
<1>3. CASE screen = "analytics"
  BY <1>3 DEF Reads
<1>4. CASE screen = "trend"
  BY <1>4 DEF Reads
<1>5. CASE screen = "hygiene"
  BY <1>5 DEF Reads
<1> QED
  BY <1>1, <1>2, <1>3, <1>4, <1>5 DEF Screens

LEMMA CurrentRead ==
  ASSUME CacheInv, NEW r \in Readers, Reading(r)
  PROVE  /\ RequestFresh(reader[r], hour) /\ reader[r].screen # "none"
         /\ Current(r).via # "none" =>
              reader[r].screen # "hygiene" /\ SharedTTL(Current(r).via) = CountsAge(reader[r].screen)
<1>1. RequestFresh(reader[r], hour) /\ reader[r].screen # "none"
  BY DEF CacheInv, Reading
<1>2. reader[r].screen \in Screens /\ reader[r].step \in 1..Len(Reads(reader[r].screen))
  <2>1. Len(Reads(reader[r].screen)) \in Nat
    BY <1>1 DEF RequestFresh, Screens, Reads
  <2> QED
    BY <1>1, <2>1 DEF RequestFresh, Reading
<1>3. Current(r).via # "none" =>
        reader[r].screen # "hygiene" /\ (Current(r).via = "months" <=> reader[r].screen = "trend")
  BY <1>2, ReadsVia DEF Current
<1> QED
  BY <1>1, <1>3 DEF SharedTTL, CountsAge

(* A request goes on, or gives up; the time and the views stay. *)
LEMMA RequestGoesOn ==
  ASSUME CacheInv, NEW r \in Readers, NEW new, reader' = [reader EXCEPT ![r] = new],
         new.screen # "none" => RequestFresh(new, hour),
         new.screen = "hygiene" => HygieneLoad(r) /\ new.since = reader[r].since,
         UNCHANGED <<hour, views, refreshed, raced>>, CountsFresh'
  PROVE  CacheInv'
<1>1. \A o \in Readers : reader'[o] = IF o = r THEN new ELSE reader[o]
  BY DEF CacheInv
<1>3. \A o \in Readers : reader'[o].screen # "none" => RequestFresh(reader'[o], hour')
  BY <1>1 DEF CacheInv
<1>4. \A k \in DOMAIN views' : ViewFresh(k)'
  BY DEF CacheInv, ViewFresh, ViewOf
<1>5. \A o \in Readers : HygieneLoad(o)' => HygieneLoad(o) /\ reader'[o].since = reader[o].since
  BY <1>1 DEF HygieneLoad
<1>6. CheckedAgain'
  BY <1>5 DEF CacheInv, CheckedAgain
<1> QED
  BY <1>3, <1>4, <1>6 DEF CacheInv

(* One more read is done: what the view shows is as old as the oldest of its reads. *)
LEMMA ReadKeeps ==
  ASSUME CacheInv, NEW r \in Readers, reader[r].screen # "none",
         NEW asof \in Int, reader' = Took(r, asof),
         reader[r].since - CountsAge(reader[r].screen) - MaxRead <= asof,
         reader[r].screen = "hygiene" => reader[r].since <= asof,
         UNCHANGED <<hour, views, refreshed, raced>>, CountsFresh'
  PROVE  CacheInv'
<1> DEFINE q == reader[r]
           new == [q EXCEPT !.step = q.step + 1, !.pulling = FALSE,
                            !.asof = IF asof < q.asof THEN asof ELSE q.asof]
<1>1. RequestFresh(q, hour) /\ reader' = [reader EXCEPT ![r] = new]
  <2>1. RequestFresh(q, hour)
    BY DEF CacheInv
  <2>2. reader' = [reader EXCEPT ![r] = new]
    BY DEF Took
  <2> QED
    BY <2>1, <2>2
<1>2. /\ DOMAIN new = DOMAIN q /\ new.screen = q.screen /\ new.key = q.key /\ new.day = q.day
      /\ new.since = q.since /\ new.refresh = q.refresh /\ new.step = q.step + 1
      /\ new.asof = IF asof < q.asof THEN asof ELSE q.asof
  BY <1>1 DEF RequestFresh, RequestFields
<1> HIDE DEF new, q
<1>3. RequestFresh(new, hour)
  <2>1. /\ new.asof \in Int /\ new.asof <= new.since /\ new.since - CountsAge(new.screen) - MaxRead <= new.asof
        /\ new.screen = "hygiene" => new.asof = new.since
    BY <1>1, <1>2, CacheConstants DEF RequestFresh, q
  <2>2. new.step \in Nat \ {0}
    BY <1>1, <1>2 DEF RequestFresh
  <2> QED
    BY <1>1, <1>2, <2>1, <2>2 DEF RequestFresh
<1> QED
  BY <1>1, <1>2, <1>3, RequestGoesOn DEF HygieneLoad, q

LEMMA StepsKeep ==
  ASSUME CacheInv, NEW r \in Readers,
         ReadDirect(r) \/ ReadShared(r) \/ PullBegins(r) \/ PullEnds(r) \/ ReadFails(r)
  PROVE  CacheInv'
<1> DEFINE q == reader[r]
           k == SharedKey(r)
<1>1. Reading(r) /\ RequestFresh(q, hour) /\ q.screen # "none"
  BY CurrentRead DEF ReadDirect, ReadShared, PullBegins, PullEnds, ReadFails
<1>2. Current(r).via # "none" => q.screen # "hygiene" /\ SharedTTL(Current(r).via) = CountsAge(q.screen)
  BY <1>1, CurrentRead
<1>3. /\ q.since \in Nat /\ q.since <= hour /\ hour <= q.since + MaxRead
      /\ q.asof \in Int /\ q.screen \in Screens
  BY <1>1 DEF RequestFresh
<1>4. hour \in Nat /\ CountsFresh
  BY DEF CacheInv
<1>5. UNCHANGED shared => CountsFresh'
  BY <1>4 DEF CountsFresh
<1>6. k[1] = Current(r).via
  BY DEF SharedKey
<1> HIDE DEF q, k
<1>7. CASE ReadDirect(r)
  <2>1. hour \in Int /\ q.since - CountsAge(q.screen) - MaxRead <= hour
    BY <1>3, <1>4, CacheConstants
  <2> QED
    BY <1>1, <1>3, <1>5, <1>7, <2>1, ReadKeeps DEF ReadDirect, q
<1>8. CASE ReadShared(r)
  <2>1. k \in DOMAIN shared /\ shared[k].until > hour /\ Current(r).via # "none"
    BY <1>8 DEF ReadShared, Hit, Live, k
  <2>2. shared[k].asof \in Int /\ shared[k].until \in Int
        /\ shared[k].until - shared[k].asof <= SharedTTL(k[1]) + MaxRead
    BY <1>4, <2>1 DEF CountsFresh
  <2>3. q.since - CountsAge(q.screen) - MaxRead <= shared[k].asof
    BY <1>2, <1>3, <1>4, <1>6, <2>1, <2>2, CacheConstants
  <2> QED
    BY <1>1, <1>2, <1>5, <1>8, <2>1, <2>2, <2>3, ReadKeeps DEF ReadShared, q, k
<1>9. CASE PullBegins(r)
  <2> DEFINE new == [q EXCEPT !.pulling = TRUE]
  <2>1. /\ DOMAIN new = DOMAIN q /\ new.screen = q.screen /\ new.key = q.key /\ new.day = q.day
        /\ new.since = q.since /\ new.refresh = q.refresh /\ new.step = q.step /\ new.asof = q.asof
    BY <1>1 DEF RequestFresh, RequestFields
  <2>2. reader' = [reader EXCEPT ![r] = new]
    BY <1>9 DEF PullBegins, q
  <2> HIDE DEF new
  <2>3. RequestFresh(new, hour)
    BY <1>1, <2>1 DEF RequestFresh
  <2>4. new.screen = "hygiene" => HygieneLoad(r) /\ new.since = reader[r].since
    BY <2>1 DEF HygieneLoad, q
  <2>5. UNCHANGED <<hour, views, refreshed, raced>> /\ CountsFresh'
    BY <1>5, <1>9 DEF PullBegins
  <2> QED
    BY <2>2, <2>3, <2>4, <2>5, RequestGoesOn
<1>10. CASE PullEnds(r)
  <2> DEFINE count == [until |-> hour + SharedTTL(Current(r).via), asof |-> q.since]
  <2>1. shared' = Put(shared, k, count) /\ reader' = Took(r, q.since)
    BY <1>10 DEF PullEnds, q, k
  <2>2. count.until \in Int /\ count.asof \in Int /\ count.until - count.asof <= SharedTTL(k[1]) + MaxRead
    BY <1>3, <1>4, <1>6, CacheConstants
  <2> HIDE DEF count
  <2>3. DOMAIN shared' = DOMAIN shared \cup {k}
        /\ \A x \in DOMAIN shared' : shared'[x] = IF x = k THEN count ELSE shared[x]
    BY <2>1 DEF Put
  <2>4. CountsFresh'
    BY <1>4, <2>2, <2>3 DEF CountsFresh
  <2>5. q.since - CountsAge(q.screen) - MaxRead <= q.since
    BY <1>3, CacheConstants
  <2> QED
    BY <1>1, <1>3, <1>10, <2>1, <2>4, <2>5, ReadKeeps DEF PullEnds, q
<1>11. CASE ReadFails(r)
  <2>1. CASE reader' = Took(r, hour)
    <3>1. hour \in Int /\ q.since - CountsAge(q.screen) - MaxRead <= hour
      BY <1>3, <1>4, CacheConstants
    <3> QED
      BY <1>1, <1>3, <1>5, <1>11, <2>1, <3>1, ReadKeeps DEF ReadFails, q
  <2>2. CASE reader' = [reader EXCEPT ![r] = Free]
    BY <1>5, <1>11, <2>2, FreeScreen, RequestGoesOn DEF ReadFails
  <2> QED
    BY <1>11, <2>1, <2>2 DEF ReadFails
<1> QED
  BY <1>7, <1>8, <1>9, <1>10, <1>11

LEMMA RequestBeginsKeeps ==
  ASSUME CacheInv, NEW r \in Readers, NEW screen \in Screens, NEW date, NEW refresh \in BOOLEAN,
         RequestBegins(r, screen, date, refresh)
  PROVE  CacheInv'
<1> DEFINE new == [screen |-> screen, key |-> Key(screen, date), day |-> DayAsked(date), step |-> 1,
                   since |-> hour, pulling |-> FALSE, asof |-> hour, refresh |-> refresh]
<1>1. /\ reader' = [reader EXCEPT ![r] = new] /\ reader[r] = Free
      /\ UNCHANGED <<hour, shared, views, refreshed>>
      /\ raced' = (raced \/ \E o \in Readers : HygieneLoad(o) /\ screen = "hygiene")
  BY DEF RequestBegins, HygieneLoad
<1>2. hour \in Nat /\ date \in Asked(screen)
  <2>1. hour \in Nat /\ Today(hour) \in Nat
    BY DayBounds DEF CacheInv
  <2> QED
    BY <2>1 DEF RequestBegins, Asked
<1>3. Key(screen, date) = KeyAt(screen, date, hour) /\ DayAsked(date) = DayAt(date, hour)
  BY DEF Key, KeyAt, DayAsked, DayAt, PastSrezy, Passed
<1>4. refresh => screen = "hygiene"
  BY DEF RequestBegins
<1>5. /\ RequestFields \subseteq DOMAIN new /\ new.screen = screen /\ new.key = KeyAt(screen, date, hour)
      /\ new.day = DayAt(date, hour) /\ new.step = 1 /\ new.since = hour /\ new.asof = hour
      /\ new.refresh = refresh
  BY <1>3 DEF RequestFields
<1> HIDE DEF new
<1>6. RequestFresh(new, hour)
  <2>1. hour - CountsAge(screen) - MaxRead <= hour /\ hour <= hour + MaxRead
    BY <1>2, CacheConstants
  <2> QED
    BY <1>2, <1>4, <1>5, <2>1 DEF RequestFresh
<1>7. \A o \in Readers : reader'[o] = IF o = r THEN new ELSE reader[o]
  BY <1>1 DEF CacheInv
<1>8. \A o \in Readers : reader'[o].screen # "none" => RequestFresh(reader'[o], hour')
  BY <1>1, <1>6, <1>7 DEF CacheInv
<1>9. CountsFresh' /\ \A k \in DOMAIN views' : ViewFresh(k)'
  BY <1>1 DEF CacheInv, CountsFresh, ViewFresh, ViewOf
<1>10. CheckedAgain'
  <2>1. \A o \in Readers : HygieneLoad(o)' <=> IF o = r THEN screen = "hygiene" ELSE HygieneLoad(o)
    BY <1>5, <1>7 DEF HygieneLoad
  <2>2. \A o \in Readers : reader'[o].since = IF o = r THEN hour ELSE reader[o].since
    BY <1>5, <1>7
  <2>3. refreshed <= hour
    BY DEF CacheInv
  <2> QED
    BY <1>1, <2>1, <2>2, <2>3 DEF CacheInv, CheckedAgain
<1> QED
  BY <1>1, <1>8, <1>9, <1>10 DEF CacheInv

LEMMA ViewStoredKeeps ==
  ASSUME CacheInv, NEW r \in Readers, ViewStored(r) PROVE CacheInv'
<1> DEFINE q == reader[r]
           view == [until |-> hour + ViewTTL(q.screen), asof |-> q.asof, day |-> q.day]
<1>1. /\ views' = Put(views, q.key, view) /\ reader' = [reader EXCEPT ![r] = Free]
      /\ refreshed' = IF q.refresh THEN q.since ELSE refreshed
      /\ UNCHANGED <<hour, shared, raced>> /\ q.screen # "none"
  BY DEF ViewStored
<1>2. RequestFresh(q, hour) /\ hour \in Nat
  BY <1>1 DEF CacheInv
<1>3. view.until = hour + ViewTTL(q.screen) /\ view.asof = q.asof /\ view.day = q.day
  OBVIOUS
<1>4. HygieneLoad(r) <=> q.screen = "hygiene"
  BY DEF HygieneLoad
<1> HIDE DEF q, view
<1>5. DOMAIN views' = DOMAIN views \cup {q.key}
      /\ \A k \in DOMAIN views' : views'[k] = IF k = q.key THEN view ELSE views[k]
  BY <1>1 DEF Put
<1>6. \A o \in Readers : reader'[o] = IF o = r THEN Free ELSE reader[o]
  BY <1>1 DEF CacheInv
<1>7. \A o \in Readers : reader'[o].screen # "none" => RequestFresh(reader'[o], hour')
  BY <1>1, <1>6, FreeScreen DEF CacheInv
<1>8. CountsFresh'
  BY <1>1 DEF CacheInv, CountsFresh
<1>9. \A k \in DOMAIN views' : ViewFresh(k)'
  <2>1. PICK date \in Asked(q.screen) : q.key = KeyAt(q.screen, date, q.since) /\ q.day = DayAt(date, q.since)
    BY <1>2 DEF RequestFresh
  <2>2. view.until \in Int /\ view.asof \in Int /\ q.since \in Nat /\ q.screen \in Screens
    BY <1>2, <1>3, CacheConstants DEF RequestFresh
  <2>3. view.until <= q.since + MaxRead + ViewTTL(q.screen)
    BY <1>2, <1>3, CacheConstants DEF RequestFresh
  <2>4. ViewOf(q.key, view, q.screen, date, q.since, hour)
    BY <1>2, <1>3, <2>1, <2>3 DEF RequestFresh, ViewOf
  <2>6. ASSUME NEW k \in DOMAIN views' PROVE ViewFresh(k)'
    <3>1. CASE k = q.key
      <4>1. ViewOf(k, views'[k], q.screen, date, q.since, hour')
        BY <1>1, <1>5, <2>4, <3>1
      <4>2. views'[k] = view
        BY <1>5, <3>1
      <4> QED
        BY <2>1, <2>2, <4>1, <4>2 DEF ViewFresh
    <3>2. CASE k # q.key
      BY <1>1, <1>5, <3>2 DEF CacheInv, ViewFresh
    <3> QED
      BY <3>1, <3>2
  <2> QED
    BY <2>6
<1>10. refreshed' \in Int /\ refreshed' <= hour'
  BY <1>1, <1>2 DEF CacheInv, RequestFresh
<1>11. CheckedAgain'
  <2> SUFFICES ASSUME ~raced PROVE CheckedAgain'
    BY <1>1 DEF CheckedAgain
  <2>1. \A o \in Readers : HygieneLoad(o)' <=> o # r /\ HygieneLoad(o)
    BY <1>6, FreeScreen DEF HygieneLoad
  <2>2. \A o \in Readers : o # r => reader'[o] = reader[o]
    BY <1>6
  <2>3. HygieneLoad(r) => \A o \in Readers : ~HygieneLoad(o)'
    BY <2>1 DEF CacheInv, CheckedAgain
  <2>4. q.key[1] = q.screen
    BY <1>2 DEF RequestFresh, KeyAt
  <2>5. HygieneLoad(r) => view.asof = q.since /\ refreshed <= q.since
    BY <1>2, <1>3, <1>4 DEF CacheInv, CheckedAgain, RequestFresh, q
  <2>6. CASE HygieneLoad(r)
    <3>1. \A k \in DOMAIN views : k[1] = "hygiene" => k = q.key
      <4>1. ASSUME NEW k \in DOMAIN views, k[1] = "hygiene" PROVE k = <<"hygiene", TodayTab, 0>>
        <5>1. PICK screen \in Screens : \E date \in Asked(screen), at \in Nat : ViewOf(k, views[k], screen, date, at, hour)
          BY DEF CacheInv, ViewFresh
        <5>2. PICK date \in Asked(screen), at \in Nat : ViewOf(k, views[k], screen, date, at, hour)
          BY <5>1
        <5>3. k = KeyAt(screen, date, at)
          BY <5>2 DEF ViewOf
        <5>4. screen = "hygiene"
          BY <4>1, <5>3 DEF KeyAt
        <5> QED
          BY <5>3, <5>4 DEF KeyAt, Asked
      <4>2. q.key = <<"hygiene", TodayTab, 0>>
        <5>1. PICK date \in Asked(q.screen) : q.key = KeyAt(q.screen, date, q.since)
          BY <1>2 DEF RequestFresh
        <5> QED
          BY <1>4, <2>6, <5>1 DEF KeyAt, Asked
      <4> QED
        BY <4>1, <4>2
    <3>2. refreshed' <= q.since
      BY <1>1, <1>2, <2>5, <2>6 DEF RequestFresh
    <3>3. \A k \in DOMAIN views' : k[1] = "hygiene" => views'[k].asof = q.since
      BY <1>5, <2>5, <2>6, <3>1
    <3> QED
      BY <2>3, <2>6, <3>2, <3>3 DEF CheckedAgain
  <2>7. CASE ~HygieneLoad(r)
    <3>1. refreshed' = refreshed
      BY <1>1, <1>2, <1>4, <2>7 DEF RequestFresh
    <3>2. \A k \in DOMAIN views' : k[1] = "hygiene" => k \in DOMAIN views /\ views'[k] = views[k]
      BY <1>4, <1>5, <2>4, <2>7
    <3> QED
      BY <2>1, <2>2, <3>1, <3>2 DEF CacheInv, CheckedAgain
  <2> QED
    BY <2>6, <2>7
<1> QED
  BY <1>1, <1>2, <1>7, <1>8, <1>9, <1>10, <1>11 DEF CacheInv

LEMMA HourPassesKeeps == ASSUME CacheInv, HourPasses PROVE CacheInv'
<1>1. /\ hour' = hour + 1 /\ UNCHANGED <<shared, reader, refreshed, raced>>
      /\ hour \in Nat /\ refreshed \in Int /\ refreshed <= hour
  BY DEF HourPasses, CacheInv
<1>2. DOMAIN views' \subseteq DOMAIN views /\ \A k \in DOMAIN views' : views'[k] = views[k]
  BY DEF HourPasses
<1>3. ASSUME NEW r \in Readers, reader[r].screen # "none" PROVE RequestFresh(reader'[r], hour')
  <2>1. RequestFresh(reader[r], hour) /\ hour < reader[r].since + MaxRead
    BY <1>3 DEF CacheInv, HourPasses
  <2> QED
    BY <1>1, <2>1, CacheConstants DEF RequestFresh
<1>4. ASSUME NEW k \in DOMAIN views' PROVE ViewFresh(k)'
  <2>1. ViewFresh(k)
    BY <1>2 DEF CacheInv
  <2>2. \A v, s, d : \A a \in Nat : ViewOf(k, v, s, d, a, hour) => ViewOf(k, v, s, d, a, hour')
    BY <1>1 DEF ViewOf
  <2> QED
    BY <1>2, <2>1, <2>2 DEF ViewFresh
<1>5. CountsFresh'
  BY <1>1 DEF CacheInv, CountsFresh
<1>6. CheckedAgain'
  BY <1>1, <1>2 DEF CacheInv, CheckedAgain, HygieneLoad
<1> QED
  BY <1>1, <1>3, <1>4, <1>5, <1>6 DEF CacheInv

LEMMA CacheStart == CachesInit => CacheInv
<1> SUFFICES ASSUME CachesInit PROVE CacheInv
  OBVIOUS
<1>1. hour \in Nat /\ refreshed = 0 /\ DOMAIN reader = Readers
  BY CachesExpireOvernight DEF CachesInit, CachesExpireOvernight
<1>2. \A r \in Readers : reader[r].screen = "none"
  BY FreeScreen DEF CachesInit
<1>3. DOMAIN shared = {} /\ DOMAIN views = {}
  BY DEF CachesInit
<1> QED
  BY <1>1, <1>2, <1>3 DEF CacheInv, CountsFresh, CheckedAgain, HygieneLoad

LEMMA CacheStep == CacheInv /\ [CachesNext]_cacheVars => CacheInv'
<1> SUFFICES ASSUME CacheInv, [CachesNext]_cacheVars PROVE CacheInv'
  OBVIOUS
<1>1. CASE UNCHANGED cacheVars
  BY <1>1 DEF cacheVars, CacheInv, CountsFresh, RequestFresh, ViewFresh, ViewOf, CheckedAgain, HygieneLoad
<1> QED
  BY <1>1, HourPassesKeeps, RequestBeginsKeeps, StepsKeep, ViewStoredKeeps DEF CachesNext

(* The day a view of the team was made for is the day it is asked for: otherwise midnight *)
(* is less than a view's age away, where no checkpoint is, and the counts of the key say  *)
(* that all of them had passed and that none has.                                          *)
LEMMA TeamDay ==
  ASSUME NEW at \in Nat, NEW now \in Nat, at <= now, now < at + MaxRead + TeamTTL,
         Cardinality(Passed(Today(at), at)) = Cardinality(Passed(Today(now), now))
  PROVE  Today(at) = Today(now)
<1> SUFFICES ASSUME Today(at) # Today(now) PROVE FALSE
  OBVIOUS
<1> DEFINE d == Today(now)
           p == Today(at)
<1>1. PICK s \in Srezy : TRUE
  BY CachesExpireOvernight DEF CachesExpireOvernight
<1>2. /\ Srezy \subseteq Nat /\ IsFiniteSet(Srezy)
      /\ \A h \in Srezy : TeamTTL + MaxRead <= h /\ h + TeamTTL + MaxRead <= HoursADay
      /\ MaxRead \in Nat /\ TeamTTL \in Nat /\ HoursADay \in Nat
  BY CachesExpireOvernight DEF CachesExpireOvernight
<1>3. now <= at + HoursADay
  BY <1>1, <1>2
<1>4. at < d * HoursADay /\ p = d - 1
  BY <1>3, MidnightBetween
<1>5. d \in Nat /\ p \in Nat /\ d * HoursADay <= now /\ d * HoursADay \in Int
  BY <1>2, DayBounds
<1>6. p * HoursADay = d * HoursADay - HoursADay
  <2>1. (d - 1) * HoursADay = d * HoursADay - HoursADay
    BY <1>2, <1>5
  <2> QED
    BY <1>4, <2>1
<1> HIDE DEF d, p
<1>7. \A h \in Srezy : p * HoursADay + h <= at /\ ~(d * HoursADay + h <= now)
  <2> SUFFICES ASSUME NEW h \in Srezy PROVE p * HoursADay + h <= at /\ ~(d * HoursADay + h <= now)
    OBVIOUS
  <2>1. h \in Nat /\ TeamTTL + MaxRead <= h /\ h + TeamTTL + MaxRead <= HoursADay
    BY <1>2
  <2> QED
    BY <1>2, <1>4, <1>5, <1>6, <2>1
<1>8. Passed(p, at) = Srezy /\ Passed(d, now) = {}
  BY <1>7 DEF Passed
<1>9. Cardinality(Srezy) # 0 /\ Cardinality({}) = 0
  BY <1>1, <1>2, FS_EmptySet
<1> QED
  BY <1>8, <1>9 DEF d, p

LEMMA ServedFresh ==
  ASSUME CacheInv, NEW screen \in Screens, NEW date \in {TodayTab} \cup 0..Today(hour), Served(screen, date)
  PROVE  LET view == views[Key(screen, date)]
         IN /\ hour - view.asof <= ViewTTL(screen) + 2 * MaxRead + CountsAge(screen)
            /\ screen = "team" => view.day = DayAsked(date)
            /\ screen = "day" /\ view.day # DayAsked(date) =>
                 /\ date = TodayTab /\ view.day = Today(hour) - 1
                 /\ hour - Today(hour) * HoursADay < ShortTTL + MaxRead
            /\ screen = "hygiene" /\ ~raced => view.asof >= refreshed
<1> DEFINE k == Key(screen, date)
           view == views[k]
<1>1. k \in DOMAIN views /\ view.until > hour /\ hour \in Nat /\ view.until \in Int /\ view.asof \in Int
  BY DEF Served, Live, CacheInv, ViewFresh
<1>2. k = KeyAt(screen, date, hour) /\ DayAsked(date) = DayAt(date, hour)
  BY DEF Key, KeyAt, DayAsked, DayAt, PastSrezy, Passed
<1>3. PICK sc \in Screens : \E dt \in Asked(sc), at \in Nat : ViewOf(k, view, sc, dt, at, hour)
  BY <1>1 DEF CacheInv, ViewFresh
<1>4. PICK dt \in Asked(sc), at \in Nat : ViewOf(k, view, sc, dt, at, hour)
  BY <1>3
<1>5. sc = screen /\ dt = date
  BY <1>2, <1>4 DEF ViewOf, KeyAt
<1> HIDE DEF k, view
<1>6. /\ KeyAt(screen, date, at) = KeyAt(screen, date, hour) /\ view.day = DayAt(date, at)
      /\ at <= hour /\ view.until <= at + MaxRead + ViewTTL(screen)
      /\ at - CountsAge(screen) - MaxRead <= view.asof
  BY <1>2, <1>4, <1>5 DEF ViewOf
<1>7. hour - view.asof <= ViewTTL(screen) + 2 * MaxRead + CountsAge(screen)
  BY <1>1, <1>6, CacheConstants
<1>8. screen = "team" => view.day = DayAsked(date)
  <2> SUFFICES ASSUME screen = "team", date = TodayTab PROVE Today(at) = Today(hour)
    BY <1>2, <1>6 DEF DayAt
  <2>1. Cardinality(Passed(Today(at), at)) = Cardinality(Passed(Today(hour), hour))
    BY <1>6 DEF KeyAt, DayAt
  <2>2. hour < at + MaxRead + TeamTTL
    BY <1>1, <1>6, CacheConstants DEF ViewTTL
  <2> QED
    BY <1>1, <1>6, <2>1, <2>2, TeamDay
<1>9. screen = "day" /\ view.day # DayAsked(date) =>
        /\ date = TodayTab /\ view.day = Today(hour) - 1
        /\ hour - Today(hour) * HoursADay < ShortTTL + MaxRead
  <2> SUFFICES ASSUME screen = "day", view.day # DayAsked(date)
               PROVE  /\ date = TodayTab /\ view.day = Today(hour) - 1
                      /\ hour - Today(hour) * HoursADay < ShortTTL + MaxRead
    OBVIOUS
  <2>1. date = TodayTab /\ view.day = Today(at) /\ Today(at) # Today(hour)
    BY <1>2, <1>6 DEF DayAt
  <2>2. hour < at + MaxRead + ShortTTL
    BY <1>1, <1>6, CacheConstants DEF ViewTTL
  <2>3. hour <= at + HoursADay
    BY <1>1, <2>2, CacheConstants, CachesExpireOvernight DEF CachesExpireOvernight
  <2>4. at < Today(hour) * HoursADay /\ Today(at) = Today(hour) - 1
    BY <1>1, <1>6, <2>1, <2>3, MidnightBetween
  <2>5. Today(hour) * HoursADay \in Int
    BY <1>1, DayBounds, CacheConstants
  <2>6. hour - Today(hour) * HoursADay < ShortTTL + MaxRead
    BY <1>1, <2>2, <2>4, <2>5, CacheConstants
  <2> QED
    BY <2>1, <2>4, <2>6
<1>10. screen = "hygiene" /\ ~raced => view.asof >= refreshed
  <2>1. k[1] = screen
    BY <1>2 DEF KeyAt
  <2> QED
    BY <1>1, <2>1 DEF CacheInv, CheckedAgain, view
<1> QED
  BY <1>7, <1>8, <1>9, <1>10 DEF k, view

(* What a live screen serves is never older than its lifetime, that of the counts *)
(* behind it and two reads; the team sees the day it asked for with every         *)
(* checkpoint that has passed; the day before is served only just after midnight; *)
(* a "check again" of hygiene is not undone by an older view.  For any number of  *)
(* requests at once and any lifetimes that end overnight.                          *)
THEOREM ScreensNeverTooStale == CachesSpec => []NeverTooStale
<1>1. CacheInv => NeverTooStale
  BY ServedFresh DEF NeverTooStale, CountsAge
<1> QED
  BY <1>1, CacheStart, CacheStep, PTL DEF CachesSpec
===============================================================================
