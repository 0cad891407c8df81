---------------------------- MODULE IngestionProofs ----------------------------
(***************************************************************************)
(* Nothing slips the cursor, for any number of calls, passes, pages and    *)
(* any limit, as long as the overlap covers the longest delay and a pass.  *)
(***************************************************************************)
EXTENDS Ingestion, FiniteSetTheorems, TLAPS

LEMMA Numbers ==
  /\ NCalls \in Nat /\ PageSize \in Nat /\ Limit \in Nat /\ Overlap \in Nat /\ InitialBack \in Nat
  /\ MaxDelay \in Nat /\ MaxPass \in Nat /\ LastStart \in Nat /\ MaxTime \in Nat
  /\ PageSize > 0 /\ Limit > 0
  /\ Never \notin Int
  /\ \A c \in Calls : c \in Int
  /\ \A t \in Times : t \in Int /\ t \in Nat /\ 0 <= t /\ t <= MaxTime
BY IngestAssumption DEF Calls, Times

-----------------------------------------------------------------------------
(* Finite sets of calls and of times.                                      *)

LEMMA CallsFinite == \A S \in SUBSET Calls : IsFiniteSet(S)
<1>1. IsFiniteSet(Calls)
  BY Numbers, FS_Interval DEF Calls
<1> QED
  BY <1>1, FS_Subset

LEMMA LatestIsOne ==
  ASSUME NEW S \in SUBSET Times, S # {}
  PROVE  Max(S) \in S /\ \A x \in S : Max(S) >= x
<1> DEFINE Above(x) == {y \in S : y > x}
           parts == {Above(x) : x \in S}
<1>1. IsFiniteSet(S) /\ \A x \in S : x \in Int
  <2>1. IsFiniteSet(Times)
    BY Numbers, FS_Interval DEF Times
  <2> QED
    BY <2>1, FS_Subset, Numbers
<1>2. parts \subseteq FiniteSubsetsOf(S) /\ parts # {}
  <2>1. \A x \in S : Above(x) \in SUBSET S
    OBVIOUS
  <2>2. \A T \in SUBSET S : IsFiniteSet(T)
    BY <1>1, FS_Subset
  <2> QED
    BY <2>1, <2>2 DEF FiniteSubsetsOf
<1>3. PICK part \in parts : \A q \in parts : ~ (<<q, part>> \in StrictSubsetOrdering(S))
  <2> HIDE DEF parts
  <2>1. IsWellFoundedOn(StrictSubsetOrdering(S), FiniteSubsetsOf(S))
    BY FS_StrictSubsetOrderingWellFounded
  <2> QED
    BY <1>2, <2>1, WFMin
<1>4. PICK top \in S : part = Above(top)
  BY <1>3
<1>5. ASSUME NEW y \in S, y > top PROVE FALSE
  <2>1. Above(y) \subseteq part /\ y \in part /\ y \notin Above(y)
    BY <1>1, <1>4, <1>5
  <2>2. <<Above(y), part>> \in StrictSubsetOrdering(S)
    BY <1>4, <2>1 DEF StrictSubsetOrdering
  <2> QED
    BY <1>3, <2>2
<1>6. \A x \in S : top >= x
  BY <1>1, <1>5
<1> QED
  BY <1>6 DEF Max

LEMMA LesserIsOne ==
  ASSUME NEW a \in Nat, NEW b \in Nat PROVE Min({a, b}) \in Nat
<1>1. \E x \in {a, b} : \A y \in {a, b} : x =< y
  <2>1. CASE a <= b
    BY <2>1
  <2>2. CASE b <= a
    BY <2>2
  <2> QED
    BY <2>1, <2>2
<1>2. Min({a, b}) \in {a, b}
  BY <1>1 DEF Min
<1> QED
  BY <1>2

(* Rows are in order: an earlier call has no later place, and a listed one has one. *)
LEMMA PlaceIsOrdered ==
  ASSUME NEW since, NEW c \in Calls, NEW d \in Calls, c <= d
  PROVE  Place(c, since) \in Nat /\ Place(d, since) \in Nat /\ Place(c, since) <= Place(d, since)
<1> DEFINE upTo(x) == {y \in Statistic(since) : y <= x}
<1>1. upTo(c) \subseteq upTo(d) /\ upTo(d) \subseteq Calls /\ upTo(c) \subseteq Calls
  BY Numbers DEF Statistic
<1>2. IsFiniteSet(upTo(d)) /\ IsFiniteSet(upTo(c))
  BY <1>1, CallsFinite
<1>3. Cardinality(upTo(c)) \in Nat /\ Cardinality(upTo(d)) \in Nat /\ Cardinality(upTo(c)) <= Cardinality(upTo(d))
  BY <1>1, <1>2, FS_Subset, FS_CardinalityType
<1> QED
  BY <1>3 DEF Place

LEMMA ListedHasPlace ==
  ASSUME NEW since, NEW c \in Statistic(since) PROVE Place(c, since) \in Nat /\ Place(c, since) > 0
<1> DEFINE upTo == {y \in Statistic(since) : y <= c}
<1>1. c \in upTo /\ upTo \subseteq Calls
  BY Numbers DEF Statistic
<1>2. IsFiniteSet(upTo)
  BY <1>1, CallsFinite
<1>3. Cardinality(upTo) \in Nat /\ Cardinality(upTo) # 0
  BY <1>1, <1>2, FS_EmptySet, FS_CardinalityType
<1> QED
  BY <1>3 DEF Place

-----------------------------------------------------------------------------
(* What Bitrix does: calls in order, listed after they began and recorded within *)
(* MaxDelay.                                                                     *)

WorldInv ==
  /\ \A c \in Calls : start[c] \in Nat /\ listedAt[c] \in Nat
  /\ \A c, d \in Calls : c <= d => start[c] <= start[d]
  /\ \A c \in Calls : recordedAt[c] # Never =>
       /\ recordedAt[c] \in Times /\ start[c] <= listedAt[c] /\ listedAt[c] <= recordedAt[c]
       /\ recordedAt[c] <= start[c] + MaxDelay
  /\ \A k \in Clients : qualifiedAt[k] # Never => qualifiedAt[k] \in Nat

LEMMA WorldIsFair == Init => WorldInv
<1> SUFFICES ASSUME Init PROVE WorldInv
  OBVIOUS
<1>1. \A c \in Calls : start[c] \in 0..LastStart /\ start[c] \in Nat /\ listedAt[c] \in Nat
  <2>1. \A c \in Calls : start[c] \in 0..LastStart /\ listedAt[c] \in Times
    BY DEF Init
  <2> QED
    BY <2>1, Numbers
<1>2. \A c, d \in Calls : c <= d => start[c] <= start[d]
  <2> SUFFICES ASSUME NEW c \in Calls, NEW d \in Calls, c <= d PROVE start[c] <= start[d]
    OBVIOUS
  <2>1. c = d \/ c < d
    BY Numbers
  <2>2. c < d => start[c] <= start[d]
    BY DEF Init
  <2> QED
    BY <1>1, <2>1, <2>2
<1>3. ASSUME NEW c \in Calls, recordedAt[c] # Never
      PROVE  /\ recordedAt[c] \in Times /\ start[c] <= listedAt[c] /\ listedAt[c] <= recordedAt[c]
             /\ recordedAt[c] <= start[c] + MaxDelay
  <2>1. recordedAt[c] \in Times
    BY <1>3 DEF Init
  <2>2. listedAt[c] \in start[c] .. start[c] + MaxDelay /\ recordedAt[c] \in listedAt[c] .. start[c] + MaxDelay
    BY <1>3 DEF Init
  <2> QED
    BY <1>1, <2>1, <2>2, Numbers
<1>4. \A k \in Clients : qualifiedAt[k] # Never => qualifiedAt[k] \in Nat
  <2>1. \A k \in Clients : qualifiedAt[k] # Never => qualifiedAt[k] \in 0..LastStart
    BY DEF Init
  <2> QED
    BY <2>1, Numbers
<1> QED
  BY <1>1, <1>2, <1>3, <1>4 DEF WorldInv

LEMMA WorldStays == WorldInv /\ [Next]_vars => WorldInv' /\ world' = world
<1> SUFFICES ASSUME WorldInv, [Next]_vars PROVE WorldInv' /\ world' = world
  OBVIOUS
<1>1. UNCHANGED world
  BY DEF Next, vars, world, Tick, Claimed, PassStarts, PassFetches, PassUpserts, PassAsks, PassReads,
         PassCommits, PassDies
<1> QED
  BY <1>1 DEF world, WorldInv

-----------------------------------------------------------------------------
(* Types.                                                                  *)

Stages == {"idle", "list", "upsert", "ask", "scope", "commit"}
PassType ==
  [stage : Stages, began : Times, since : Int, offset : Nat, page : SUBSET Calls, last : BOOLEAN,
   mine : SUBSET Calls, top : Times \cup {Never},
   answers : [Clients -> Times \cup {Never}], read : [Calls -> Rows]]

(* What a pass holds is recorded, and its latest start has been.  Only a page *)
(* that is being upserted is not empty.                                        *)
PassSound(p) ==
  /\ \A c \in pass[p].mine \cup pass[p].page : Recorded(c)
  /\ pass[p].top # Never => pass[p].top <= now
  /\ pass[p].page # {} => pass[p].stage = "upsert"
  /\ pass[p].stage # "idle" => pass[p].began <= now /\ now <= pass[p].began + MaxPass

Sound ==
  /\ TypeOK /\ WorldInv
  /\ cursor # Never => cursor <= now
  /\ \A c \in Calls : Stored(c) => Recorded(c)
  /\ \A p \in Passes : PassSound(p)

LEMMA PassTyped == TypeOK => pass \in [Passes -> PassType]
BY DEF TypeOK, PassType, Stages

LEMMA IdleTyped == Idle \in PassType /\ Absent \in Rows /\ Inserted \in Rows
<1>1. Absent \in Rows /\ Inserted \in Rows
  BY DEF Absent, Inserted, Rows, Statuses
<1>2. 0 \in Times
  BY Numbers DEF Times
<1> QED
  BY <1>1, <1>2 DEF Idle, PassType, Stages

LEMMA SoundAtStart == Init => Sound
<1> SUFFICES ASSUME Init PROVE Sound
  OBVIOUS
<1>1. rows \in [Calls -> Rows] /\ pass \in [Passes -> PassType]
  BY IdleTyped DEF Init
<1>2. now \in Times /\ cursor \in Times \cup {Never} /\ misread \cup crossed \subseteq Clients
  BY Numbers DEF Init, Times
<1>3. TypeOK
  BY <1>1, <1>2 DEF TypeOK, PassType, Stages
<1>4. \A c \in Calls : ~Stored(c)
  BY DEF Init, Stored, Absent
<1>5. \A p \in Passes : PassSound(p)
  BY DEF Init, PassSound, Idle
<1> QED
  BY <1>3, <1>4, <1>5, WorldIsFair DEF Init, Sound

(* A recorded call began at a time, and not after now. *)
LEMMA RecordedBegan ==
  ASSUME TypeOK, WorldInv, NEW c \in Calls, Recorded(c)
  PROVE  start[c] \in Times /\ start[c] <= now /\ start[c] <= recordedAt[c] /\ listedAt[c] <= now
<1>1. start[c] \in Nat /\ listedAt[c] \in Nat /\ recordedAt[c] \in Times /\ now \in Times
  BY DEF TypeOK, WorldInv, Recorded
<1>2. start[c] <= listedAt[c] /\ listedAt[c] <= recordedAt[c] /\ recordedAt[c] <= now
  BY DEF WorldInv, Recorded
<1> QED
  BY <1>1, <1>2, Numbers DEF Times

(* The latest start is the one the pass had, or that of a call of the page. *)
LEMMA LatestIsKnown ==
  ASSUME TypeOK, WorldInv, NEW p \in Passes, NEW S \in SUBSET Calls, \A c \in S : Recorded(c)
  PROVE  Latest(p, S) = pass[p].top \/ \E d \in S : Latest(p, S) = start[d]
<1> DEFINE starts == {start[c] : c \in S} \cup ({pass[p].top} \ {Never})
<1>1. CASE S = {}
  BY <1>1 DEF Latest
<1>2. CASE S # {}
  <2>1. pass[p].top \in Times \cup {Never}
    BY PassTyped DEF PassType
  <2>2. starts \subseteq Times /\ starts # {}
    BY <1>2, <2>1, RecordedBegan
  <2>3. Max(starts) \in starts
    <3> HIDE DEF starts
    <3> QED
      BY <2>2, LatestIsOne
  <2>4. Latest(p, S) = Max(starts)
    BY <1>2 DEF Latest
  <2> QED
    BY <2>3, <2>4
<1> QED
  BY <1>1, <1>2

(* A pass that is replaced by a sound one leaves the others as they were. *)
LEMMA PassReplaced ==
  ASSUME Sound, NEW p \in Passes, NEW r \in PassType, pass' = [pass EXCEPT ![p] = r],
         world' = world, now' = now,
         \A c \in r.mine \cup r.page : Recorded(c), r.top # Never => r.top <= now,
         r.page # {} => r.stage = "upsert", r.stage # "idle" => r.began <= now /\ now <= r.began + MaxPass
  PROVE  pass' \in [Passes -> PassType] /\ \A q \in Passes : PassSound(q)'
<1>1. pass \in [Passes -> PassType]
  BY PassTyped DEF Sound
<1>2. pass' \in [Passes -> PassType]
  BY <1>1
<1>3. \A c : Recorded(c)' <=> Recorded(c)
  BY DEF Recorded, world
<1>4. ASSUME NEW q \in Passes PROVE PassSound(q)'
  <2>1. CASE q = p
    <3>1. pass'[q] = r
      BY <1>1, <2>1
    <3> QED
      BY <1>3, <3>1 DEF PassSound
  <2>2. CASE q # p
    <3>1. pass'[q] = pass[q]
      BY <1>1, <2>2
    <3> QED
      BY <1>3, <3>1 DEF PassSound, Sound
  <2> QED
    BY <2>1, <2>2
<1> QED
  BY <1>2, <1>4

(* The steps of a pass before it commits write no rows. *)
LEMMA SoundBefore ==
  ASSUME Sound, NEW p \in Passes, NEW r \in PassType, pass' = [pass EXCEPT ![p] = r],
         UNCHANGED <<world, now, cursor, rows>>, misread' \cup crossed' \subseteq Clients,
         \A c \in r.mine \cup r.page : Recorded(c), r.top # Never => r.top <= now,
         r.page # {} => r.stage = "upsert", r.stage # "idle" => r.began <= now /\ now <= r.began + MaxPass
  PROVE  Sound'
<1>1. pass' \in [Passes -> PassType] /\ \A q \in Passes : PassSound(q)'
  BY PassReplaced
<1>2. TypeOK'
  BY <1>1 DEF Sound, TypeOK, PassType, Stages
<1>3. WorldInv'
  BY DEF Sound, WorldInv, world
<1> QED
  BY <1>1, <1>2, <1>3 DEF Sound, Stored, Recorded, world

LEMMA SoundStart == ASSUME Sound, NEW p \in Passes, PassStarts(p) PROVE Sound'
<1> DEFINE r == [Idle EXCEPT !.stage = "list", !.began = now, !.since = Since(cursor), !.top = cursor]
<1>1. now \in Times /\ cursor \in Times \cup {Never} /\ Since(cursor) \in Int
  BY Numbers DEF Sound, TypeOK, Since
<1>2. r \in PassType
  BY <1>1, IdleTyped DEF PassType, Stages
<1>3. /\ r.stage = "list" /\ r.began = now /\ r.top = cursor /\ r.mine = {} /\ r.page = {}
  BY DEF Idle
<1>4. pass' = [pass EXCEPT ![p] = r] /\ UNCHANGED <<world, now, cursor, rows, misread, crossed>>
  BY DEF PassStarts
<1> HIDE DEF r
<1>5. r.top # Never => r.top <= now
  BY <1>3 DEF Sound
<1>6. r.began <= now /\ now <= r.began + MaxPass
  BY <1>1, <1>3, Numbers
<1> QED
  BY <1>2, <1>3, <1>4, <1>5, <1>6, SoundBefore DEF Sound, TypeOK

LEMMA SoundFetch == ASSUME Sound, NEW p \in Passes, PassFetches(p) PROVE Sound'
<1> DEFINE to == Min({pass[p].offset + PageSize, Limit})
           read == {c \in Statistic(pass[p].since) :
                      pass[p].offset < Place(c, pass[p].since) /\ Place(c, pass[p].since) <= to}
           end == to = Limit \/ to >= Cardinality(Statistic(pass[p].since))
           r == [pass[p] EXCEPT !.stage = "upsert", !.page = {c \in read : Recorded(c)},
                                !.offset = to, !.last = end]
<1>1. pass \in [Passes -> PassType] /\ pass[p] \in PassType
  BY PassTyped DEF Sound
<1>2. to \in Nat
  BY <1>1, LesserIsOne, Numbers DEF PassType
<1>3. {c \in read : Recorded(c)} \in SUBSET Calls /\ end \in BOOLEAN
  BY DEF Statistic
<1>4. r \in PassType
  <2> HIDE DEF to, end, read
  <2> QED
    BY <1>1, <1>2, <1>3 DEF PassType, Stages
<1>5. pass' = [pass EXCEPT ![p] = r] /\ UNCHANGED <<world, now, cursor, rows, misread, crossed>>
  BY DEF PassFetches
<1>6. /\ r.stage = "upsert" /\ r.page = {c \in read : Recorded(c)} /\ r.mine = pass[p].mine
      /\ r.top = pass[p].top /\ r.began = pass[p].began
  <2> HIDE DEF to, end, read
  <2> QED
    BY <1>1 DEF PassType
<1> HIDE DEF r
<1>7. pass[p].stage = "list" /\ PassSound(p)
  BY DEF PassFetches, Sound
<1>8. \A c \in r.mine \cup r.page : Recorded(c)
  BY <1>6, <1>7 DEF PassSound
<1>9. (r.top # Never => r.top <= now) /\ r.began <= now /\ now <= r.began + MaxPass
  BY <1>6, <1>7 DEF PassSound
<1> QED
  BY <1>4, <1>5, <1>6, <1>8, <1>9, SoundBefore DEF Sound, TypeOK

LEMMA SoundUpsert == ASSUME Sound, NEW p \in Passes, PassUpserts(p) PROVE Sound'
<1> DEFINE held == [pass[p] EXCEPT !.mine = @ \cup pass[p].page,
                                   !.top = Latest(p, pass[p].page), !.page = {}]
           r == IF pass[p].last THEN [held EXCEPT !.stage = "ask", !.since = 0, !.offset = 0, !.last = FALSE]
                ELSE [held EXCEPT !.stage = "list"]
<1>1. pass[p] \in PassType
  BY PassTyped DEF Sound
<1>2. PassSound(p) /\ pass[p].stage = "upsert"
  BY DEF PassUpserts, Sound
<1>3. pass[p].page \in SUBSET Calls /\ \A c \in pass[p].page : Recorded(c)
  BY <1>1, <1>2 DEF PassType, PassSound
<1>4. Latest(p, pass[p].page) \in Times \cup {Never}
      /\ (Latest(p, pass[p].page) # Never => Latest(p, pass[p].page) <= now)
  <2>1. \A c \in pass[p].page : start[c] \in Times /\ start[c] <= now
    BY <1>3, RecordedBegan DEF Sound
  <2>2. Latest(p, pass[p].page) = pass[p].top \/ \E d \in pass[p].page : Latest(p, pass[p].page) = start[d]
    BY <1>3, LatestIsKnown DEF Sound
  <2>3. pass[p].top \in Times \cup {Never} /\ (pass[p].top # Never => pass[p].top <= now)
    BY <1>1, <1>2 DEF PassType, PassSound
  <2>4. ASSUME NEW t \in Times \cup {Never}, Latest(p, pass[p].page) = t, t # Never => t <= now
        PROVE  Latest(p, pass[p].page) \in Times \cup {Never}
               /\ (Latest(p, pass[p].page) # Never => Latest(p, pass[p].page) <= now)
    BY <2>4, Zenon
  <2>5. CASE Latest(p, pass[p].page) = pass[p].top
    BY <2>3, <2>4, <2>5
  <2>6. CASE \E d \in pass[p].page : Latest(p, pass[p].page) = start[d]
    <3>1. PICK d \in pass[p].page : Latest(p, pass[p].page) = start[d]
      BY <2>6
    <3> QED
      BY <2>1, <2>4, <3>1
  <2> QED
    BY <2>2, <2>5, <2>6
<1>5. held \in PassType
  BY <1>1, <1>4 DEF PassType
<1>6. /\ held.mine = pass[p].mine \cup pass[p].page /\ held.page = {} /\ held.began = pass[p].began
      /\ held.top = Latest(p, pass[p].page)
  BY <1>1 DEF PassType
<1>7. pass' = [pass EXCEPT ![p] = r] /\ UNCHANGED <<world, now, cursor, rows, misread, crossed>>
  BY DEF PassUpserts
<1> HIDE DEF held
<1>8. r \in PassType /\ r.mine = held.mine /\ r.page = held.page /\ r.began = held.began /\ r.top = held.top
  <2>1. CASE pass[p].last
    <3>1. r = [held EXCEPT !.stage = "ask", !.since = 0, !.offset = 0, !.last = FALSE]
      BY <2>1
    <3> HIDE DEF r
    <3> DEFINE rest == [held EXCEPT !.since = 0]
               done == [rest EXCEPT !.offset = 0]
    <3>2. r = [done EXCEPT !.stage = "ask", !.last = FALSE]
      BY <1>5, <3>1 DEF PassType
    <3>3. rest \in PassType /\ rest.mine = held.mine /\ rest.page = held.page
      BY <1>5 DEF PassType
    <3>4. rest.began = held.began /\ rest.top = held.top
      BY <1>5 DEF PassType
    <3> HIDE DEF rest
    <3>5. /\ done \in PassType /\ done.mine = rest.mine /\ done.page = rest.page
          /\ done.began = rest.began /\ done.top = rest.top
      BY <3>3 DEF PassType
    <3> HIDE DEF done
    <3> QED
      BY <3>2, <3>3, <3>4, <3>5 DEF PassType, Stages
  <2>2. CASE ~pass[p].last
    <3>1. r = [held EXCEPT !.stage = "list"]
      BY <2>2
    <3> HIDE DEF r
    <3> QED
      BY <1>5, <3>1 DEF PassType, Stages
  <2> QED
    BY <2>1, <2>2
<1> HIDE DEF r
<1>9. (\A c \in r.mine \cup r.page : Recorded(c)) /\ (r.top # Never => r.top <= now) /\ r.page = {}
  BY <1>2, <1>4, <1>6, <1>8 DEF PassSound
<1>10. r.began <= now /\ now <= r.began + MaxPass
  BY <1>2, <1>6, <1>8 DEF PassSound
<1> QED
  BY <1>7, <1>8, <1>9, <1>10, SoundBefore DEF Sound, TypeOK

LEMMA SoundAsk == ASSUME Sound, NEW p \in Passes, PassAsks(p) PROVE Sound'
<1>1. PICK failed \in SUBSET ClientsOf(p) :
        /\ pass' = [pass EXCEPT ![p].stage = "scope",
                      ![p].answers = [k \in Clients |->
                         IF k \in ClientsOf(p) \ failed THEN Qualification(k) ELSE Never]]
        /\ misread' = misread \cup {k \in failed : Qualification(k) # Never}
        /\ UNCHANGED <<world, now, cursor, rows, crossed>>
  BY DEF PassAsks
<1> DEFINE answers == [k \in Clients |-> IF k \in ClientsOf(p) \ failed THEN Qualification(k) ELSE Never]
           r == [pass[p] EXCEPT !.stage = "scope", !.answers = answers]
<1>2. pass[p] \in PassType /\ now \in Times
  BY PassTyped DEF Sound, TypeOK
<1>3. \A k \in Clients : Qualification(k) \in Times \cup {Never}
  <2> SUFFICES ASSUME NEW k \in Clients, qualifiedAt[k] # Never, qualifiedAt[k] <= now
               PROVE  qualifiedAt[k] \in Times
    BY DEF Qualification
  <2>1. qualifiedAt[k] \in Nat /\ now <= MaxTime /\ now \in Nat
    BY <1>2, Numbers DEF Sound, WorldInv
  <2> QED
    BY <2>1, Numbers DEF Times
<1>4. answers \in [Clients -> Times \cup {Never}]
  BY <1>3
<1>5. pass' = [pass EXCEPT ![p] = r]
  BY <1>1
<1> HIDE DEF answers
<1>6. /\ r \in PassType /\ r.stage = "scope" /\ r.mine = pass[p].mine /\ r.page = pass[p].page
      /\ r.began = pass[p].began /\ r.top = pass[p].top
  BY <1>2, <1>4 DEF PassType, Stages
<1> HIDE DEF r
<1>7. PassSound(p) /\ pass[p].stage = "ask"
  BY DEF PassAsks, Sound
<1>8. (\A c \in r.mine \cup r.page : Recorded(c)) /\ (r.top # Never => r.top <= now) /\ r.page = {}
  BY <1>6, <1>7 DEF PassSound
<1>9. r.began <= now /\ now <= r.began + MaxPass
  BY <1>6, <1>7 DEF PassSound
<1>10. misread' \cup crossed' \subseteq Clients
  <2>1. misread \cup crossed \subseteq Clients /\ ClientsOf(p) \subseteq Clients
    BY <1>2 DEF Sound, TypeOK, ClientsOf, Clients, PassType
  <2> QED
    BY <1>1, <2>1
<1> QED
  BY <1>1, <1>5, <1>6, <1>8, <1>9, <1>10, SoundBefore

LEMMA SoundRead == ASSUME Sound, NEW p \in Passes, PassReads(p) PROVE Sound'
<1> DEFINE read == [c \in Calls |-> CASE ClientOf[c] \in ClientsOf(p) /\ Stored(c) -> rows[c]
                                      [] c \in pass[p].mine /\ ~Stored(c) -> Inserted
                                      [] OTHER -> Absent]
           r == [pass[p] EXCEPT !.stage = "commit", !.read = read]
<1>1. pass \in [Passes -> PassType] /\ rows \in [Calls -> Rows]
  BY PassTyped DEF Sound, TypeOK
<1>2. read \in [Calls -> Rows]
  BY <1>1, IdleTyped
<1>3. pass' = [pass EXCEPT ![p] = r] /\ UNCHANGED <<world, now, cursor, rows>>
  BY DEF PassReads
<1> HIDE DEF read
<1>4. /\ r \in PassType /\ r.stage = "commit" /\ r.mine = pass[p].mine /\ r.page = pass[p].page
      /\ r.began = pass[p].began /\ r.top = pass[p].top
  BY <1>1, <1>2 DEF PassType, Stages
<1> HIDE DEF r
<1>5. PassSound(p) /\ pass[p].stage = "scope"
  BY DEF PassReads, Sound
<1>6. (\A c \in r.mine \cup r.page : Recorded(c)) /\ (r.top # Never => r.top <= now) /\ r.page = {}
  BY <1>4, <1>5 DEF PassSound
<1>7. r.began <= now /\ now <= r.began + MaxPass
  BY <1>4, <1>5 DEF PassSound
<1>8. misread' \cup crossed' \subseteq Clients
  <2>1. pass[p].mine \subseteq Calls
    BY <1>1 DEF PassType
  <2>2. NewOf(p) \subseteq Clients /\ Overtaken(p) \subseteq Clients
    BY <2>1 DEF NewOf, Overtaken, ClientsOf, Clients
  <2> QED
    BY <2>2 DEF PassReads, Sound, TypeOK
<1> QED
  BY <1>3, <1>4, <1>6, <1>7, <1>8, SoundBefore DEF Sound, TypeOK

LEMMA SoundDeath == ASSUME Sound, NEW p \in Passes, PassDies(p) PROVE Sound'
<1>1. Idle.mine = {} /\ Idle.page = {} /\ Idle.top = Never /\ Idle.stage = "idle"
  BY DEF Idle
<1> QED
  BY <1>1, IdleTyped, SoundBefore DEF PassDies, Sound, TypeOK

(* The rows a commit writes are those it read, as rows again. *)
LEMMA FlushedTyped ==
  ASSUME Sound, NEW p \in Passes, NEW c \in Calls
  PROVE  Flushed(p, c) \in Rows /\ Flushed(p, c).status # "none"
<1> DEFINE was == pass[p].read[c]
           new == Rescoped(p, c)
           old == IF Stored(c) THEN rows[c] ELSE Inserted
<1>1. pass[p] \in PassType /\ rows[c] \in Rows /\ Inserted \in Rows
  BY PassTyped, IdleTyped DEF Sound, TypeOK
<1>2. was \in Rows /\ old \in Rows
  BY <1>1 DEF PassType
<1>3. pass[p].answers[ClientOf[c]] \in Times \cup {Never}
  BY <1>1 DEF PassType, Clients
<1>4. ScopedStatus(c, was.status, pass[p].answers) \in Statuses \ {"none"}
  BY DEF ScopedStatus, Statuses
<1>5. new \in Rows /\ new.status # "none"
  BY <1>3, <1>4 DEF Rescoped, Rows
<1>6. old.status # "none"
  BY DEF Stored, Inserted, Absent
<1>7. Flushed(p, c) = [status |-> Written(was.status, new.status, old.status),
                       first |-> Written(was.first, new.first, old.first),
                       at |-> Written(was.at, new.at, old.at)]
  BY DEF Flushed
<1> HIDE DEF was, new, old
<1>8. /\ Written(was.status, new.status, old.status) \in Statuses \ {"none"}
      /\ Written(was.first, new.first, old.first) \in BOOLEAN
      /\ Written(was.at, new.at, old.at) \in Times \cup {Never}
  BY <1>2, <1>5, <1>6 DEF Written, Rows
<1> QED
  BY <1>7, <1>8 DEF Rows

-----------------------------------------------------------------------------
(* What a pass has read before it commits: its own calls, and stored ones.  *)

ReadsOwn(p) ==
  pass[p].stage = "commit" => /\ pass[p].mine \subseteq Read(p)
                              /\ \A c \in Read(p) : Stored(c) \/ c \in pass[p].mine
ReadInv == \A p \in Passes : ReadsOwn(p)

(* What a commit stores: the calls of the pass, and no others; none is lost. *)
LEMMA CommitStores ==
  ASSUME Sound, ReadInv, NEW p \in Passes, PassCommits(p)
  PROVE  rows' \in [Calls -> Rows] /\ \A c \in Calls : Stored(c)' <=> Stored(c) \/ c \in pass[p].mine
<1>1. rows' = [c \in Calls |-> IF c \in Read(p) THEN Flushed(p, c) ELSE rows[c]] /\ rows \in [Calls -> Rows]
  BY DEF PassCommits, Sound, TypeOK
<1>2. rows' \in [Calls -> Rows]
  BY <1>1, FlushedTyped
<1>3. /\ pass[p].mine \subseteq Read(p) /\ \A c \in Read(p) : Stored(c) \/ c \in pass[p].mine
  BY DEF ReadInv, ReadsOwn, PassCommits
<1>4. ASSUME NEW c \in Calls, c \in Read(p) PROVE Stored(c)'
  <2>1. rows'[c] = Flushed(p, c) /\ Flushed(p, c).status # "none"
    BY <1>1, <1>4, FlushedTyped
  <2> QED
    BY <2>1 DEF Stored
<1>5. ASSUME NEW c \in Calls \ Read(p) PROVE Stored(c)' <=> Stored(c)
  BY <1>1, <1>5 DEF Stored
<1> QED
  BY <1>2, <1>3, <1>4, <1>5

LEMMA SoundCommit == ASSUME Sound, ReadInv, NEW p \in Passes, PassCommits(p) PROVE Sound'
<1>1. pass[p] \in PassType /\ PassSound(p) /\ now \in Times
  BY PassTyped DEF Sound, TypeOK
<1>2. pass' = [pass EXCEPT ![p] = Idle] /\ UNCHANGED <<world, now, misread, crossed>>
      /\ cursor' = IF pass[p].top = Never THEN cursor ELSE pass[p].top
  BY DEF PassCommits
<1>3. Idle.mine = {} /\ Idle.page = {} /\ Idle.top = Never /\ Idle.stage = "idle"
  BY DEF Idle
<1>4. pass' \in [Passes -> PassType] /\ \A q \in Passes : PassSound(q)'
  BY <1>2, <1>3, IdleTyped, PassReplaced
<1>5. cursor' \in Times \cup {Never} /\ (cursor' # Never => cursor' <= now)
  BY <1>1, <1>2 DEF PassType, PassSound, Sound, TypeOK
<1>6. rows' \in [Calls -> Rows] /\ \A c \in Calls : Stored(c)' <=> Stored(c) \/ c \in pass[p].mine
  BY CommitStores
<1>7. TypeOK'
  BY <1>2, <1>4, <1>5, <1>6 DEF Sound, TypeOK, PassType, Stages
<1>8. WorldInv'
  BY <1>2 DEF Sound, WorldInv, world
<1>9. \A c \in Calls : Stored(c)' => Recorded(c)'
  BY <1>1, <1>2, <1>6 DEF Sound, PassSound, Recorded, world
<1> QED
  BY <1>2, <1>4, <1>5, <1>7, <1>8, <1>9 DEF Sound

LEMMA SoundClaim == ASSUME Sound, NEW c \in Calls, Claimed(c) PROVE Sound'
<1>1. rows' = [rows EXCEPT ![c].status = "past"] /\ rows \in [Calls -> Rows] /\ rows[c].status = "NEW"
      /\ UNCHANGED <<world, now, cursor, pass, misread, crossed>>
  BY DEF Claimed, Sound, TypeOK
<1>2. rows' \in [Calls -> Rows] /\ \A d \in Calls : Stored(d)' <=> Stored(d)
  BY <1>1 DEF Rows, Statuses, Stored
<1>3. TypeOK' /\ WorldInv'
  BY <1>1, <1>2 DEF Sound, TypeOK, WorldInv, world
<1>4. \A p \in Passes : PassSound(p)'
  BY <1>1 DEF Sound, PassSound, Recorded, world
<1> QED
  BY <1>1, <1>2, <1>3, <1>4 DEF Sound, Recorded, world

LEMMA SoundTick == ASSUME Sound, Tick PROVE Sound'
<1>1. now \in Times /\ now < MaxTime /\ now' = now + 1
      /\ UNCHANGED <<world, cursor, rows, pass, misread, crossed>>
  BY DEF Tick, Sound, TypeOK
<1>2. now' \in Times /\ now \in Int
  BY <1>1, Numbers DEF Times
<1>3. TypeOK' /\ WorldInv'
  BY <1>1, <1>2 DEF Sound, TypeOK, WorldInv, world
<1>4. \A c \in Calls : Recorded(c) => Recorded(c)'
  <2>1. \A c \in Calls : recordedAt[c] # Never => recordedAt[c] \in Int
    BY Numbers DEF Sound, WorldInv
  <2> QED
    BY <1>1, <1>2, <2>1 DEF Recorded, world
<1>5. cursor' # Never => cursor' <= now'
  <2>1. cursor \in Times \cup {Never} /\ (cursor # Never => cursor <= now)
    BY DEF Sound, TypeOK
  <2> QED
    BY <1>1, <1>2, <2>1, Numbers
<1>6. ASSUME NEW p \in Passes PROVE PassSound(p)'
  <2>1. pass[p] \in PassType /\ PassSound(p)
    BY PassTyped DEF Sound
  <2>2. pass[p].mine \subseteq Calls /\ pass[p].page \subseteq Calls /\ pass[p].top \in Times \cup {Never}
        /\ pass[p].began \in Times
    BY <2>1 DEF PassType
  <2>3. pass[p].top # Never => pass[p].top <= now'
    <3>1. pass[p].top # Never => pass[p].top \in Int /\ pass[p].top <= now
      BY <2>1, <2>2, Numbers DEF PassSound
    <3> QED
      BY <1>1, <1>2, <3>1
  <2>4. pass[p].stage # "idle" => pass[p].began <= now' /\ now' <= pass[p].began + MaxPass
    <3>1. pass[p].stage # "idle" => now - pass[p].began < MaxPass /\ pass[p].began <= now
      BY <2>1 DEF Tick, PassSound
    <3>2. pass[p].began \in Int /\ MaxPass \in Int
      BY <2>2, Numbers
    <3> QED
      BY <1>1, <1>2, <3>1, <3>2
  <2> QED
    BY <1>1, <1>4, <2>1, <2>2, <2>3, <2>4 DEF PassSound
<1> QED
  BY <1>1, <1>3, <1>4, <1>5, <1>6 DEF Sound, Stored

LEMMA ReadsKept ==
  ASSUME ReadInv, NEW p \in Passes, \A q \in Passes \ {p} : pass'[q] = pass[q],
         pass'[p].stage # "commit", \A c \in Calls : Stored(c) => Stored(c)',
         \A q \in Passes : pass[q].mine \subseteq Calls
  PROVE  ReadInv'
<1> SUFFICES ASSUME NEW q \in Passes, pass'[q].stage = "commit" PROVE ReadsOwn(q)'
  BY DEF ReadInv, ReadsOwn
<1>1. pass'[q] = pass[q]
  OBVIOUS
<1>2. Read(q)' = Read(q) /\ Read(q) \subseteq Calls
  BY <1>1 DEF Read
<1> QED
  BY <1>1, <1>2 DEF ReadInv, ReadsOwn

(* A step of a pass: the others stand still, and so does the table until a commit. *)
PassStep(p) ==
  \/ PassStarts(p) \/ PassFetches(p) \/ PassUpserts(p)
  \/ PassAsks(p) \/ PassReads(p) \/ PassCommits(p) \/ PassDies(p)

LEMMA OthersStand ==
  ASSUME TypeOK, NEW p \in Passes, PassStep(p)
  PROVE  \A q \in Passes \ {p} : pass'[q] = pass[q]
<1>1. pass \in [Passes -> PassType]
  BY PassTyped
<1> QED
  BY <1>1 DEF PassStep, PassStarts, PassFetches, PassUpserts, PassAsks, PassReads, PassCommits, PassDies

LEMMA ReadStep == ASSUME Sound, ReadInv, [Next]_vars PROVE ReadInv'
<1>0. pass \in [Passes -> PassType] /\ \A q \in Passes : pass[q].mine \subseteq Calls
  <2>1. pass \in [Passes -> PassType]
    BY PassTyped DEF Sound
  <2> QED
    BY <2>1 DEF PassType
<1>1. ASSUME NEW p \in Passes, PassStep(p) PROVE ReadInv'
  <2>1. \A q \in Passes \ {p} : pass'[q] = pass[q]
    BY <1>1, OthersStand DEF Sound
  <2>2. CASE PassReads(p)
    <3>1. pass'[p].read = [c \in Calls |-> CASE ClientOf[c] \in ClientsOf(p) /\ Stored(c) -> rows[c]
                                            [] c \in pass[p].mine /\ ~Stored(c) -> Inserted
                                            [] OTHER -> Absent]
          /\ pass'[p].mine = pass[p].mine /\ rows' = rows
      BY <1>0, <2>2 DEF PassReads, PassType
    <3>2. ASSUME NEW c \in Calls PROVE c \in pass[p].mine => c \in Read(p)'
      <4>1. Inserted # Absent /\ (Stored(c) => rows[c] # Absent)
        BY DEF Inserted, Absent, Stored
      <4>2. c \in pass[p].mine => ClientOf[c] \in ClientsOf(p)
        BY DEF ClientsOf
      <4> QED
        BY <3>1, <4>1, <4>2 DEF Read
    <3>3. ASSUME NEW c \in Calls, c \in Read(p)' PROVE Stored(c)' \/ c \in pass'[p].mine
      BY <3>1, <3>3 DEF Read, Stored
    <3>4. ReadsOwn(p)'
      BY <1>0, <3>1, <3>2, <3>3 DEF ReadsOwn, Read
    <3>5. ASSUME NEW q \in Passes \ {p} PROVE ReadsOwn(q)'
      <4>1. pass'[q] = pass[q] /\ Read(q)' = Read(q) /\ \A c : Stored(c)' <=> Stored(c)
        BY <2>1, <3>1 DEF Read, Stored
      <4> QED
        BY <4>1 DEF ReadInv, ReadsOwn
    <3> QED
      BY <3>4, <3>5 DEF ReadInv
  <2>3. CASE PassCommits(p)
    <3>1. pass'[p].stage # "commit"
      BY <1>0, <2>3 DEF PassCommits, Idle
    <3>2. \A c \in Calls : Stored(c) => Stored(c)'
      BY <2>3, CommitStores
    <3> QED
      BY <1>0, <2>1, <3>1, <3>2, ReadsKept
  <2>4. CASE PassStarts(p) \/ PassFetches(p) \/ PassUpserts(p) \/ PassAsks(p) \/ PassDies(p)
    <3>1. \A c : Stored(c) => Stored(c)'
      BY <2>4 DEF Stored, PassStarts, PassFetches, PassUpserts, PassAsks, PassDies
    <3>2. pass'[p].stage # "commit"
      <4>1. CASE PassStarts(p)
        <5>1. pass'[p] = [Idle EXCEPT !.stage = "list", !.began = now, !.since = Since(cursor), !.top = cursor]
          BY <1>0, <4>1 DEF PassStarts
        <5> QED
          BY <5>1 DEF Idle
      <4>5. CASE PassDies(p)
        <5>1. pass'[p] = Idle
          BY <1>0, <4>5 DEF PassDies
        <5> QED
          BY <5>1 DEF Idle
      <4>2. CASE PassFetches(p)
        <5>1. \E page, to, last : pass' = [pass EXCEPT ![p].stage = "upsert", ![p].page = page,
                                                        ![p].offset = to, ![p].last = last]
          BY <4>2 DEF PassFetches
        <5> QED
          BY <1>0, <5>1 DEF PassType
      <4>3. CASE PassUpserts(p)
        <5> DEFINE held == [pass[p] EXCEPT !.mine = @ \cup pass[p].page,
                                           !.top = Latest(p, pass[p].page), !.page = {}]
        <5>1. pass'[p] = IF pass[p].last THEN [held EXCEPT !.stage = "ask", !.since = 0, !.offset = 0, !.last = FALSE]
                         ELSE [held EXCEPT !.stage = "list"]
          BY <1>0, <4>3 DEF PassUpserts
        <5>2. "stage" \in DOMAIN held
          BY <1>0 DEF PassType
        <5> HIDE DEF held
        <5> QED
          BY <5>1, <5>2
      <4>4. CASE PassAsks(p)
        BY <1>0, <4>4 DEF PassAsks, PassType
      <4> QED
        BY <2>4, <4>1, <4>2, <4>3, <4>4, <4>5
    <3> QED
      BY <1>0, <2>1, <3>1, <3>2, ReadsKept
  <2> QED
    BY <1>1, <2>2, <2>3, <2>4 DEF PassStep
<1>2. CASE Tick \/ UNCHANGED vars \/ \E c \in Calls : Claimed(c)
  <2>1. pass' = pass
    BY <1>2 DEF Tick, vars, Claimed
  <2>2. \A c \in Calls : Stored(c) => Stored(c)'
    <3>1. CASE rows' = rows
      BY <3>1 DEF Stored
    <3>2. CASE \E c \in Calls : Claimed(c)
      <4>1. PICK c \in Calls : rows' = [rows EXCEPT ![c].status = "past"]
        BY <3>2 DEF Claimed
      <4> QED
        BY <4>1 DEF Sound, TypeOK, Rows, Stored
    <3> QED
      BY <1>2, <3>1, <3>2 DEF Tick, vars
  <2>3. ASSUME NEW p \in Passes PROVE ReadsOwn(p)'
    <3>1. Read(p)' = Read(p) /\ Read(p) \subseteq Calls
      BY <2>1 DEF Read
    <3> QED
      BY <2>1, <2>2, <3>1 DEF ReadInv, ReadsOwn
  <2> QED
    BY <2>3 DEF ReadInv
<1> QED
  BY <1>1, <1>2 DEF Next, PassStep

LEMMA SoundStep == ASSUME Sound, ReadInv, [Next]_vars PROVE Sound'
<1>1. CASE UNCHANGED vars
  BY <1>1 DEF vars, world, Sound, TypeOK, WorldInv, PassSound, Recorded, Stored
<1>2. CASE Tick
  BY <1>2, SoundTick
<1>3. CASE \E c \in Calls : Claimed(c)
  BY <1>3, SoundClaim
<1>4. ASSUME NEW p \in Passes, PassStep(p) PROVE Sound'
  BY <1>4, SoundStart, SoundFetch, SoundUpsert, SoundAsk, SoundRead, SoundCommit, SoundDeath DEF PassStep
<1> QED
  BY <1>1, <1>2, <1>3, <1>4 DEF Next, PassStep

LEMMA AlwaysSound == Spec => [](Sound /\ ReadInv)
<1>1. Init => Sound /\ ReadInv
  <2>1. Init => ReadInv
    BY DEF Init, ReadInv, ReadsOwn, Idle
  <2> QED
    BY <2>1, SoundAtStart
<1>2. Sound /\ ReadInv /\ [Next]_vars => Sound' /\ ReadInv'
  BY SoundStep, ReadStep
<1> QED
  BY <1>1, <1>2, PTL DEF Spec

(* A pass, whatever it reads, waits for and rolls back, keeps to its types. *)
THEOREM IngestTypes == Spec => []TypeOK
<1>1. Sound => TypeOK
  BY DEF Sound
<1> QED
  BY <1>1, AlwaysSound, PTL

-----------------------------------------------------------------------------
(* Nothing slips.  A pass has still to come to every call that was recorded when *)
(* it began and is nowhere yet, or has stopped short of it: no row it has kept   *)
(* is further on.                                                                *)

Unseen(p, c) ==
  /\ recordedAt[c] # Never /\ recordedAt[c] <= pass[p].began
  /\ ~Stored(c) /\ c \notin pass[p].mine \cup pass[p].page

StillAhead(p) ==
  pass[p].stage \in {"list", "upsert"} =>
    \A c \in Calls : Unseen(p, c) =>
      start[c] >= pass[p].since /\ Place(c, pass[p].since) > pass[p].offset
PageIsBefore(p) == \A c \in Calls : Unseen(p, c) => \A d \in pass[p].page : d <= c
WithinOverlap(p) ==
  pass[p].stage # "idle" =>
    \A c \in Calls : Unseen(p, c) /\ pass[p].top # Never => start[c] >= pass[p].top - Overlap

Scans(p) == StillAhead(p) /\ PageIsBefore(p) /\ WithinOverlap(p)
SlipInv == NothingSlips /\ \A p \in Passes : Scans(p)

(* The first pass of all reads back to before anything began. *)
BackCovers == MaxTime <= InitialBack

(* What another step does to a pass's scan: calls are stored, time goes on. *)
LEMMA ScanStands ==
  ASSUME Sound, NEW p \in Passes, Scans(p), world' = world, now' \in Int, now <= now', pass'[p] = pass[p],
         \A c \in Calls : Stored(c) => Stored(c)'
  PROVE  Scans(p)'
<1>1. \A c \in Calls : Unseen(p, c)' => Unseen(p, c)
  BY DEF Unseen, world
<1>2. ASSUME NEW c \in Calls, NEW since
      PROVE  Place(c, since) \in Nat /\ Place(c, since)' \in Nat /\ Place(c, since) <= Place(c, since)'
  <2> DEFINE upTo == {d \in Statistic(since) : d <= c}
             later == {d \in Statistic(since)' : d <= c}
  <2>1. upTo \subseteq later /\ later \subseteq Calls
    <3>1. \A d \in Calls : listedAt[d] \in Int /\ now \in Int
      BY Numbers DEF Sound, TypeOK, WorldInv
    <3> QED
      BY <3>1 DEF Statistic, Listed, world
  <2>2. IsFiniteSet(later) /\ IsFiniteSet(upTo)
    BY <2>1, CallsFinite
  <2>3. Cardinality(upTo) \in Nat /\ Cardinality(later) \in Nat /\ Cardinality(upTo) <= Cardinality(later)
    BY <2>1, <2>2, FS_Subset, FS_CardinalityType
  <2> QED
    BY <2>3 DEF Place
<1>3. pass[p].since \in Int /\ pass[p].offset \in Nat
  BY PassTyped DEF Sound, PassType
<1>4. StillAhead(p)'
  <2> SUFFICES ASSUME pass[p].stage \in {"list", "upsert"}, NEW c \in Calls, Unseen(p, c)
               PROVE  start[c] >= pass[p].since /\ Place(c, pass[p].since)' > pass[p].offset
    BY <1>1 DEF StillAhead, world
  <2>1. start[c] >= pass[p].since /\ Place(c, pass[p].since) > pass[p].offset
    BY DEF Scans, StillAhead
  <2> QED
    BY <1>2, <1>3, <2>1
<1>5. PageIsBefore(p)' /\ WithinOverlap(p)'
  BY <1>1 DEF Scans, PageIsBefore, WithinOverlap, world
<1> QED
  BY <1>4, <1>5 DEF Scans

(* A call that waits to be stored was recorded long enough ago to be read. *)
LEMMA SlipsNotByTime ==
  ASSUME BackCovers, Sound, NothingSlips, Tick, OverlapCovers PROVE NothingSlips'
<1> SUFFICES ASSUME NEW c \in Calls, Recorded(c)', ~Stored(c)' PROVE start[c] >= Since(cursor)'
  BY DEF NothingSlips, Tick, world
<1>1. now \in Int /\ now' = now + 1 /\ now < MaxTime /\ start[c] \in Nat /\ cursor' = cursor
      /\ cursor \in Times \cup {Never}
  BY Numbers DEF Tick, Sound, TypeOK, WorldInv
<1>2. CASE cursor = Never
  <2>1. Since(cursor)' = now + 1 - InitialBack
    BY <1>1, <1>2, Numbers DEF Since
  <2> QED
    BY <1>1, <2>1, Numbers DEF BackCovers
<1>3. CASE cursor # Never /\ Recorded(c)
  <2>1. start[c] >= Since(cursor)
    BY <1>3 DEF NothingSlips, Tick, Stored
  <2> QED
    BY <1>1, <1>3, <2>1 DEF Since
<1>4. CASE cursor # Never /\ ~Recorded(c)
  <2>1. recordedAt[c] # Never /\ recordedAt[c] \in Int /\ recordedAt[c] <= start[c] + MaxDelay
    BY Numbers DEF Recorded, Tick, world, Sound, WorldInv
  <2>2. recordedAt[c] > now
    BY <1>1, <1>4, <2>1 DEF Recorded
  <2>3. cursor \in Int /\ cursor <= now
    BY <1>1, <1>4, Numbers DEF Sound
  <2>4. MaxDelay <= Overlap
    BY Numbers DEF OverlapCovers
  <2>5. Since(cursor)' = cursor - Overlap
    BY <1>1, <1>4 DEF Since
  <2> QED
    BY <1>1, <2>1, <2>2, <2>3, <2>4, <2>5, Numbers
<1> QED
  BY <1>2, <1>3, <1>4

(* A pass begins with everything that waits before it. *)
LEMMA ScanStarts ==
  ASSUME Sound, NothingSlips, NEW p \in Passes, PassStarts(p) PROVE Scans(p)'
<1> DEFINE r == [Idle EXCEPT !.stage = "list", !.began = now, !.since = Since(cursor), !.top = cursor]
<1>1. pass' = [pass EXCEPT ![p] = r] /\ pass \in [Passes -> PassType]
      /\ UNCHANGED <<world, now, cursor, rows, misread, crossed>>
  BY PassTyped DEF PassStarts, Sound
<1>2. /\ r.stage = "list" /\ r.began = now /\ r.top = cursor /\ r.mine = {} /\ r.page = {}
      /\ r.since = Since(cursor) /\ r.offset = 0
  BY DEF Idle
<1> HIDE DEF r
<1>3. pass'[p] = r
  BY <1>1
<1>4. ASSUME NEW c \in Calls, Unseen(p, c)' PROVE start[c] >= Since(cursor) /\ Place(c, Since(cursor))' > 0
  <2>1. Recorded(c) /\ ~Stored(c)
    BY <1>1, <1>2, <1>3, <1>4 DEF Unseen, Recorded, Stored, world
  <2>2. start[c] >= Since(cursor) /\ listedAt[c] <= now
    BY <2>1, RecordedBegan DEF NothingSlips, Sound
  <2>3. c \in Statistic(Since(cursor))
    BY <2>2 DEF Statistic, Listed
  <2>4. Place(c, Since(cursor)) > 0
    BY <2>3, ListedHasPlace
  <2>5. Place(c, Since(cursor))' = Place(c, Since(cursor))
    BY <1>1 DEF Place, Statistic, Listed, world, Since
  <2> QED
    BY <2>2, <2>4, <2>5
<1>5. StillAhead(p)'
  <2>1. Since(cursor)' = Since(cursor)
    BY <1>1 DEF Since
  <2> QED
    BY <1>1, <1>2, <1>3, <1>4, <2>1 DEF StillAhead, world
<1>6. PageIsBefore(p)'
  BY <1>2, <1>3 DEF PageIsBefore
<1>7. WithinOverlap(p)'
  BY <1>1, <1>2, <1>3, <1>4 DEF WithinOverlap, Since, world
<1> QED
  BY <1>5, <1>6, <1>7 DEF Scans

(* What a page leaves out comes after it. *)
LEMMA ScanFetches ==
  ASSUME Sound, NEW p \in Passes, Scans(p), PassFetches(p) PROVE Scans(p)'
<1> DEFINE to == Min({pass[p].offset + PageSize, Limit})
           since == pass[p].since
           read == {c \in Statistic(since) : pass[p].offset < Place(c, since) /\ Place(c, since) <= to}
<1>1. /\ pass[p] \in PassType /\ pass \in [Passes -> PassType] /\ to \in Nat /\ PassSound(p)
      /\ pass[p].stage = "list" /\ pass[p].page = {}
  <2>1. pass[p] \in PassType /\ pass \in [Passes -> PassType]
    BY PassTyped DEF Sound
  <2>2. to \in Nat
    BY <2>1, LesserIsOne, Numbers DEF PassType
  <2>3. PassSound(p) /\ pass[p].stage = "list"
    BY DEF PassFetches, Sound
  <2> QED
    BY <2>1, <2>2, <2>3 DEF PassSound
<1>2. UNCHANGED <<world, now, cursor, rows, misread, crossed>>
  BY DEF PassFetches
<1>3. /\ pass'[p].stage = "upsert" /\ pass'[p].page = {c \in read : Recorded(c)} /\ pass'[p].offset = to
      /\ pass'[p].since = since /\ pass'[p].mine = pass[p].mine /\ pass'[p].began = pass[p].began
      /\ pass'[p].top = pass[p].top
  <2>1. \E last : pass' = [pass EXCEPT ![p].stage = "upsert", ![p].page = {c \in read : Recorded(c)},
                                      ![p].offset = to, ![p].last = last]
    BY DEF PassFetches
  <2>2. PICK last : pass' = [pass EXCEPT ![p].stage = "upsert", ![p].page = {c \in read : Recorded(c)},
                                       ![p].offset = to, ![p].last = last]
    BY <2>1
  <2>3. pass'[p] = [pass[p] EXCEPT !.stage = "upsert", !.page = {c \in read : Recorded(c)},
                                   !.offset = to, !.last = last]
    BY <1>1, <2>2
  <2> HIDE DEF to, read
  <2> QED
    BY <1>1, <2>3 DEF PassType
<1>4. \A c \in Calls : Unseen(p, c)' => Unseen(p, c) /\ c \notin pass'[p].page
  BY <1>1, <1>2, <1>3 DEF Unseen, Stored, world
<1>5. ASSUME NEW c \in Calls, Unseen(p, c)'
      PROVE  start[c] >= since /\ Place(c, since) > to /\ Place(c, since) \in Nat
  <2>1. start[c] >= since /\ Place(c, since) > pass[p].offset
    BY <1>1, <1>4, <1>5 DEF Scans, StillAhead
  <2>2. Recorded(c)
    <3>1. recordedAt[c] # Never /\ recordedAt[c] \in Int /\ recordedAt[c] <= pass[p].began
      BY <1>4, <1>5, Numbers DEF Unseen, Sound, WorldInv
    <3>2. pass[p].began \in Int /\ now \in Int /\ pass[p].began <= now
      BY <1>1, Numbers DEF PassType, PassSound, Sound, TypeOK
    <3> QED
      BY <3>1, <3>2 DEF Recorded
  <2>3. c \in Statistic(since)
    BY <2>1, <2>2, RecordedBegan DEF Sound, Statistic, Listed
  <2>4. c \notin read
    BY <1>3, <1>4, <1>5, <2>2
  <2>5. Place(c, since) \in Nat
    BY <2>3, ListedHasPlace
  <2> QED
    BY <1>1, <2>1, <2>3, <2>4, <2>5
<1>6. \A c : Place(c, since)' = Place(c, since)
  BY <1>2, <1>3 DEF Place, Statistic, Listed, world
<1>7. StillAhead(p)'
  <2> HIDE DEF to, read
  <2> SUFFICES ASSUME NEW c \in Calls, Unseen(p, c)'
               PROVE  start'[c] >= pass'[p].since /\ Place(c, pass[p].since)' > pass'[p].offset
    BY DEF StillAhead
  <2> QED
    BY <1>2, <1>3, <1>5, <1>6 DEF world
<1>8. ASSUME NEW c \in Calls, Unseen(p, c)', NEW d \in pass'[p].page PROVE d <= c
  <2>1. d \in Calls /\ Place(d, since) <= to
    BY <1>3 DEF Statistic
  <2>2. CASE c <= d
    <3>1. Place(c, since) <= Place(d, since) /\ Place(d, since) \in Nat
      BY <2>1, <2>2, PlaceIsOrdered
    <3> QED
      BY <1>1, <1>5, <1>8, <2>1, <3>1
  <2> QED
    BY <2>1, <2>2, Numbers
<1>9. PageIsBefore(p)'
  BY <1>8 DEF PageIsBefore
<1>10. WithinOverlap(p)'
  BY <1>1, <1>2, <1>3, <1>4 DEF Scans, WithinOverlap, world
<1> QED
  BY <1>7, <1>9, <1>10 DEF Scans

(* The page moves the pass's latest start to no later than what it leaves out. *)
LEMMA ScanUpserts ==
  ASSUME Sound, NEW p \in Passes, Scans(p), PassUpserts(p) PROVE Scans(p)'
<1> DEFINE held == [pass[p] EXCEPT !.mine = @ \cup pass[p].page,
                                   !.top = Latest(p, pass[p].page), !.page = {}]
<1>1. pass[p] \in PassType /\ pass \in [Passes -> PassType] /\ PassSound(p) /\ pass[p].stage = "upsert"
  BY PassTyped DEF Sound, PassUpserts
<1>2. UNCHANGED <<world, now, cursor, rows, misread, crossed>>
  BY DEF PassUpserts
<1>3. /\ held \in [stage : Stages, began : Times, since : Int, offset : Nat, page : SUBSET Calls, last : BOOLEAN,
                   mine : SUBSET Calls, top : {Latest(p, pass[p].page)},
                   answers : [Clients -> Times \cup {Never}], read : [Calls -> Rows]]
      /\ held.mine = pass[p].mine \cup pass[p].page /\ held.top = Latest(p, pass[p].page) /\ held.page = {}
      /\ held.began = pass[p].began /\ held.since = pass[p].since /\ held.offset = pass[p].offset
  BY <1>1 DEF PassType
<1>4. /\ pass'[p].mine = pass[p].mine \cup pass[p].page /\ pass'[p].page = {}
      /\ pass'[p].top = Latest(p, pass[p].page) /\ pass'[p].began = pass[p].began
      /\ \/ pass'[p].stage = "ask"
         \/ pass'[p].stage = "list" /\ pass'[p].since = pass[p].since /\ pass'[p].offset = pass[p].offset
  <2>1. pass'[p] = IF pass[p].last THEN [held EXCEPT !.stage = "ask", !.since = 0, !.offset = 0, !.last = FALSE]
                   ELSE [held EXCEPT !.stage = "list"]
    BY <1>1 DEF PassUpserts
  <2> HIDE DEF held
  <2>2. CASE pass[p].last
    <3>1. pass'[p] = [held EXCEPT !.stage = "ask", !.since = 0, !.offset = 0, !.last = FALSE]
      BY <2>1, <2>2
    <3> QED
      BY <1>3, <3>1
  <2>3. CASE ~pass[p].last
    <3>1. pass'[p] = [held EXCEPT !.stage = "list"]
      BY <2>1, <2>3
    <3> QED
      BY <1>3, <3>1
  <2> QED
    BY <2>2, <2>3
<1> HIDE DEF held
<1>5. \A c \in Calls : Unseen(p, c)' => Unseen(p, c)
  BY <1>2, <1>4 DEF Unseen, Stored, world
<1>6. StillAhead(p)'
  <2> SUFFICES ASSUME pass'[p].stage = "list", NEW c \in Calls, Unseen(p, c)'
               PROVE  start[c] >= pass[p].since /\ Place(c, pass[p].since)' > pass[p].offset
    BY <1>2, <1>4 DEF StillAhead, world
  <2>1. start[c] >= pass[p].since /\ Place(c, pass[p].since) > pass[p].offset
    BY <1>1, <1>5 DEF Scans, StillAhead
  <2>2. pass'[p].since = pass[p].since
    BY <1>4
  <2>3. Place(c, pass[p].since)' = Place(c, pass[p].since)
    BY <1>2, <2>2 DEF Place, Statistic, Listed, world
  <2> QED
    BY <2>1, <2>3
<1>7. PageIsBefore(p)'
  BY <1>4 DEF PageIsBefore
<1>8. WithinOverlap(p)'
  <2> SUFFICES ASSUME NEW c \in Calls, Unseen(p, c), Latest(p, pass[p].page) # Never
               PROVE  start[c] >= Latest(p, pass[p].page) - Overlap
    BY <1>2, <1>4, <1>5 DEF WithinOverlap, world
  <2>1. pass[p].page \in SUBSET Calls /\ \A d \in pass[p].page : Recorded(d)
    BY <1>1 DEF PassType, PassSound
  <2>2. CASE Latest(p, pass[p].page) = pass[p].top
    BY <1>1, <2>2 DEF Scans, WithinOverlap
  <2>3. CASE \E d \in pass[p].page : Latest(p, pass[p].page) = start[d]
    <3>1. PICK d \in pass[p].page : Latest(p, pass[p].page) = start[d]
      BY <2>3
    <3>2. d \in Calls /\ d <= c
      BY <2>1 DEF Scans, PageIsBefore
    <3>3. start[d] <= start[c] /\ start[d] \in Nat /\ start[c] \in Nat
      BY <3>2 DEF Sound, WorldInv
    <3> QED
      BY <3>1, <3>3, Numbers
  <2> QED
    BY <2>1, <2>2, <2>3, LatestIsKnown DEF Sound
<1> QED
  BY <1>6, <1>7, <1>8 DEF Scans

(* Asking and reading look at no more calls. *)
LEMMA ScanIsOver ==
  ASSUME Sound, NEW p \in Passes, Scans(p), PassAsks(p) \/ PassReads(p) PROVE Scans(p)'
<1>1. pass \in [Passes -> PassType] /\ pass[p] \in PassType /\ PassSound(p)
  BY PassTyped DEF Sound
<1>2. UNCHANGED <<world, now, rows>>
  BY DEF PassAsks, PassReads
<1>3. /\ pass'[p].stage \in {"scope", "commit"} /\ pass'[p].mine = pass[p].mine /\ pass'[p].page = pass[p].page
      /\ pass'[p].top = pass[p].top /\ pass'[p].began = pass[p].began
  <2>1. CASE PassAsks(p)
    <3>1. PICK answers : pass' = [pass EXCEPT ![p].stage = "scope", ![p].answers = answers]
      BY <2>1 DEF PassAsks
    <3> QED
      BY <1>1, <3>1 DEF PassType
  <2>2. CASE PassReads(p)
    <3>1. PICK read : pass' = [pass EXCEPT ![p].stage = "commit", ![p].read = read]
      BY <2>2 DEF PassReads
    <3> QED
      BY <1>1, <3>1 DEF PassType
  <2> QED
    BY <2>1, <2>2
<1>4. pass[p].stage \in {"ask", "scope"}
  BY DEF PassAsks, PassReads
<1>5. \A c \in Calls : Unseen(p, c)' => Unseen(p, c)
  BY <1>2, <1>3 DEF Unseen, Stored, world
<1>6. StillAhead(p)' /\ PageIsBefore(p)' /\ WithinOverlap(p)'
  BY <1>1, <1>2, <1>3, <1>4, <1>5 DEF Scans, StillAhead, PageIsBefore, WithinOverlap, PassSound, world
<1> QED
  BY <1>6 DEF Scans

LEMMA ScanIdle == ASSUME NEW p, pass'[p] = Idle PROVE Scans(p)'
BY DEF Idle, Scans, StillAhead, PageIsBefore, WithinOverlap

(* The commit: what the pass has not stored was either waiting when it began, *)
(* and is within the overlap, or has been recorded since, and began later.     *)
LEMMA CommitSlipsNothing ==
  ASSUME Sound, ReadInv, SlipInv, OverlapCovers, NEW p \in Passes, PassCommits(p) PROVE NothingSlips'
<1> SUFFICES ASSUME NEW c \in Calls, Recorded(c)', ~Stored(c)' PROVE start[c] >= Since(cursor)'
  BY DEF NothingSlips, PassCommits, world
<1>1. UNCHANGED <<world, now>> /\ cursor' = IF pass[p].top = Never THEN cursor ELSE pass[p].top
  BY DEF PassCommits
<1>2. Recorded(c) /\ ~Stored(c) /\ c \notin pass[p].mine
  BY <1>1, CommitStores DEF Recorded, world
<1>3. CASE pass[p].top = Never
  <2>1. Since(cursor)' = Since(cursor)
    BY <1>1, <1>3 DEF Since
  <2> QED
    BY <1>2, <2>1 DEF SlipInv, NothingSlips
<1>4. CASE pass[p].top # Never
  <2>1. pass[p] \in PassType /\ PassSound(p) /\ Scans(p) /\ pass[p].stage = "commit"
    BY PassTyped DEF Sound, SlipInv, PassCommits
  <2>2. Since(cursor)' = pass[p].top - Overlap
    BY <1>1, <1>4 DEF Since
  <2>3. pass[p].page = {}
    BY <2>1 DEF PassSound
  <2>4. CASE recordedAt[c] <= pass[p].began
    <3>1. Unseen(p, c)
      BY <1>2, <2>3, <2>4 DEF Unseen, Recorded
    <3> QED
      BY <1>4, <2>1, <2>2, <3>1 DEF Scans, WithinOverlap
  <2>5. CASE ~(recordedAt[c] <= pass[p].began)
    <3>1. recordedAt[c] \in Int /\ start[c] \in Int /\ recordedAt[c] <= start[c] + MaxDelay
      BY <1>2, Numbers DEF Recorded, Sound, WorldInv
    <3>2. pass[p].began \in Int /\ now \in Int /\ now <= pass[p].began + MaxPass
      BY <2>1, Numbers DEF PassType, PassSound, Sound, TypeOK
    <3>3. pass[p].top \in Int /\ pass[p].top <= now
      BY <1>4, <2>1, Numbers DEF PassType, PassSound
    <3>4. MaxDelay \in Int /\ MaxPass \in Int /\ Overlap \in Int /\ MaxDelay + MaxPass <= Overlap
      BY Numbers DEF OverlapCovers
    <3> QED
      BY <2>2, <2>5, <3>1, <3>2, <3>3, <3>4
  <2> QED
    BY <2>4, <2>5
<1> QED
  BY <1>3, <1>4

LEMMA SlipStep ==
  ASSUME OverlapCovers, BackCovers, Sound, ReadInv, SlipInv, [Next]_vars PROVE SlipInv'
<1>1. ASSUME NEW p \in Passes, PassStep(p) PROVE SlipInv'
  <2>1. world' = world /\ now' = now /\ now \in Int /\ Scans(p)
    BY <1>1, Numbers DEF PassStep, PassStarts, PassFetches, PassUpserts, PassAsks, PassReads, PassCommits,
                         PassDies, Sound, TypeOK, SlipInv
  <2>2. \A c \in Calls : Stored(c) => Stored(c)'
    <3>1. CASE PassCommits(p)
      BY <3>1, CommitStores
    <3>2. CASE rows' = rows
      BY <3>2 DEF Stored
    <3> QED
      BY <1>1, <3>1, <3>2 DEF PassStep, PassStarts, PassFetches, PassUpserts, PassAsks, PassReads, PassDies
  <2>3. Scans(p)'
    <3>1. CASE PassCommits(p) \/ PassDies(p)
      <4>1. pass'[p] = Idle
        BY <3>1 DEF PassCommits, PassDies, Sound, TypeOK
      <4> QED
        BY <4>1, ScanIdle
    <3> QED
      BY <1>1, <2>1, <3>1, ScanStarts, ScanFetches, ScanUpserts, ScanIsOver DEF PassStep, SlipInv
  <2>4. ASSUME NEW q \in Passes \ {p} PROVE Scans(q)'
    <3>1. pass'[q] = pass[q] /\ Scans(q)
      BY <1>1, OthersStand DEF Sound, SlipInv
    <3> QED
      BY <2>1, <2>2, <3>1, ScanStands
  <2>5. NothingSlips'
    <3>1. CASE PassCommits(p)
      BY <3>1, CommitSlipsNothing
    <3>2. CASE ~PassCommits(p)
      <4>1. cursor' = cursor /\ rows' = rows
        BY <1>1, <3>2 DEF PassStep, PassStarts, PassFetches, PassUpserts, PassAsks, PassReads, PassDies
      <4> QED
        BY <2>1, <4>1 DEF SlipInv, NothingSlips, Recorded, Stored, Since, world
    <3> QED
      BY <3>1, <3>2
  <2> QED
    BY <2>3, <2>4, <2>5 DEF SlipInv
<1>2. CASE Tick \/ UNCHANGED vars \/ \E c \in Calls : Claimed(c)
  <2>1. pass' = pass /\ world' = world /\ cursor' = cursor /\ now' \in Int /\ now <= now'
    <3>1. now \in Int
      BY Numbers DEF Sound, TypeOK
    <3> QED
      BY <1>2, <3>1 DEF Tick, vars, world, Claimed
  <2>2. \A c \in Calls : Stored(c) <=> Stored(c)'
    <3>1. CASE rows' = rows
      BY <3>1 DEF Stored
    <3>2. CASE \E c \in Calls : Claimed(c)
      <4>1. PICK c \in Calls : rows' = [rows EXCEPT ![c].status = "past"] /\ rows[c].status = "NEW"
        BY <3>2 DEF Claimed
      <4> QED
        BY <4>1 DEF Sound, TypeOK, Rows, Stored
    <3> QED
      BY <1>2, <3>1, <3>2 DEF Tick, vars
  <2>3. \A p \in Passes : Scans(p)'
    BY <2>1, <2>2, ScanStands DEF SlipInv
  <2>4. NothingSlips'
    <3>1. CASE Tick
      BY <3>1, SlipsNotByTime DEF SlipInv
    <3>2. CASE now' = now
      BY <2>1, <2>2, <3>2 DEF SlipInv, NothingSlips, Recorded, Since, world
    <3> QED
      BY <1>2, <3>1, <3>2 DEF vars, Claimed
  <2> QED
    BY <2>3, <2>4 DEF SlipInv
<1> QED
  BY <1>1, <1>2 DEF Next, PassStep

(* _since_filter's promise: with an overlap that covers the longest delay of a *)
(* recording and a pass, no recorded call is ever left behind the cursor.      *)
THEOREM NothingEverSlips == ASSUME OverlapCovers, BackCovers PROVE Spec => []NothingSlips
<1>1. Init => SlipInv
  <2> SUFFICES ASSUME Init PROVE SlipInv
    OBVIOUS
  <2>1. NothingSlips
    <3> SUFFICES ASSUME NEW c \in Calls PROVE start[c] >= Since(cursor)
      BY DEF NothingSlips
    <3>1. start[c] \in Nat /\ Since(cursor) = 0 - InitialBack
      BY WorldIsFair DEF WorldInv, Init, Since
    <3> QED
      BY <3>1, Numbers
  <2>2. \A p \in Passes : Scans(p)
    BY DEF Init, Idle, Scans, StillAhead, PageIsBefore, WithinOverlap
  <2> QED
    BY <2>1, <2>2 DEF SlipInv
<1>2. Sound /\ ReadInv /\ SlipInv /\ [Next]_vars => SlipInv'
  BY SlipStep
<1>3. SlipInv => NothingSlips
  BY DEF SlipInv
<1> QED
  BY <1>1, <1>2, <1>3, AlwaysSound, PTL DEF Spec

(* The passes implement the intake: every step takes in calls that are recorded, *)
(* records some, or leaves both sets alone.                                      *)
THEOREM IntakeIsKept == Spec => ImplementsIntake
<1> DEFINE recorded == {c \in Calls : Recorded(c)}
           taken == {c \in Calls : Stored(c)}
<1>1. Init => Intake!Init
  <2> SUFFICES ASSUME Init PROVE Intake!Init
    OBVIOUS
  <2>1. \A c \in Calls : ~Stored(c)
    BY DEF Init, Stored, Absent
  <2> QED
    BY <2>1 DEF Intake!Init
<1>2. Sound /\ ReadInv /\ Sound' /\ [Next]_vars => [Intake!Next]_(Intake!ivars)
  <2> SUFFICES ASSUME Sound, ReadInv, Sound', [Next]_vars PROVE [Intake!Next]_(Intake!ivars)
    OBVIOUS
  <2>1. ASSUME NEW p \in Passes, PassCommits(p) PROVE [Intake!Next]_(Intake!ivars)
    <3>1. recorded' = recorded /\ pass[p].mine \subseteq recorded
      <4>1. pass[p] \in PassType /\ PassSound(p)
        BY PassTyped DEF Sound
      <4> QED
        BY <2>1, <4>1 DEF PassCommits, PassType, PassSound, Recorded, world
    <3>2. taken' = taken \cup pass[p].mine
      BY <2>1, <3>1, CommitStores
    <3>3. CASE pass[p].mine = {}
      BY <3>1, <3>2, <3>3 DEF Intake!ivars
    <3>4. CASE pass[p].mine # {}
      <4>1. Intake!TakeIn(pass[p].mine)
        BY <3>1, <3>2, <3>4 DEF Intake!TakeIn
      <4> QED
        BY <3>1, <4>1 DEF Intake!Next
    <3> QED
      BY <3>3, <3>4
  <2>2. CASE Tick
    <3>1. taken' = taken
      BY <2>2 DEF Tick, Stored
    <3>2. recorded \subseteq recorded'
      <4>1. now \in Int /\ now' = now + 1 /\ recordedAt' = recordedAt
        BY <2>2, Numbers DEF Tick, Sound, TypeOK, world
      <4>2. \A c \in Calls : recordedAt[c] # Never => recordedAt[c] \in Int
        BY Numbers DEF Sound, WorldInv
      <4> QED
        BY <4>1, <4>2 DEF Recorded
    <3>3. Intake!RecordSome
      BY <3>1, <3>2 DEF Intake!RecordSome
    <3> QED
      BY <3>3 DEF Intake!Next
  <2>3. CASE UNCHANGED vars \/ (\E c \in Calls : Claimed(c))
             \/ \E p \in Passes : PassStep(p) /\ ~PassCommits(p)
    <3>1. recorded' = recorded
      BY <2>3 DEF Recorded, vars, world, Claimed, PassStep, PassStarts, PassFetches, PassUpserts, PassAsks,
                  PassReads, PassDies
    <3>2. taken' = taken
      <4>1. CASE rows' = rows
        BY <4>1 DEF Stored
      <4>2. CASE \E c \in Calls : Claimed(c)
        <5>1. PICK c \in Calls : rows' = [rows EXCEPT ![c].status = "past"] /\ rows[c].status = "NEW"
          BY <4>2 DEF Claimed
        <5> QED
          BY <5>1 DEF Sound, TypeOK, Rows, Stored
      <4> QED
        BY <2>3, <4>1, <4>2 DEF vars, PassStep, PassStarts, PassFetches, PassUpserts, PassAsks, PassReads, PassDies
    <3> QED
      BY <3>1, <3>2 DEF Intake!ivars
  <2> QED
    BY <2>1, <2>2, <2>3 DEF Next, PassStep
<1> QED
  BY <1>1, <1>2, AlwaysSound, PTL DEF Spec, ImplementsIntake, Intake!Spec

-----------------------------------------------------------------------------
(* The rows of a client.  A row is held by one pass, which reads its new rows as *)
(* they were inserted and the stored rows of its own clients.                    *)

HeldOnce == \A p, q \in Passes : p # q => pass[p].mine \cap pass[q].mine = {}
ReadsHeld(p) ==
  pass[p].stage = "commit" =>
    \A c \in Read(p) : /\ ClientOf[c] \in ClientsOf(p)
                       /\ c \in pass[p].mine /\ ~Stored(c) => pass[p].read[c] = Inserted
HeldInv == HeldOnce /\ \A p \in Passes : ReadsHeld(p)

(* The table changes only when a pass commits or a call is claimed; a pass reads *)
(* once, and asks once.                                                          *)
LEMMA PassesMove ==
  ASSUME Sound, NEW p \in Passes, PassStep(p)
  PROVE  /\ \A q \in Passes \ {p} : pass'[q] = pass[q]
         /\ world' = world /\ now' = now
         /\ ~PassCommits(p) => rows' = rows
         /\ ~PassReads(p) => pass'[p].stage # "commit" /\ crossed' = crossed
         /\ ~PassReads(p) /\ ~PassAsks(p) => pass'[p].stage \notin {"scope", "commit"} /\ misread' = misread
         /\ pass'[p].mine \subseteq pass[p].mine \cup pass[p].page
         /\ ~PassUpserts(p) => pass'[p].mine \subseteq pass[p].mine
<1>0. pass \in [Passes -> PassType] /\ pass[p] \in PassType
  BY PassTyped DEF Sound
<1>1. \A q \in Passes \ {p} : pass'[q] = pass[q]
  BY OthersStand DEF Sound
<1>2. CASE PassStarts(p) \/ PassDies(p) \/ PassCommits(p)
  <2>1. pass'[p].stage \in {"idle", "list"} /\ pass'[p].mine = {}
    <3>1. CASE PassStarts(p)
      <4>1. pass'[p] = [Idle EXCEPT !.stage = "list", !.began = now, !.since = Since(cursor), !.top = cursor]
        BY <1>0, <3>1 DEF PassStarts
      <4> QED
        BY <4>1 DEF Idle
    <3>2. CASE PassDies(p) \/ PassCommits(p)
      BY <1>0, <3>2 DEF PassDies, PassCommits, Idle
    <3> QED
      BY <1>2, <3>1, <3>2
  <2> QED
    BY <1>1, <1>2, <2>1 DEF PassStarts, PassDies, PassCommits
<1>3. CASE PassFetches(p)
  <2>1. \E page, to, last : pass' = [pass EXCEPT ![p].stage = "upsert", ![p].page = page,
                                                  ![p].offset = to, ![p].last = last]
    BY <1>3 DEF PassFetches
  <2>2. pass'[p].stage = "upsert" /\ pass'[p].mine = pass[p].mine
    BY <1>0, <2>1 DEF PassType
  <2> QED
    BY <1>1, <1>3, <2>2 DEF PassFetches
<1>4. CASE PassUpserts(p)
  <2> DEFINE held == [pass[p] EXCEPT !.mine = @ \cup pass[p].page, !.top = Latest(p, pass[p].page), !.page = {}]
  <2>1. pass'[p] = IF pass[p].last THEN [held EXCEPT !.stage = "ask", !.since = 0, !.offset = 0, !.last = FALSE]
                   ELSE [held EXCEPT !.stage = "list"]
    BY <1>0, <1>4 DEF PassUpserts
  <2>2. held.mine = pass[p].mine \cup pass[p].page /\ "stage" \in DOMAIN held /\ "mine" \in DOMAIN held
    BY <1>0 DEF PassType
  <2>3. pass'[p].mine = pass[p].mine \cup pass[p].page /\ pass'[p].stage \in {"ask", "list"}
    <3> HIDE DEF held
    <3> QED
      BY <2>1, <2>2
  <2> QED
    BY <1>1, <1>4, <2>3 DEF PassUpserts
<1>5. CASE PassAsks(p)
  <2>1. pass'[p].stage = "scope" /\ pass'[p].mine = pass[p].mine
    BY <1>0, <1>5 DEF PassAsks, PassType
  <2> QED
    BY <1>1, <1>5, <2>1 DEF PassAsks
<1>6. CASE PassReads(p)
  <2>1. pass'[p].mine = pass[p].mine
    BY <1>0, <1>6 DEF PassReads, PassType
  <2> QED
    BY <1>1, <1>6, <2>1 DEF PassReads
<1> QED
  BY <1>2, <1>3, <1>4, <1>5, <1>6 DEF PassStep

LEMMA WhatIsRead ==
  ASSUME Sound, NEW p \in Passes, PassReads(p)
  PROVE  /\ pass'[p].stage = "commit" /\ pass'[p].mine = pass[p].mine /\ pass'[p].answers = pass[p].answers
         /\ rows' = rows /\ pass[p].stage = "scope"
         /\ \A c \in Calls :
              /\ c \in Read(p)' <=> ClientOf[c] \in ClientsOf(p) /\ (Stored(c) \/ c \in pass[p].mine)
              /\ ClientOf[c] \in ClientsOf(p) /\ Stored(c) => pass'[p].read[c] = rows[c]
              /\ c \in pass[p].mine /\ ~Stored(c) => pass'[p].read[c] = Inserted
<1>0. pass \in [Passes -> PassType]
  BY PassTyped DEF Sound
<1>1. /\ pass'[p].stage = "commit" /\ pass'[p].mine = pass[p].mine /\ pass'[p].answers = pass[p].answers
      /\ rows' = rows /\ pass[p].stage = "scope"
      /\ pass'[p].read = [c \in Calls |-> CASE ClientOf[c] \in ClientsOf(p) /\ Stored(c) -> rows[c]
                                            [] c \in pass[p].mine /\ ~Stored(c) -> Inserted
                                            [] OTHER -> Absent]
  BY <1>0 DEF PassReads, PassType
<1>2. ASSUME NEW c \in Calls
      PROVE  /\ c \in Read(p)' <=> ClientOf[c] \in ClientsOf(p) /\ (Stored(c) \/ c \in pass[p].mine)
             /\ ClientOf[c] \in ClientsOf(p) /\ Stored(c) => pass'[p].read[c] = rows[c]
             /\ c \in pass[p].mine /\ ~Stored(c) => pass'[p].read[c] = Inserted
  <2>1. Inserted # Absent /\ (Stored(c) => rows[c] # Absent)
    BY DEF Inserted, Absent, Stored
  <2>2. c \in pass[p].mine => ClientOf[c] \in ClientsOf(p)
    BY DEF ClientsOf
  <2> QED
    BY <1>1, <2>1, <2>2 DEF Read
<1> QED
  BY <1>1, <1>2

(* Of a row a commit writes what differs from what was read; a new row is written whole. *)
LEMMA WhatIsWritten ==
  ASSUME Sound, ReadInv, HeldInv, NEW p \in Passes, PassCommits(p), NEW c \in Calls
  PROVE  /\ c \notin Read(p) => rows'[c] = rows[c]
         /\ c \in Read(p) =>
              LET was == pass[p].read[c]
                  new == Rescoped(p, c)
                  old == IF Stored(c) THEN rows[c] ELSE Inserted
              IN /\ rows'[c].status = IF new.status # was.status THEN new.status ELSE old.status
                 /\ rows'[c].first = IF new.first # was.first THEN new.first ELSE old.first
                 /\ rows'[c].at = IF new.at # was.at THEN new.at ELSE old.at
                 /\ ~Stored(c) => c \in pass[p].mine /\ was = Inserted
<1>1. rows' = [d \in Calls |-> IF d \in Read(p) THEN Flushed(p, d) ELSE rows[d]] /\ pass[p].stage = "commit"
  BY DEF PassCommits
<1>2. c \in Read(p) /\ ~Stored(c) => c \in pass[p].mine /\ pass[p].read[c] = Inserted
  BY <1>1 DEF ReadInv, ReadsOwn, HeldInv, ReadsHeld
<1> QED
  BY <1>1, <1>2 DEF Flushed, Written

(* A pass stores no row another one holds. *)
LEMMA HeldIsNotStored ==
  ASSUME Sound, ReadInv, HeldInv, NEW p \in Passes, PassCommits(p), NEW q \in Passes \ {p}
  PROVE  \A c \in pass[q].mine : Stored(c)' <=> Stored(c)
<1>1. pass[q].mine \subseteq Calls /\ pass[p].mine \cap pass[q].mine = {}
  BY PassTyped DEF Sound, PassType, HeldInv, HeldOnce
<1> QED
  BY <1>1, CommitStores

LEMMA ReadsHeldStay ==
  ASSUME HeldInv, NEW q \in Passes, pass'[q] = pass[q], \A c \in Calls : Stored(c) => Stored(c)'
  PROVE  ReadsHeld(q)'
<1>1. Read(q)' = Read(q) /\ Read(q) \subseteq Calls /\ ClientsOf(q)' = ClientsOf(q)
  BY DEF Read, ClientsOf
<1> QED
  BY <1>1 DEF HeldInv, ReadsHeld

LEMMA HeldStep == ASSUME Sound, ReadInv, HeldInv, [Next]_vars PROVE HeldInv'
<1>1. ASSUME NEW p \in Passes, PassStep(p) PROVE HeldInv'
  <2>1. \A q \in Passes \ {p} : pass'[q] = pass[q]
    BY <1>1, PassesMove
  <2>2. \A q \in Passes \ {p} : pass'[p].mine \cap pass[q].mine = {}
    <3>1. CASE PassUpserts(p)
      <4>1. \A q \in Passes \ {p} : pass[p].page \cap pass[q].mine = {}
        BY <3>1 DEF PassUpserts, LockedFor
      <4> QED
        BY <1>1, <4>1, PassesMove DEF HeldInv, HeldOnce
    <3>2. CASE ~PassUpserts(p)
      BY <1>1, <3>2, PassesMove DEF HeldInv, HeldOnce
    <3> QED
      BY <3>1, <3>2
  <2>3. HeldOnce'
    <3> SUFFICES ASSUME NEW q \in Passes, NEW r \in Passes, q # r PROVE pass'[q].mine \cap pass'[r].mine = {}
      BY DEF HeldOnce
    <3> QED
      BY <2>1, <2>2 DEF HeldInv, HeldOnce
  <2>4. \A c \in Calls : Stored(c) => Stored(c)'
    <3>1. CASE PassCommits(p)
      BY <3>1, CommitStores
    <3>2. CASE ~PassCommits(p)
      BY <1>1, <3>2, PassesMove DEF Stored
    <3> QED
      BY <3>1, <3>2
  <2>5. ReadsHeld(p)'
    <3>1. CASE PassReads(p)
      <4>1. ClientsOf(p)' = ClientsOf(p) /\ \A c : Stored(c)' <=> Stored(c)
        BY <3>1, WhatIsRead DEF ClientsOf, Stored
      <4>2. Read(p)' \subseteq Calls
        BY DEF Read
      <4> QED
        BY <3>1, <4>1, <4>2, WhatIsRead DEF ReadsHeld
    <3>2. CASE ~PassReads(p)
      BY <1>1, <3>2, PassesMove DEF ReadsHeld
    <3> QED
      BY <3>1, <3>2
  <2> QED
    BY <2>1, <2>3, <2>4, <2>5, ReadsHeldStay DEF HeldInv
<1>2. CASE Tick \/ UNCHANGED vars \/ \E c \in Calls : Claimed(c)
  <2>1. pass' = pass
    BY <1>2 DEF Tick, vars, Claimed
  <2>2. \A c \in Calls : Stored(c) => Stored(c)'
    <3>1. CASE rows' = rows
      BY <3>1 DEF Stored
    <3>2. CASE \E c \in Calls : Claimed(c)
      <4>1. PICK c \in Calls : rows' = [rows EXCEPT ![c].status = "past"]
        BY <3>2 DEF Claimed
      <4> QED
        BY <4>1 DEF Sound, TypeOK, Rows, Stored
    <3> QED
      BY <1>2, <3>1, <3>2 DEF Tick, vars
  <2> QED
    BY <2>1, <2>2, ReadsHeldStay DEF HeldInv, HeldOnce
<1> QED
  BY <1>1, <1>2 DEF Next, PassStep

-----------------------------------------------------------------------------
(* The first call of a client.  Of a client whose passes have not crossed, a pass  *)
(* with a new call has read every stored one as it still stands; one without a new *)
(* call has read marks that it would set again, so it writes none of them.         *)

Met ==
  \A p, q \in Passes : p # q /\ pass[p].stage = "commit" /\ pass[q].stage = "commit" =>
    NewOf(p) \cap NewOf(q) \subseteq crossed
FirstRead(p) ==
  pass[p].stage = "commit" =>
    \A c \in Calls : ClientOf[c] \in ClientsOf(p) \ crossed =>
      /\ ClientOf[c] \in NewOf(p) /\ Stored(c) => c \in Read(p) /\ pass[p].read[c].first = rows[c].first
      /\ ClientOf[c] \notin NewOf(p) /\ c \in Read(p) => pass[p].read[c].first = Rescoped(p, c).first
FirstInv == FirstCallIsEarliest /\ Met /\ \A p \in Passes : FirstRead(p)

LEMMA FirstStays ==
  ASSUME FirstInv, crossed \subseteq crossed', Sound,
         \A c \in Calls : (Stored(c)' <=> Stored(c)) /\ rows'[c].first = rows[c].first,
         \A q \in Passes : pass'[q].stage = "commit" => pass'[q] = pass[q]
  PROVE  FirstInv'
<1>1. FirstCallIsEarliest'
  BY DEF FirstInv, FirstCallIsEarliest
<1>2. ASSUME NEW q \in Passes, pass'[q].stage = "commit"
      PROVE  /\ pass[q].stage = "commit" /\ Read(q)' = Read(q) /\ Read(q) \subseteq Calls
             /\ NewOf(q)' = NewOf(q) /\ ClientsOf(q)' = ClientsOf(q)
             /\ \A c \in Calls : Rescoped(q, c)'.first = Rescoped(q, c).first
  <2>1. pass'[q] = pass[q] /\ pass[q].mine \subseteq Calls
    BY <1>2, PassTyped DEF Sound, PassType
  <2>2. Read(q)' = Read(q) /\ Read(q) \subseteq Calls /\ ClientsOf(q)' = ClientsOf(q)
    BY <2>1 DEF Read, ClientsOf
  <2>3. NewOf(q)' = NewOf(q)
    BY <2>1 DEF NewOf
  <2> QED
    BY <1>2, <2>1, <2>2, <2>3 DEF Rescoped
<1>3. Met'
  <2> SUFFICES ASSUME NEW p \in Passes, NEW q \in Passes, p # q,
                      pass'[p].stage = "commit", pass'[q].stage = "commit"
               PROVE  NewOf(p)' \cap NewOf(q)' \subseteq crossed'
    BY DEF Met
  <2> QED
    BY <1>2 DEF FirstInv, Met
<1>4. ASSUME NEW q \in Passes PROVE FirstRead(q)'
  <2> SUFFICES ASSUME pass'[q].stage = "commit", NEW c \in Calls, ClientOf[c] \in ClientsOf(q)' \ crossed'
               PROVE  /\ ClientOf[c] \in NewOf(q)' /\ Stored(c)' =>
                           c \in Read(q)' /\ pass'[q].read[c].first = rows'[c].first
                      /\ ClientOf[c] \notin NewOf(q)' /\ c \in Read(q)' =>
                           pass'[q].read[c].first = Rescoped(q, c)'.first
    BY DEF FirstRead
  <2>1. pass'[q] = pass[q]
    OBVIOUS
  <2> QED
    BY <1>2, <2>1 DEF FirstInv, FirstRead
<1> QED
  BY <1>1, <1>3, <1>4 DEF FirstInv

LEMMA FirstReads == ASSUME FirstInv, Sound, NEW p \in Passes, PassReads(p) PROVE FirstInv'
<1>1. \A q \in Passes \ {p} : pass'[q] = pass[q]
  BY PassesMove DEF PassStep
<1>2. /\ crossed' = crossed \cup UNION {NewOf(p) \cap NewOf(q) : q \in {r \in Passes \ {p} : pass[r].stage = "commit"}}
      /\ rows' = rows /\ pass'[p].stage = "commit"
  BY WhatIsRead DEF PassReads
<1>3. \A q \in Passes : ClientsOf(q)' = ClientsOf(q) /\ NewOf(q)' = NewOf(q)
  <2>1. \A q \in Passes : pass'[q].mine = pass[q].mine
    BY <1>1, WhatIsRead
  <2> QED
    BY <1>2, <2>1 DEF ClientsOf, NewOf, Stored
<1>4. \A c : Stored(c)' <=> Stored(c)
  BY <1>2 DEF Stored
<1>5. FirstCallIsEarliest'
  BY <1>2, <1>4 DEF FirstInv, FirstCallIsEarliest
<1>6. Met'
  <2> SUFFICES ASSUME NEW q \in Passes, NEW r \in Passes, q # r,
                      pass'[q].stage = "commit", pass'[r].stage = "commit"
               PROVE  NewOf(q) \cap NewOf(r) \subseteq crossed'
    BY <1>3 DEF Met
  <2>1. CASE q # p /\ r # p
    BY <1>1, <1>2, <2>1 DEF FirstInv, Met
  <2>2. CASE q = p
    BY <1>1, <1>2, <2>2
  <2>3. CASE r = p
    BY <1>1, <1>2, <2>3
  <2> QED
    BY <2>1, <2>2, <2>3
<1>7. FirstRead(p)'
  <2> SUFFICES ASSUME NEW c \in Calls, ClientOf[c] \in ClientsOf(p) \ crossed'
               PROVE  /\ ClientOf[c] \in NewOf(p) /\ Stored(c) =>
                           c \in Read(p)' /\ pass'[p].read[c].first = rows[c].first
                      /\ ClientOf[c] \notin NewOf(p) /\ c \in Read(p)' =>
                           pass'[p].read[c].first = Rescoped(p, c)'.first
    BY <1>2, <1>3, <1>4 DEF FirstRead
  <2>1. ASSUME ClientOf[c] \notin NewOf(p), c \in Read(p)'
        PROVE  pass'[p].read[c].first = Rescoped(p, c)'.first
    <3>1. \A d \in Calls : ClientOf[d] = ClientOf[c] => (d \in Read(p)' <=> Stored(d))
      BY <2>1, WhatIsRead DEF NewOf
    <3>2. Stored(c) /\ pass'[p].read[c] = rows[c] /\ ClientOf[c] \notin crossed
      BY <1>2, <2>1, <3>1, WhatIsRead
    <3>3. rows[c].first <=> \A d \in Calls : Stored(d) /\ ClientOf[d] = ClientOf[c] => c <= d
      BY <3>2 DEF FirstInv, FirstCallIsEarliest
    <3>4. Rescoped(p, c)'.first = \A d \in Read(p)' : ClientOf[d] = ClientOf[c] => c <= d
      BY DEF Rescoped
    <3>5. Read(p)' \subseteq Calls
      BY DEF Read
    <3>6. rows[c].first \in BOOLEAN
      BY DEF Sound, TypeOK, Rows
    <3>7. Rescoped(p, c)'.first <=> rows[c].first
      BY <3>1, <3>3, <3>4, <3>5
    <3> QED
      BY <3>2, <3>4, <3>6, <3>7
  <2> QED
    BY <2>1, WhatIsRead
<1>8. ASSUME NEW q \in Passes \ {p} PROVE FirstRead(q)'
  <2>1. pass'[q] = pass[q] /\ Read(q)' = Read(q)
    BY <1>1 DEF Read
  <2> SUFFICES ASSUME pass[q].stage = "commit", NEW c \in Calls, ClientOf[c] \in ClientsOf(q) \ crossed'
               PROVE  /\ ClientOf[c] \in NewOf(q) /\ Stored(c) =>
                           c \in Read(q) /\ pass[q].read[c].first = rows[c].first
                      /\ ClientOf[c] \notin NewOf(q) /\ c \in Read(q) =>
                           pass[q].read[c].first = Rescoped(q, c)'.first
    BY <1>2, <1>3, <1>4, <2>1 DEF FirstRead
  <2>2. Rescoped(q, c)'.first = Rescoped(q, c).first
    BY <2>1 DEF Rescoped
  <2> QED
    BY <1>2, <2>2 DEF FirstInv, FirstRead
<1> QED
  BY <1>5, <1>6, <1>7, <1>8 DEF FirstInv

LEMMA FirstCommits ==
  ASSUME FirstInv, Sound, ReadInv, HeldInv, NEW p \in Passes, PassCommits(p) PROVE FirstInv'
<1>1. /\ \A q \in Passes \ {p} : pass'[q] = pass[q]
      /\ pass'[p].stage # "commit" /\ crossed' = crossed /\ pass[p].stage = "commit"
  <2>1. pass'[p] = Idle
    BY PassTyped DEF PassCommits, Sound
  <2> QED
    BY <2>1, PassesMove DEF PassStep, PassCommits, Idle
<1>2. \A c \in Calls : Stored(c)' <=> Stored(c) \/ c \in pass[p].mine
  BY CommitStores
<1>3. \A c \in Read(p) : c \in Calls /\ ClientOf[c] \in ClientsOf(p) /\ (Stored(c) \/ c \in pass[p].mine)
  BY <1>1 DEF Read, HeldInv, ReadsHeld, ReadInv, ReadsOwn
<1>4. pass[p].mine \subseteq Read(p) /\ \A c \in pass[p].mine : ClientOf[c] \in ClientsOf(p)
  BY <1>1 DEF ReadInv, ReadsOwn, ClientsOf
<1>5. \A c \in Calls : ClientOf[c] \notin ClientsOf(p) =>
        (Stored(c)' <=> Stored(c)) /\ rows'[c] = rows[c]
  <2> SUFFICES ASSUME NEW c \in Calls, ClientOf[c] \notin ClientsOf(p)
               PROVE  (Stored(c)' <=> Stored(c)) /\ rows'[c] = rows[c]
    OBVIOUS
  <2>1. c \notin Read(p) /\ c \notin pass[p].mine
    BY <1>3, <1>4
  <2> QED
    BY <1>2, <2>1, WhatIsWritten
(* Without a new call the pass changes no mark. *)
<1>6. ASSUME NEW c \in Calls, ClientOf[c] \in ClientsOf(p) \ crossed, ClientOf[c] \notin NewOf(p)
      PROVE  (Stored(c)' <=> Stored(c)) /\ rows'[c].first = rows[c].first
  <2>1. Stored(c)' <=> Stored(c)
    BY <1>2, <1>6 DEF NewOf
  <2>2. CASE c \in Read(p)
    <3>1. pass[p].read[c].first = Rescoped(p, c).first
      BY <1>1, <1>6, <2>2 DEF FirstInv, FirstRead
    <3>2. Stored(c)
      BY <1>3, <1>6, <2>2 DEF NewOf
    <3> QED
      BY <2>1, <2>2, <3>1, <3>2, WhatIsWritten
  <2>3. CASE c \notin Read(p)
    BY <2>1, <2>3, WhatIsWritten
  <2> QED
    BY <2>2, <2>3
(* With one it marks all calls of the client as they then are. *)
<1>7. ASSUME NEW k \in NewOf(p) \ crossed
      PROVE  \A c \in Calls : ClientOf[c] = k =>
               /\ Stored(c)' <=> c \in Read(p)
               /\ c \in Read(p) => rows'[c].first = Rescoped(p, c).first
  <2>0. k \in ClientsOf(p)
    BY DEF NewOf, ClientsOf
  <2> SUFFICES ASSUME NEW c \in Calls, ClientOf[c] = k
               PROVE  /\ Stored(c)' <=> c \in Read(p)
                      /\ c \in Read(p) => rows'[c].first = Rescoped(p, c).first
    OBVIOUS
  <2>1. Stored(c) => c \in Read(p) /\ pass[p].read[c].first = rows[c].first
    BY <1>1, <1>7, <2>0 DEF FirstInv, FirstRead
  <2>2. Stored(c)' <=> c \in Read(p)
    BY <1>2, <1>3, <1>4, <2>1
  <2>3. ASSUME c \in Read(p) PROVE rows'[c].first = Rescoped(p, c).first
    <3>1. CASE Stored(c)
      BY <2>1, <2>3, <3>1, WhatIsWritten
    <3>2. CASE ~Stored(c)
      BY <2>3, <3>2, WhatIsWritten
    <3> QED
      BY <3>1, <3>2
  <2> QED
    BY <2>2, <2>3
<1>8. FirstCallIsEarliest'
  <2> SUFFICES ASSUME NEW c \in Calls, Stored(c)', ClientOf[c] \notin crossed
               PROVE  rows'[c].first <=> \A d \in Calls : Stored(d)' /\ ClientOf[d] = ClientOf[c] => c <= d
    BY <1>1 DEF FirstCallIsEarliest
  <2>1. CASE ClientOf[c] \notin NewOf(p)
    <3>1. \A d \in Calls : ClientOf[d] = ClientOf[c] =>
            (Stored(d)' <=> Stored(d)) /\ rows'[d].first = rows[d].first
      BY <1>5, <1>6, <2>1
    <3> QED
      BY <3>1 DEF FirstInv, FirstCallIsEarliest
  <2>2. CASE ClientOf[c] \in NewOf(p)
    <3>1. \A d \in Calls : ClientOf[d] = ClientOf[c] => (Stored(d)' <=> d \in Read(p))
      BY <1>7, <2>2
    <3>2. rows'[c].first = \A d \in Read(p) : ClientOf[d] = ClientOf[c] => c <= d
      BY <1>7, <2>2, <3>1 DEF Rescoped
    <3> QED
      BY <1>3, <3>1, <3>2
  <2> QED
    BY <2>1, <2>2
<1>9. ASSUME NEW q \in Passes \ {p}
      PROVE  /\ pass'[q] = pass[q] /\ Read(q)' = Read(q) /\ Read(q) \subseteq Calls
             /\ ClientsOf(q)' = ClientsOf(q) /\ NewOf(q)' = NewOf(q)
  <2>1. pass'[q] = pass[q]
    BY <1>1
  <2>2. \A c \in pass[q].mine : Stored(c)' <=> Stored(c)
    BY HeldIsNotStored
  <2> QED
    BY <2>1, <2>2 DEF Read, ClientsOf, NewOf
<1>10. Met'
  BY <1>1, <1>9 DEF FirstInv, Met
<1>11. ASSUME NEW q \in Passes \ {p} PROVE FirstRead(q)'
  <2> SUFFICES ASSUME pass[q].stage = "commit", NEW c \in Calls, ClientOf[c] \in ClientsOf(q) \ crossed
               PROVE  /\ ClientOf[c] \in NewOf(q) /\ Stored(c)' =>
                           c \in Read(q) /\ pass[q].read[c].first = rows'[c].first
                      /\ ClientOf[c] \notin NewOf(q) /\ c \in Read(q) =>
                           pass[q].read[c].first = Rescoped(q, c)'.first
    BY <1>1, <1>9 DEF FirstRead
  <2>1. ClientOf[c] \in NewOf(q) => ClientOf[c] \notin NewOf(p)
    BY <1>1 DEF FirstInv, Met
  <2>2. ClientOf[c] \in NewOf(q) => (Stored(c)' <=> Stored(c)) /\ rows'[c].first = rows[c].first
    BY <1>5, <1>6, <2>1
  <2>3. Rescoped(q, c)'.first = Rescoped(q, c).first
    BY <1>9 DEF Rescoped
  <2> QED
    BY <2>2, <2>3 DEF FirstInv, FirstRead
<1>12. FirstRead(p)'
  BY <1>1 DEF FirstRead
<1> QED
  BY <1>8, <1>10, <1>11, <1>12 DEF FirstInv

LEMMA FirstStep == ASSUME Sound, ReadInv, HeldInv, FirstInv, [Next]_vars PROVE FirstInv'
<1>1. ASSUME NEW p \in Passes, PassStep(p), ~PassReads(p), ~PassCommits(p) PROVE FirstInv'
  <2>1. /\ rows' = rows /\ crossed' = crossed
        /\ \A q \in Passes : pass'[q].stage = "commit" => pass'[q] = pass[q]
    BY <1>1, PassesMove
  <2> QED
    BY <2>1, FirstStays DEF Stored
<1>2. ASSUME NEW c \in Calls, Claimed(c) PROVE FirstInv'
  <2>1. rows' = [rows EXCEPT ![c].status = "past"] /\ rows[c].status = "NEW" /\ pass' = pass /\ crossed' = crossed
    BY <1>2 DEF Claimed
  <2>2. \A d \in Calls : (Stored(d)' <=> Stored(d)) /\ rows'[d].first = rows[d].first
    BY <2>1 DEF Sound, TypeOK, Rows, Stored
  <2> QED
    BY <2>1, <2>2, FirstStays
<1>3. CASE Tick \/ UNCHANGED vars
  <2>1. rows' = rows /\ pass' = pass /\ crossed' = crossed
    BY <1>3 DEF Tick, vars
  <2> QED
    BY <2>1, FirstStays DEF Stored
<1> QED
  BY <1>1, <1>2, <1>3, FirstReads, FirstCommits DEF Next, PassStep

(* _recompute_scope's is_first_call: of a client whose new calls no two passes    *)
(* stored at a time, exactly the earliest stored call is marked.                  *)
THEOREM FirstCallMarked == Spec => []FirstCallIsEarliest
<1>1. Init => HeldInv /\ FirstInv
  <2> SUFFICES ASSUME Init PROVE HeldInv /\ FirstInv
    OBVIOUS
  <2>1. (\A p \in Passes : pass[p].stage = "idle" /\ pass[p].mine = {}) /\ \A c \in Calls : ~Stored(c)
    BY DEF Init, Idle, Stored, Absent
  <2> QED
    BY <2>1 DEF HeldInv, HeldOnce, ReadsHeld, FirstInv, FirstCallIsEarliest, Met, FirstRead
<1>2. Sound /\ ReadInv /\ HeldInv /\ FirstInv /\ [Next]_vars => HeldInv' /\ FirstInv'
  BY HeldStep, FirstStep
<1>3. FirstInv => FirstCallIsEarliest
  BY DEF FirstInv
<1> QED
  BY <1>1, <1>2, <1>3, AlwaysSound, PTL DEF Spec

-----------------------------------------------------------------------------
(* What began after the qualification stays out of the scope.  A pass that asked too *)
(* early holds the rows of the client's calls, and whoever knows better has to write *)
(* one of them: so nothing is put out of the scope under it, unless it holds none.   *)

Known(k) == qualifiedAt[k] # Never /\ qualifiedAt[k] <= now
AfterMoment(c) == qualifiedAt[ClientOf[c]] # Never /\ start[c] > qualifiedAt[ClientOf[c]]
Asked(p) == pass[p].stage \in {"scope", "commit"}

RowsTrue ==
  \A c \in Calls : rows[c].status = "SKIPPED" \/ rows[c].at # Never => Known(ClientOf[c])
AnswersTrue(p) ==
  Asked(p) => \A k \in Clients :
    /\ pass[p].answers[k] # Never =>
         k \in ClientsOf(p) /\ Known(k) /\ pass[p].answers[k] = qualifiedAt[k]
    /\ pass[p].answers[k] = Never /\ k \notin misread =>
         \A c \in pass[p].mine : ClientOf[c] = k => ~AfterMoment(c)
MakesOthersWait(p) ==
  Asked(p) => \A d \in pass[p].mine :
    LET k == ClientOf[d]
    IN Stored(d) /\ k \notin misread /\ pass[p].answers[k] = Never =>
         /\ rows[d].at = Never
         /\ \A c \in Calls : ClientOf[c] = k => rows[c].status # "SKIPPED"
         /\ \A q \in Passes \ {p} : pass[q].stage = "commit" /\ pass[q].answers[k] # Never =>
              d \in Read(q) /\ pass[q].read[d].at = Never
ReadsScoped(p) ==
  pass[p].stage = "commit" => \A c \in Read(p) :
    ClientOf[c] \notin misread =>
      /\ pass[p].answers[ClientOf[c]] = Never => pass[p].read[c].status # "SKIPPED"
      /\ AfterMoment(c) => pass[p].read[c].status = "SKIPPED" \/ (c \in pass[p].mine /\ ~Stored(c))
ScopeInv ==
  /\ NoLogisticsScored /\ RowsTrue
  /\ \A p \in Passes : AnswersTrue(p) /\ MakesOthersWait(p) /\ ReadsScoped(p)

(* A pass that keeps still keeps what it knows while the others leave its rows alone. *)
LEMMA ScopeStays ==
  ASSUME ScopeInv, Sound, rows' = rows, misread' = misread, world' = world,
         \A k \in Clients : Known(k) => Known(k)',
         \A q \in Passes : Asked(q)' => pass'[q] = pass[q]
  PROVE  ScopeInv'
<1>1. NoLogisticsScored' /\ RowsTrue'
  <2>1. \A c \in Calls : ClientOf[c] \in Clients
    BY DEF Clients
  <2> QED
    BY <2>1 DEF ScopeInv, NoLogisticsScored, RowsTrue, Stored, world
<1>2. \A c : (AfterMoment(c)' <=> AfterMoment(c)) /\ (Stored(c)' <=> Stored(c))
  BY DEF AfterMoment, Stored, world
<1>3. ASSUME NEW q \in Passes, Asked(q)'
      PROVE  pass'[q] = pass[q] /\ Asked(q) /\ Read(q)' = Read(q) /\ ClientsOf(q)' = ClientsOf(q)
  BY <1>3 DEF Asked, Read, ClientsOf
<1>4. ASSUME NEW q \in Passes PROVE AnswersTrue(q)'
  BY <1>2, <1>3 DEF ScopeInv, AnswersTrue, world
<1>5. ASSUME NEW q \in Passes PROVE MakesOthersWait(q)'
  <2> SUFFICES ASSUME Asked(q)', NEW d \in pass'[q].mine, Stored(d)', ClientOf[d] \notin misread',
                      pass'[q].answers[ClientOf[d]] = Never
               PROVE  /\ rows'[d].at = Never
                      /\ \A c \in Calls : ClientOf[c] = ClientOf[d] => rows'[c].status # "SKIPPED"
                      /\ \A r \in Passes \ {q} : pass'[r].stage = "commit" /\ pass'[r].answers[ClientOf[d]] # Never =>
                           d \in Read(r)' /\ pass'[r].read[d].at = Never
    BY DEF MakesOthersWait
  <2>1. \A r \in Passes : pass'[r].stage = "commit" => pass'[r] = pass[r] /\ Read(r)' = Read(r)
    BY <1>3 DEF Asked
  <2> QED
    BY <1>2, <1>3, <2>1 DEF ScopeInv, MakesOthersWait
<1>6. ASSUME NEW q \in Passes PROVE ReadsScoped(q)'
  <2>1. pass'[q].stage = "commit" => Asked(q)'
    BY DEF Asked
  <2> QED
    BY <1>2, <1>3, <2>1 DEF ScopeInv, ReadsScoped
<1> QED
  BY <1>1, <1>4, <1>5, <1>6 DEF ScopeInv

LEMMA ScopeClaimed ==
  ASSUME ScopeInv, Sound, NEW c \in Calls, Claimed(c) PROVE ScopeInv'
<1>1. /\ rows' = [rows EXCEPT ![c].status = "past"] /\ rows[c].status = "NEW"
      /\ world' = world /\ pass' = pass /\ misread' = misread /\ now' = now
  BY DEF Claimed
<1>2. \A d \in Calls : /\ Stored(d)' <=> Stored(d)
                       /\ rows'[d].at = rows[d].at
                       /\ d # c => rows'[d].status = rows[d].status
                       /\ d = c => rows'[d].status = "past"
  BY <1>1 DEF Sound, TypeOK, Rows, Stored
<1>3. \A d : (AfterMoment(d)' <=> AfterMoment(d)) /\ (Known(d)' <=> Known(d))
  BY <1>1 DEF AfterMoment, Known, world
<1>4. RowsTrue'
  BY <1>2, <1>3 DEF ScopeInv, RowsTrue
<1>5. NoLogisticsScored'
  BY <1>1, <1>2 DEF ScopeInv, NoLogisticsScored, world
<1>6. ASSUME NEW q \in Passes
      PROVE  /\ Asked(q)' <=> Asked(q)
             /\ Read(q)' = Read(q) /\ ClientsOf(q)' = ClientsOf(q) /\ Read(q) \subseteq Calls
             /\ pass[q].mine \subseteq Calls
  BY <1>1, PassTyped DEF Asked, Read, ClientsOf, Sound, PassType
<1>7. ASSUME NEW q \in Passes PROVE AnswersTrue(q)'
  BY <1>1, <1>3, <1>6 DEF ScopeInv, AnswersTrue, world
<1>8. ASSUME NEW q \in Passes PROVE MakesOthersWait(q)'
  <2> SUFFICES ASSUME Asked(q), NEW d \in pass[q].mine, Stored(d), ClientOf[d] \notin misread,
                      pass[q].answers[ClientOf[d]] = Never
               PROVE  /\ rows'[d].at = Never
                      /\ \A e \in Calls : ClientOf[e] = ClientOf[d] => rows'[e].status # "SKIPPED"
                      /\ \A r \in Passes \ {q} : pass[r].stage = "commit" /\ pass[r].answers[ClientOf[d]] # Never =>
                           d \in Read(r) /\ pass[r].read[d].at = Never
    BY <1>1, <1>2, <1>6 DEF MakesOthersWait
  <2>1. d \in Calls
    BY <1>6
  <2>2. /\ rows[d].at = Never
        /\ \A e \in Calls : ClientOf[e] = ClientOf[d] => rows[e].status # "SKIPPED"
        /\ \A r \in Passes \ {q} : pass[r].stage = "commit" /\ pass[r].answers[ClientOf[d]] # Never =>
             d \in Read(r) /\ pass[r].read[d].at = Never
    BY DEF ScopeInv, MakesOthersWait
  <2> QED
    BY <1>2, <2>1, <2>2
<1>9. ASSUME NEW q \in Passes PROVE ReadsScoped(q)'
  BY <1>1, <1>2, <1>3, <1>6 DEF ScopeInv, ReadsScoped
<1> QED
  BY <1>4, <1>5, <1>7, <1>8, <1>9 DEF ScopeInv

(* Whoever asks before the moment is told by nothing; after it only a failure hides it. *)
LEMMA ScopeAsks ==
  ASSUME ScopeInv, Sound, NEW p \in Passes, PassAsks(p) PROVE ScopeInv'
<1>0. pass \in [Passes -> PassType] /\ pass[p] \in PassType
  BY PassTyped DEF Sound
<1>1. PICK failed \in SUBSET ClientsOf(p) :
        /\ pass' = [pass EXCEPT ![p].stage = "scope",
                     ![p].answers = [k \in Clients |->
                        IF k \in ClientsOf(p) \ failed THEN Qualification(k) ELSE Never]]
        /\ misread' = misread \cup {k \in failed : Qualification(k) # Never}
  BY DEF PassAsks
<1>2. /\ pass'[p].stage = "scope" /\ pass'[p].mine = pass[p].mine
      /\ pass'[p].answers = [k \in Clients |-> IF k \in ClientsOf(p) \ failed THEN Qualification(k) ELSE Never]
      /\ \A q \in Passes \ {p} : pass'[q] = pass[q]
      /\ rows' = rows /\ world' = world /\ now' = now
  BY <1>0, <1>1 DEF PassAsks, PassType
<1>3. \A k : Qualification(k) # Never <=> Known(k)
  BY DEF Qualification, Known
<1>4. \A c : /\ AfterMoment(c)' <=> AfterMoment(c)
             /\ Stored(c)' <=> Stored(c)
             /\ Known(c)' <=> Known(c)
  BY <1>2 DEF AfterMoment, Stored, Known, world
<1>5. misread \subseteq misread' /\ pass[p].mine \subseteq Calls /\ \A c \in Calls : ClientOf[c] \in Clients
  BY <1>0, <1>1 DEF PassType, Clients
<1>6. \A c \in pass[p].mine : ClientOf[c] \in ClientsOf(p)
  BY DEF ClientsOf
<1>7. \A q \in Passes : ClientsOf(q)' = ClientsOf(q)
  BY <1>2 DEF ClientsOf
<1>8. NoLogisticsScored' /\ RowsTrue'
  BY <1>2, <1>4, <1>5 DEF ScopeInv, NoLogisticsScored, RowsTrue, world
<1>9. AnswersTrue(p)'
  <2> SUFFICES ASSUME NEW k \in Clients
               PROVE  /\ pass'[p].answers[k] # Never =>
                           k \in ClientsOf(p) /\ Known(k) /\ pass'[p].answers[k] = qualifiedAt[k]
                      /\ pass'[p].answers[k] = Never /\ k \notin misread' =>
                           \A c \in pass[p].mine : ClientOf[c] = k => ~AfterMoment(c)
    BY <1>2, <1>4, <1>7 DEF AnswersTrue, world
  <2>1. pass'[p].answers[k] # Never => k \in ClientsOf(p) /\ Known(k) /\ pass'[p].answers[k] = qualifiedAt[k]
    BY <1>2, <1>3 DEF Qualification
  <2>2. ASSUME pass'[p].answers[k] = Never, k \notin misread', NEW c \in pass[p].mine, ClientOf[c] = k, AfterMoment(c)
        PROVE  FALSE
    <3>1. Recorded(c) /\ c \in Calls
      BY <1>5 DEF Sound, PassSound
    <3>2. start[c] \in Times /\ start[c] <= now /\ now \in Times
      BY <3>1, RecordedBegan DEF Sound, TypeOK
    <3>3. qualifiedAt[k] \in Nat /\ qualifiedAt[k] # Never /\ start[c] > qualifiedAt[k]
      BY <2>2 DEF AfterMoment, Sound, WorldInv
    <3>4. Known(k)
      BY <3>2, <3>3, Numbers DEF Known
    <3>5. k \in ClientsOf(p) /\ k \in failed
      BY <1>2, <1>3, <1>6, <2>2, <3>4
    <3> QED
      BY <1>1, <1>3, <2>2, <3>4, <3>5
  <2> QED
    BY <2>1, <2>2
<1>10. MakesOthersWait(p)'
  <2> SUFFICES ASSUME NEW d \in pass[p].mine, ClientOf[d] \notin misread',
                      pass'[p].answers[ClientOf[d]] = Never
               PROVE  /\ rows[d].at = Never
                      /\ \A c \in Calls : ClientOf[c] = ClientOf[d] => rows[c].status # "SKIPPED"
                      /\ \A q \in Passes \ {p} : pass[q].stage = "commit" =>
                           pass[q].answers[ClientOf[d]] = Never
    BY <1>2, <1>4 DEF MakesOthersWait
  <2>1. d \in Calls /\ ClientOf[d] \in ClientsOf(p) /\ ClientOf[d] \in Clients
    BY <1>5, <1>6
  <2>2. ~Known(ClientOf[d])
    BY <1>1, <1>2, <1>3, <2>1
  <2>3. \A q \in Passes : pass[q].stage = "commit" => pass[q].answers[ClientOf[d]] = Never
    BY <2>1, <2>2 DEF ScopeInv, AnswersTrue, Asked
  <2> QED
    BY <2>1, <2>2, <2>3 DEF ScopeInv, RowsTrue
<1>11. ReadsScoped(p)'
  BY <1>2 DEF ReadsScoped
<1>12. ASSUME NEW q \in Passes \ {p} PROVE AnswersTrue(q)' /\ MakesOthersWait(q)' /\ ReadsScoped(q)'
  <2>1. pass'[q] = pass[q] /\ Read(q)' = Read(q) /\ Read(q) \subseteq Calls /\ (Asked(q)' <=> Asked(q))
    BY <1>2 DEF Read, Asked
  <2>2. AnswersTrue(q)'
    BY <1>2, <1>4, <1>5, <1>7, <2>1 DEF ScopeInv, AnswersTrue, world
  <2>3. ReadsScoped(q)'
    BY <1>4, <1>5, <2>1 DEF ScopeInv, ReadsScoped
  <2>4. MakesOthersWait(q)'
    <3> SUFFICES ASSUME Asked(q), NEW d \in pass[q].mine, Stored(d), ClientOf[d] \notin misread',
                        pass[q].answers[ClientOf[d]] = Never
                 PROVE  /\ rows[d].at = Never
                        /\ \A c \in Calls : ClientOf[c] = ClientOf[d] => rows[c].status # "SKIPPED"
                        /\ \A r \in Passes \ {q} : pass'[r].stage = "commit" /\ pass'[r].answers[ClientOf[d]] # Never =>
                             d \in Read(r)' /\ pass'[r].read[d].at = Never
      BY <1>2, <1>4, <2>1 DEF MakesOthersWait
    <3>1. \A r \in Passes : pass'[r].stage = "commit" => pass'[r] = pass[r] /\ Read(r)' = Read(r)
      BY <1>2 DEF Read
    <3> QED
      BY <1>5, <3>1 DEF ScopeInv, MakesOthersWait
  <2> QED
    BY <2>2, <2>3, <2>4
<1> QED
  BY <1>8, <1>9, <1>10, <1>11, <1>12 DEF ScopeInv
LEMMA ScopeReads ==
  ASSUME ScopeInv, Sound, NEW p \in Passes, PassReads(p) PROVE ScopeInv'
<1>1. /\ \A q \in Passes \ {p} : pass'[q] = pass[q]
      /\ world' = world /\ now' = now /\ rows' = rows
      /\ misread' = misread \cup Overtaken(p) /\ pass[p].stage = "scope"
  BY PassesMove, WhatIsRead DEF PassStep, PassReads
<1>2. \A c : /\ AfterMoment(c)' <=> AfterMoment(c)
             /\ Stored(c)' <=> Stored(c)
             /\ Known(c)' <=> Known(c)
  BY <1>1 DEF AfterMoment, Stored, Known, world
<1>3. \A q \in Passes : ClientsOf(q)' = ClientsOf(q) /\ pass'[q].mine = pass[q].mine /\ pass[q].mine \subseteq Calls
  <2>1. \A q \in Passes : pass'[q].mine = pass[q].mine
    BY <1>1, WhatIsRead
  <2> QED
    BY <2>1, PassTyped DEF ClientsOf, Sound, PassType
<1>4. \A c \in Calls : ClientOf[c] \in Clients
  BY DEF Clients
<1>5. NoLogisticsScored' /\ RowsTrue'
  BY <1>1, <1>2 DEF ScopeInv, NoLogisticsScored, RowsTrue, world
<1>6. AnswersTrue(p)' /\ pass'[p].answers = pass[p].answers /\ Asked(p)
  BY <1>1, <1>2, <1>3, WhatIsRead DEF ScopeInv, AnswersTrue, Asked, world
<1>7. ReadsScoped(p)'
  <2> SUFFICES ASSUME NEW c \in Read(p)', ClientOf[c] \notin misread'
               PROVE  /\ pass[p].answers[ClientOf[c]] = Never => pass'[p].read[c].status # "SKIPPED"
                      /\ AfterMoment(c) => pass'[p].read[c].status = "SKIPPED" \/ (c \in pass[p].mine /\ ~Stored(c))
    BY <1>2, <1>3, <1>6 DEF ReadsScoped
  <2>1. c \in Calls /\ ClientOf[c] \in ClientsOf(p) /\ (Stored(c) \/ c \in pass[p].mine)
    BY WhatIsRead DEF Read
  <2>2. CASE ~Stored(c)
    BY <2>1, <2>2, WhatIsRead DEF Inserted, Absent
  <2>3. CASE Stored(c)
    <3>1. pass'[p].read[c] = rows[c]
      BY <2>1, <2>3, WhatIsRead
    <3>2. ASSUME pass[p].answers[ClientOf[c]] = Never, rows[c].status = "SKIPPED" PROVE FALSE
      <4>1. ~AfterQualification(c, pass[p].answers)
        BY <3>2 DEF AfterQualification
      <4>2. PICK d \in pass[p].mine : ClientOf[d] = ClientOf[c] /\ Stored(d)
        BY <1>1, <2>1, <3>2, <4>1 DEF Overtaken
      <4> QED
        BY <1>1, <1>6, <2>1, <3>2, <4>2 DEF ScopeInv, MakesOthersWait
    <3>3. AfterMoment(c) => rows[c].status = "SKIPPED"
      BY <1>1, <2>1, <2>3 DEF ScopeInv, NoLogisticsScored, AfterMoment
    <3>4. pass[p].answers[ClientOf[c]] = Never => rows[c].status # "SKIPPED"
      BY <3>2
    <3> QED
      BY <3>1, <3>3, <3>4
  <2> QED
    BY <2>2, <2>3
<1>8. ASSUME NEW q \in Passes PROVE MakesOthersWait(q)'
  <2> SUFFICES ASSUME Asked(q)', NEW d \in pass[q].mine, Stored(d), ClientOf[d] \notin misread',
                      pass'[q].answers[ClientOf[d]] = Never
               PROVE  /\ rows[d].at = Never
                      /\ \A c \in Calls : ClientOf[c] = ClientOf[d] => rows[c].status # "SKIPPED"
                      /\ \A r \in Passes \ {q} : pass'[r].stage = "commit" /\ pass'[r].answers[ClientOf[d]] # Never =>
                           d \in Read(r)' /\ pass'[r].read[d].at = Never
    BY <1>1, <1>2, <1>3 DEF MakesOthersWait
  <2>1. Asked(q) /\ pass[q].answers[ClientOf[d]] = Never /\ d \in Calls
    BY <1>1, <1>3, <1>6 DEF Asked
  <2>2. /\ rows[d].at = Never
        /\ \A c \in Calls : ClientOf[c] = ClientOf[d] => rows[c].status # "SKIPPED"
        /\ \A r \in Passes \ {q} : pass[r].stage = "commit" /\ pass[r].answers[ClientOf[d]] # Never =>
             d \in Read(r) /\ pass[r].read[d].at = Never
    BY <1>1, <2>1 DEF ScopeInv, MakesOthersWait
  <2>3. ASSUME NEW r \in Passes \ {q}, pass'[r].stage = "commit", pass'[r].answers[ClientOf[d]] # Never
        PROVE  d \in Read(r)' /\ pass'[r].read[d].at = Never
    <3>1. CASE r = p
      <4>1. ClientOf[d] \in ClientsOf(p)
        BY <1>4, <1>6, <2>1, <2>3, <3>1 DEF ScopeInv, AnswersTrue
      <4> QED
        BY <2>1, <2>2, <3>1, <4>1, WhatIsRead
    <3>2. CASE r # p
      <4>1. pass'[r] = pass[r] /\ Read(r)' = Read(r)
        BY <1>1, <3>2 DEF Read
      <4> QED
        BY <2>2, <2>3, <4>1
    <3> QED
      BY <3>1, <3>2
  <2> QED
    BY <2>2, <2>3
<1>9. ASSUME NEW q \in Passes \ {p} PROVE AnswersTrue(q)' /\ ReadsScoped(q)'
  <2>1. pass'[q] = pass[q] /\ Read(q)' = Read(q) /\ Read(q) \subseteq Calls /\ (Asked(q)' <=> Asked(q))
    BY <1>1 DEF Read, Asked
  <2>2. AnswersTrue(q)'
    BY <1>1, <1>2, <1>3, <2>1 DEF ScopeInv, AnswersTrue, world
  <2>3. ReadsScoped(q)'
    BY <1>1, <1>2, <2>1 DEF ScopeInv, ReadsScoped
  <2> QED
    BY <2>2, <2>3
<1> QED
  BY <1>5, <1>6, <1>7, <1>8, <1>9 DEF ScopeInv

(* An answer of no moment puts nothing out of the scope and records none. *)
LEMMA NoMomentWritten ==
  ASSUME Sound, ReadInv, HeldInv, NEW p \in Passes, PassCommits(p), NEW c \in Calls,
         pass[p].answers[ClientOf[c]] = Never
  PROVE  /\ rows'[c].status = "SKIPPED" => rows[c].status = "SKIPPED"
         /\ rows'[c].at # Never => rows[c].at # Never
<1>1. CASE c \notin Read(p)
  BY <1>1, WhatIsWritten
<1>2. CASE c \in Read(p)
  <2>1. Rescoped(p, c).status \in {"past", "NEW"} /\ Rescoped(p, c).at = Never
    BY DEF Rescoped, ScopedStatus, AfterQualification
  <2>2. Inserted.status = "NEW" /\ Inserted.at = Never
    BY DEF Inserted, Absent
  <2> HIDE DEF Rescoped
  <2>3. rows'[c].status \in {"past", "NEW", rows[c].status} /\ rows'[c].at \in {Never, rows[c].at}
    BY <1>2, <2>1, <2>2, WhatIsWritten
  <2> QED
    BY <2>3
<1> QED
  BY <1>1, <1>2

LEMMA ScopeCommits ==
  ASSUME ScopeInv, Sound, ReadInv, HeldInv, NEW p \in Passes, PassCommits(p) PROVE ScopeInv'
<1>1. /\ \A q \in Passes \ {p} : pass'[q] = pass[q]
      /\ world' = world /\ now' = now /\ misread' = misread
      /\ pass'[p].stage = "idle" /\ pass[p].stage = "commit"
  <2>1. pass'[p] = Idle
    BY PassTyped DEF PassCommits, Sound
  <2> QED
    BY <2>1, PassesMove DEF PassStep, PassCommits, Idle
<1>2. \A c : (AfterMoment(c)' <=> AfterMoment(c)) /\ (Known(c)' <=> Known(c))
  BY <1>1 DEF AfterMoment, Known, world
<1>3. \A c \in Calls : ClientOf[c] \in Clients
  BY DEF Clients
<1>4. Asked(p) /\ AnswersTrue(p) /\ ReadsScoped(p)
  BY <1>1 DEF ScopeInv, Asked
<1>5. RowsTrue'
  <2> SUFFICES ASSUME NEW c \in Calls, rows'[c].status = "SKIPPED" \/ rows'[c].at # Never
               PROVE  Known(ClientOf[c])
    BY <1>2 DEF RowsTrue
  <2>1. CASE pass[p].answers[ClientOf[c]] = Never
    BY <2>1, NoMomentWritten DEF ScopeInv, RowsTrue
  <2>2. CASE pass[p].answers[ClientOf[c]] # Never
    BY <1>3, <1>4, <2>2 DEF AnswersTrue
  <2> QED
    BY <2>1, <2>2
<1>6. NoLogisticsScored'
  <2> SUFFICES ASSUME NEW c \in Calls, Stored(c)', ClientOf[c] \notin misread, AfterMoment(c)
               PROVE  rows'[c].status = "SKIPPED"
    BY <1>1 DEF NoLogisticsScored, AfterMoment, world
  <2>1. Stored(c) => rows[c].status = "SKIPPED"
    BY DEF ScopeInv, NoLogisticsScored, AfterMoment
  <2>2. CASE c \notin Read(p)
    BY <2>1, <2>2, WhatIsWritten DEF Stored
  <2>3. CASE c \in Read(p)
    <3>1. pass[p].answers[ClientOf[c]] # Never
      <4>1. CASE pass[p].read[c].status = "SKIPPED"
        BY <1>4, <2>3, <4>1, <1>1 DEF ReadsScoped
      <4>2. CASE c \in pass[p].mine
        BY <1>3, <1>4, <4>2 DEF AnswersTrue
      <4> QED
        BY <1>1, <1>4, <2>3, <4>1, <4>2 DEF ReadsScoped
    <3>2. AfterQualification(c, pass[p].answers)
      BY <1>3, <1>4, <3>1 DEF AnswersTrue, AfterQualification, AfterMoment
    <3>3. pass[p].read[c].status = "SKIPPED" \/ (~Stored(c) /\ pass[p].read[c] = Inserted)
      BY <1>1, <1>4, <2>3, WhatIsWritten DEF ReadsScoped
    <3>4. Rescoped(p, c).status = "SKIPPED"
      BY <3>2, <3>3 DEF Rescoped, ScopedStatus, Inserted, Absent
    <3>5. CASE ~Stored(c)
      <4>1. pass[p].read[c] = Inserted /\ Inserted.status = "NEW"
        BY <2>3, <3>5, WhatIsWritten DEF Inserted, Absent
      <4> QED
        BY <2>3, <3>4, <4>1, WhatIsWritten
    <3>6. CASE Stored(c)
      BY <2>1, <2>3, <3>4, <3>6, WhatIsWritten
    <3> QED
      BY <3>5, <3>6
  <2> QED
    BY <2>2, <2>3
<1>7. ASSUME NEW q \in Passes \ {p}
      PROVE  /\ pass'[q] = pass[q] /\ Read(q)' = Read(q) /\ ClientsOf(q)' = ClientsOf(q) /\ (Asked(q)' <=> Asked(q))
             /\ pass[q].mine \subseteq Calls
             /\ \A d \in pass[q].mine : Stored(d)' <=> Stored(d)
  <2>1. pass'[q] = pass[q] /\ pass[q].mine \subseteq Calls
    BY <1>1, PassTyped DEF Sound, PassType
  <2> QED
    BY <2>1, HeldIsNotStored DEF Read, ClientsOf, Asked
<1>8. ASSUME NEW q \in Passes \ {p} PROVE MakesOthersWait(q)'
  <2> SUFFICES ASSUME Asked(q), NEW d \in pass[q].mine, Stored(d), ClientOf[d] \notin misread,
                      pass[q].answers[ClientOf[d]] = Never
               PROVE  /\ rows'[d].at = Never
                      /\ \A c \in Calls : ClientOf[c] = ClientOf[d] => rows'[c].status # "SKIPPED"
                      /\ \A r \in Passes \ {q} : pass'[r].stage = "commit" /\ pass'[r].answers[ClientOf[d]] # Never =>
                           d \in Read(r)' /\ pass'[r].read[d].at = Never
    BY <1>1, <1>7 DEF MakesOthersWait
  <2>1. /\ rows[d].at = Never
        /\ \A c \in Calls : ClientOf[c] = ClientOf[d] => rows[c].status # "SKIPPED"
        /\ \A r \in Passes \ {q} : pass[r].stage = "commit" /\ pass[r].answers[ClientOf[d]] # Never =>
             d \in Read(r) /\ pass[r].read[d].at = Never
    BY DEF ScopeInv, MakesOthersWait
  (* A pass that knew the moment would have to write the row that is held. *)
  <2>2. pass[p].answers[ClientOf[d]] = Never
    <3> SUFFICES ASSUME pass[p].answers[ClientOf[d]] # Never PROVE FALSE
      OBVIOUS
    <3>1. d \in Read(p) /\ pass[p].read[d].at = Never
      BY <1>1, <2>1
    <3>2. Rescoped(p, d).at # Never
      BY DEF Rescoped
    <3>3. d \in Changed(p)
      BY <3>1, <3>2 DEF Changed
    <3> QED
      BY <3>3 DEF PassCommits, LockedFor
  <2>3. rows'[d].at = Never /\ \A c \in Calls : ClientOf[c] = ClientOf[d] => rows'[c].status # "SKIPPED"
    BY <1>7, <2>1, <2>2, NoMomentWritten
  <2>4. \A r \in Passes : pass'[r].stage = "commit" => pass'[r] = pass[r] /\ Read(r)' = Read(r)
    BY <1>1, <1>7
  <2> QED
    BY <2>1, <2>3, <2>4
<1>9. ASSUME NEW q \in Passes \ {p} PROVE AnswersTrue(q)' /\ ReadsScoped(q)'
  <2>1. AnswersTrue(q)'
    BY <1>1, <1>2, <1>7 DEF ScopeInv, AnswersTrue, world
  <2>2. ReadsScoped(q)'
    <3> SUFFICES ASSUME pass[q].stage = "commit", NEW c \in Read(q), ClientOf[c] \notin misread
                 PROVE  /\ pass[q].answers[ClientOf[c]] = Never => pass[q].read[c].status # "SKIPPED"
                        /\ AfterMoment(c) =>
                             pass[q].read[c].status = "SKIPPED" \/ (c \in pass[q].mine /\ ~Stored(c)')
      BY <1>1, <1>2, <1>7 DEF ReadsScoped
    <3> QED
      BY <1>7 DEF ScopeInv, ReadsScoped
  <2> QED
    BY <2>1, <2>2
<1>10. AnswersTrue(p)' /\ MakesOthersWait(p)' /\ ReadsScoped(p)'
  BY <1>1 DEF AnswersTrue, MakesOthersWait, ReadsScoped, Asked
<1> QED
  BY <1>5, <1>6, <1>8, <1>9, <1>10 DEF ScopeInv

LEMMA ScopeStep == ASSUME Sound, ReadInv, HeldInv, ScopeInv, [Next]_vars PROVE ScopeInv'
<1>1. ASSUME NEW p \in Passes, PassStep(p), ~PassAsks(p), ~PassReads(p), ~PassCommits(p) PROVE ScopeInv'
  <2>1. /\ rows' = rows /\ misread' = misread /\ world' = world /\ now' = now
        /\ \A q \in Passes : Asked(q)' => pass'[q] = pass[q]
    BY <1>1, PassesMove DEF Asked
  <2> QED
    BY <2>1, ScopeStays DEF Known, world
<1>2. CASE Tick
  <2>1. /\ rows' = rows /\ misread' = misread /\ world' = world /\ pass' = pass /\ now' = now + 1 /\ now \in Int
    BY <1>2, Numbers DEF Tick, Sound, TypeOK
  <2>2. \A k \in Clients : Known(k) => Known(k)'
    <3>1. \A k \in Clients : qualifiedAt[k] # Never => qualifiedAt[k] \in Int
      BY DEF Sound, WorldInv
    <3> QED
      BY <2>1, <3>1 DEF Known, world
  <2> QED
    BY <2>1, <2>2, ScopeStays
<1>3. CASE UNCHANGED vars
  <2>1. rows' = rows /\ misread' = misread /\ world' = world /\ pass' = pass /\ now' = now
    BY <1>3 DEF vars, world
  <2> QED
    BY <2>1, ScopeStays DEF Known, world
<1> QED
  BY <1>1, <1>2, <1>3, ScopeClaimed, ScopeAsks, ScopeReads, ScopeCommits DEF Next, PassStep

(* _apply_scope's "until the client qualifies": whichever passes store, rescope and *)
(* overtake each other, no stored call from after the qualification is in the scope *)
(* or scored, if Bitrix answered and no pass held only new calls of the client.     *)
THEOREM LogisticsNeverScored == Spec => []NoLogisticsScored
<1>1. Init => HeldInv /\ ScopeInv
  <2> SUFFICES ASSUME Init PROVE HeldInv /\ ScopeInv
    OBVIOUS
  <2>1. /\ \A p \in Passes : pass[p].stage = "idle" /\ pass[p].mine = {}
        /\ \A c \in Calls : ~Stored(c) /\ rows[c].status = "none" /\ rows[c].at = Never
    BY DEF Init, Idle, Stored, Absent
  <2> QED
    BY <2>1 DEF HeldInv, HeldOnce, ReadsHeld, ScopeInv, NoLogisticsScored, RowsTrue, AnswersTrue,
                MakesOthersWait, ReadsScoped, Asked
<1>2. Sound /\ ReadInv /\ HeldInv /\ ScopeInv /\ [Next]_vars => HeldInv' /\ ScopeInv'
  BY HeldStep, ScopeStep
<1>3. ScopeInv => NoLogisticsScored
  BY DEF ScopeInv
<1> QED
  BY <1>1, <1>2, <1>3, AlwaysSound, PTL DEF Spec

-----------------------------------------------------------------------------
(* The passes get on.  The first call after the cursor that is kept lies within the  *)
(* limit of what the next pass lists, since everything the pass lists before it lies *)
(* between the overlap before the last call kept and this one.                       *)

LEMMA EarliestCall ==
  ASSUME NEW S \in SUBSET Calls, S # {} PROVE \E c \in S : \A d \in S : c <= d
<1>1. S \subseteq Nat
  BY Numbers DEF Calls
<1>2. PICK c \in S : \A d \in S : ~(<<d, c>> \in OpToRel(<, Nat))
  BY <1>1, NatLessThanWellFounded, WFMin
<1>3. \A d \in S : ~(d < c)
  BY <1>1, <1>2 DEF OpToRel
<1> QED
  BY <1>1, <1>3

NothingYet == cursor = Never => \A c \in Calls : ~Stored(c)
KeepsTime(p) == pass[p].mine # {} => pass[p].top # Never
TimeInv == NothingYet /\ \A p \in Passes : KeepsTime(p)

LEMMA TimeKept == ASSUME Sound, ReadInv, TimeInv, [Next]_vars PROVE TimeInv'
<1>0. pass \in [Passes -> PassType]
  BY PassTyped DEF Sound
<1>1. ASSUME NEW p \in Passes, PassStep(p) PROVE TimeInv'
  <2>1. \A q \in Passes \ {p} : KeepsTime(q)'
    BY <1>1, PassesMove DEF TimeInv, KeepsTime
  <2>2. KeepsTime(p)'
    <3>1. CASE PassUpserts(p)
      <4> DEFINE held == [pass[p] EXCEPT !.mine = @ \cup pass[p].page, !.top = Latest(p, pass[p].page), !.page = {}]
      <4>1. pass'[p] = IF pass[p].last THEN [held EXCEPT !.stage = "ask", !.since = 0, !.offset = 0, !.last = FALSE]
                       ELSE [held EXCEPT !.stage = "list"]
        BY <1>0, <3>1 DEF PassUpserts
      <4>2. /\ held.mine = pass[p].mine \cup pass[p].page /\ held.top = Latest(p, pass[p].page)
            /\ "mine" \in DOMAIN held /\ "top" \in DOMAIN held
        BY <1>0 DEF PassType
      <4>3. pass'[p].mine = pass[p].mine \cup pass[p].page /\ pass'[p].top = Latest(p, pass[p].page)
        <5> HIDE DEF held
        <5> QED
          BY <4>1, <4>2
      <4>4. CASE pass[p].page = {}
        BY <4>3, <4>4 DEF TimeInv, KeepsTime, Latest
      <4>5. CASE pass[p].page # {}
        <5> DEFINE starts == {start[c] : c \in pass[p].page} \cup ({pass[p].top} \ {Never})
        <5>1. pass[p].page \subseteq Calls /\ pass[p].top \in Times \cup {Never}
              /\ \A c \in pass[p].page : Recorded(c)
          BY <1>0 DEF PassType, Sound, PassSound
        <5>2. starts \subseteq Times /\ starts # {}
          BY <4>5, <5>1, RecordedBegan DEF Sound
        <5>3. Max(starts) \in Times
          <6> HIDE DEF starts
          <6> QED
            BY <5>2, LatestIsOne
        <5>4. Latest(p, pass[p].page) = Max(starts)
          BY <4>5 DEF Latest
        <5>5. Latest(p, pass[p].page) # Never
          <6> HIDE DEF starts
          <6> QED
            BY <5>3, <5>4, Numbers
        <5> QED
          BY <4>3, <5>5 DEF KeepsTime
      <4> QED
        BY <4>4, <4>5
    <3>2. CASE PassFetches(p)
      <4>1. \E page, to, last : pass' = [pass EXCEPT ![p].stage = "upsert", ![p].page = page,
                                                      ![p].offset = to, ![p].last = last]
        BY <3>2 DEF PassFetches
      <4>2. pass'[p].mine = pass[p].mine /\ pass'[p].top = pass[p].top
        BY <1>0, <4>1 DEF PassType
      <4> QED
        BY <4>2 DEF TimeInv, KeepsTime
    <3>3. CASE PassAsks(p) \/ PassReads(p)
      <4>1. pass'[p].mine = pass[p].mine /\ pass'[p].top = pass[p].top
        BY <1>0, <3>3 DEF PassAsks, PassReads, PassType
      <4> QED
        BY <4>1 DEF TimeInv, KeepsTime
    <3>4. CASE PassStarts(p)
      <4>1. pass'[p] = [Idle EXCEPT !.stage = "list", !.began = now, !.since = Since(cursor), !.top = cursor]
        BY <1>0, <3>4 DEF PassStarts
      <4> QED
        BY <4>1 DEF Idle, KeepsTime
    <3>5. CASE PassDies(p) \/ PassCommits(p)
      <4>1. pass'[p] = Idle
        BY <1>0, <3>5 DEF PassDies, PassCommits
      <4> QED
        BY <4>1 DEF Idle, KeepsTime
    <3> QED
      BY <1>1, <3>1, <3>2, <3>3, <3>4, <3>5 DEF PassStep
  <2>3. NothingYet'
    <3>1. CASE PassCommits(p)
      <4>1. cursor' = IF pass[p].top = Never THEN cursor ELSE pass[p].top
        BY <3>1 DEF PassCommits
      <4>2. \A c \in Calls : Stored(c)' <=> Stored(c) \/ c \in pass[p].mine
        BY <3>1, CommitStores
      <4> QED
        BY <4>1, <4>2 DEF TimeInv, NothingYet, KeepsTime
    <3>2. CASE ~PassCommits(p)
      <4>1. rows' = rows /\ cursor' = cursor
        BY <1>1, <3>2 DEF PassStep, PassStarts, PassFetches, PassUpserts, PassAsks, PassReads, PassDies
      <4> QED
        BY <4>1 DEF TimeInv, NothingYet, Stored
    <3> QED
      BY <3>1, <3>2
  <2> QED
    BY <2>1, <2>2, <2>3 DEF TimeInv
<1>2. CASE Tick \/ UNCHANGED vars
  BY <1>2 DEF Tick, vars, TimeInv, NothingYet, KeepsTime, Stored
<1>3. ASSUME NEW c \in Calls, Claimed(c) PROVE TimeInv'
  <2>1. /\ rows' = [rows EXCEPT ![c].status = "past"] /\ rows[c].status = "NEW" /\ pass' = pass /\ cursor' = cursor
    BY <1>3 DEF Claimed
  <2>2. \A d \in Calls : Stored(d)' <=> Stored(d)
    BY <2>1 DEF Sound, TypeOK, Rows, Stored
  <2> QED
    BY <2>1, <2>2 DEF TimeInv, NothingYet, KeepsTime
<1> QED
  BY <1>1, <1>2, <1>3 DEF Next, PassStep

(* Where a pass that begins now stands: the cursor, or the beginning. *)
Reached == IF cursor = Never THEN 0 ELSE cursor

LEMMA WithinLimit ==
  ASSUME Sound, BackCovers, LimitCovers, NEW c \in Kept, Recorded(c), start[c] >= Since(cursor),
         \A d \in Kept : start[d] < start[c] => start[d] <= Reached
  PROVE  c \in Scanned
<1> DEFINE before == {0} \cup {start[d] : d \in {k \in Kept : start[k] < start[c]}}
           near == {d \in Calls : start[d] \in KeptBefore(c) - Overlap .. start[c]}
           upTo == {d \in Statistic(Since(cursor)) : d <= c}
<1>1. c \in Calls /\ now \in Times /\ cursor \in Times \cup {Never} /\ (\A d \in Calls : start[d] \in Nat)
      /\ (\A d \in Kept : d \in Calls /\ recordedAt[d] \in Times /\ start[d] <= recordedAt[d])
  <2>1. now \in Times /\ cursor \in Times \cup {Never} /\ \A d \in Calls : start[d] \in Nat /\ listedAt[d] \in Nat
    BY DEF Sound, TypeOK, WorldInv
  <2>2. \A d \in Kept : d \in Calls /\ recordedAt[d] # Never
    BY DEF Kept
  <2>3. ASSUME NEW d \in Kept PROVE recordedAt[d] \in Times /\ start[d] <= recordedAt[d]
    <3>1. recordedAt[d] \in Times /\ start[d] <= listedAt[d] /\ listedAt[d] <= recordedAt[d]
      BY <2>2 DEF Sound, WorldInv
    <3> QED
      BY <2>1, <2>2, <3>1, Numbers
  <2> QED
    BY <2>1, <2>2, <2>3
<1>2. start[c] \in Times /\ listedAt[c] <= now
  BY <1>1, RecordedBegan DEF Sound
<1>3. before \subseteq Times /\ before # {}
  <2>1. \A d \in Kept : start[d] \in Nat /\ recordedAt[d] \in Nat /\ recordedAt[d] <= MaxTime /\ start[d] <= recordedAt[d]
    BY <1>1, Numbers
  <2>2. \A d \in Kept : start[d] \in Times
    BY <2>1, Numbers DEF Times
  <2> QED
    BY <2>2, Numbers DEF Times
<1>4. KeptBefore(c) \in before
  <2>1. KeptBefore(c) = Max(before)
    BY DEF KeptBefore
  <2> HIDE DEF before
  <2> QED
    BY <1>3, <2>1, LatestIsOne
<1>5. KeptBefore(c) \in Int /\ KeptBefore(c) <= Reached /\ Reached \in Nat
  <2>1. Reached \in Nat
    BY <1>1, Numbers DEF Reached
  <2> QED
    BY <1>1, <1>4, <2>1
<1>6. upTo \subseteq near
  <2> SUFFICES ASSUME NEW d \in Calls, start[d] >= Since(cursor), d <= c PROVE d \in near
    BY DEF Statistic
  <2>1. start[d] \in Nat /\ start[c] \in Nat /\ start[d] <= start[c]
    BY <1>1 DEF Sound, WorldInv
  <2>2. KeptBefore(c) - Overlap <= start[d]
    <3>1. CASE cursor = Never
      BY <1>5, <2>1, <3>1, Numbers DEF Reached
    <3>2. CASE cursor # Never
      BY <1>1, <1>5, <2>1, <3>2, Numbers DEF Reached, Since
    <3> QED
      BY <3>1, <3>2
  <2> QED
    BY <1>5, <2>1, <2>2, Numbers
<1>7. Cardinality(upTo) <= Limit
  <2>1. near \subseteq Calls
    OBVIOUS
  <2>2. IsFiniteSet(near) /\ IsFiniteSet(upTo)
    BY <1>6, <2>1, CallsFinite, FS_Subset
  <2>3. Cardinality(upTo) <= Cardinality(near) /\ Cardinality(upTo) \in Nat /\ Cardinality(near) \in Nat
    BY <1>6, <2>2, FS_Subset, FS_CardinalityType
  <2>4. Cardinality(near) <= Limit
    BY DEF LimitCovers
  <2> QED
    BY <2>3, <2>4, Numbers
<1>8. c \in Statistic(Since(cursor))
  BY <1>1, <1>2 DEF Statistic, Listed
<1> QED
  BY <1>7, <1>8 DEF Scanned, Place

LEMMA PassAdvances ==
  ASSUME Sound, BackCovers, NothingSlips, NothingYet PROVE NextPassAdvances
<1> SUFFICES ASSUME LimitCovers, NEW c \in Due
             PROVE  \E k \in Scanned : Recorded(k) /\ (~Stored(k) \/ start[k] > cursor)
  BY DEF NextPassAdvances
<1>1. c \in Kept /\ c \in Calls /\ Recorded(c) /\ ~Stored(c) /\ \A d \in Kept : start[d] < start[c] => Recorded(d)
  BY DEF Due, Kept, Recorded
<1>2. (\A d \in Calls : start[d] \in Nat) /\ Reached \in Nat /\ Kept \subseteq Calls
      /\ (\A d, e \in Calls : d <= e => start[d] <= start[e]) /\ \A d \in Calls : d \in Int
  BY Numbers DEF Sound, TypeOK, WorldInv, Reached, Kept
<1> DEFINE ahead == {k \in Kept : start[k] < start[c] /\ start[k] > Reached}
<1>3. CASE ahead = {}
  <2>1. \A d \in Kept : start[d] < start[c] => start[d] <= Reached
    BY <1>2, <1>3
  <2>2. start[c] >= Since(cursor)
    BY <1>1 DEF NothingSlips
  <2> QED
    BY <1>1, <2>1, <2>2, WithinLimit
<1>4. CASE ahead # {}
  <2>1. PICK k \in ahead : \A d \in ahead : k <= d
    BY <1>2, <1>4, EarliestCall
  <2>2. k \in Kept /\ k \in Calls /\ Recorded(k) /\ start[k] < start[c] /\ start[k] > Reached
    BY <1>1, <1>2
  <2>3. \A d \in Kept : start[d] < start[k] => start[d] <= Reached
    <3> SUFFICES ASSUME NEW d \in Kept, start[d] < start[k], start[d] > Reached PROVE FALSE
      BY <1>2, <2>2
    <3>1. d \in Calls /\ start[d] \in Nat /\ start[k] \in Nat /\ start[c] \in Nat
      BY <1>1, <1>2, <2>2
    <3>2. d \in ahead
      BY <2>2, <3>1
    <3>3. start[k] <= start[d]
      BY <1>2, <2>1, <2>2, <3>1, <3>2
    <3> QED
      BY <3>1, <3>3
  <2>4. start[k] >= Since(cursor)
    <3>1. now \in Int /\ now <= InitialBack /\ cursor \in Times \cup {Never}
      BY Numbers DEF Sound, TypeOK, BackCovers
    <3>2. Since(cursor) <= Reached /\ Since(cursor) \in Int
      <4>1. CASE cursor = Never
        BY <3>1, <4>1, Numbers DEF Since, Reached
      <4>2. CASE cursor # Never
        BY <3>1, <4>2, Numbers DEF Since, Reached
      <4> QED
        BY <4>1, <4>2
    <3> QED
      BY <1>2, <2>2, <3>2
  <2>5. k \in Scanned
    BY <2>2, <2>3, <2>4, WithinLimit
  <2>6. ~Stored(k) \/ start[k] > cursor
    <3>1. CASE cursor = Never
      BY <2>2, <3>1 DEF NothingYet
    <3>2. CASE cursor # Never
      BY <2>2, <3>2 DEF Reached
    <3> QED
      BY <3>1, <3>2
  <2> QED
    BY <2>2, <2>5, <2>6
<1> QED
  BY <1>3, <1>4

(* settings.ingest_batch_size's promise: as long as the limit covers the rows between *)
(* the overlap before a kept call and the next one, no backlog stops the passes.      *)
THEOREM PassesGetOn == ASSUME OverlapCovers, BackCovers PROVE Spec => []NextPassAdvances
<1>1. Init => TimeInv
  <2>1. Init => \A c \in Calls : ~Stored(c)
    BY DEF Init, Stored, Absent
  <2>2. Init => \A p \in Passes : pass[p].mine = {}
    BY DEF Init, Idle
  <2> QED
    BY <2>1, <2>2 DEF TimeInv, NothingYet, KeepsTime
<1>2. Sound /\ ReadInv /\ TimeInv /\ [Next]_vars => TimeInv'
  BY TimeKept
<1>3. Sound /\ TimeInv /\ NothingSlips => NextPassAdvances
  BY PassAdvances DEF TimeInv
<1>4. Spec => []NothingSlips
  BY NothingEverSlips
<1> QED
  BY <1>1, <1>2, <1>3, <1>4, AlwaysSound, PTL DEF Spec
===============================================================================
