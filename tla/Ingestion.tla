------------------------------- MODULE Ingestion -------------------------------
(***************************************************************************)
(* run_ingestion (src/AtamuraOKK/ingestion/service.py): a pass reads the   *)
(* telephony statistics from a little before the cursor on, page by page,  *)
(* upserts the answered and recorded calls, asks Bitrix when their clients *)
(* qualified, applies the scope rule to all calls of those clients, moves  *)
(* the cursor and commits, all in one transaction.  Ticks overlap, so two  *)
(* passes may run; what keeps them apart is only the lock a pass holds on  *)
(* the rows it has upserted: another pass waits for it before it upserts   *)
(* one of them or writes a change of its scope columns.                    *)
(*                                                                         *)
(* A call is listed when it has ended and has its recording some time      *)
(* later, so rows appear behind rows that were read long ago.  Time is in  *)
(* ticks; a call's number orders calls that began at the same time, as     *)
(* bitrix_row_id does.                                                     *)
(***************************************************************************)
EXTENDS Integers, FiniteSets, FiniteSetsExt

CONSTANTS
  NCalls,        (* calls 1..NCalls, in the order they began *)
  ClientOf,      (* the client of each call *)
  Passes,        (* passes that may run at a time *)
  PageSize,      (* rows of one Bitrix page *)
  Limit,         (* settings.ingest_batch_size: rows one pass scans *)
  Overlap,       (* settings.ingest_overlap_minutes *)
  InitialBack,   (* settings.ingest_initial_days_back *)
  MaxDelay,      (* bound: from a call's start to its recording being listed *)
  MaxPass,       (* bound: ticks a pass lives before arq cancels it *)
  LastStart,     (* bound: the last tick at which a call begins *)
  MaxTime,       (* bound: time stops here *)
  Never          (* no cursor yet; a client that does not qualify *)

Calls == 1..NCalls
Clients == {ClientOf[c] : c \in Calls}
Times == 0..MaxTime

ASSUME IngestAssumption ==
  /\ {NCalls, PageSize, Limit} \subseteq Nat \ {0}
  /\ {Overlap, InitialBack, MaxDelay, MaxPass, LastStart, MaxTime} \subseteq Nat
  /\ Never \notin Int

VARIABLES
  start,       (* CALL_START_DATE of each call *)
  listedAt,    (* when Bitrix lists the call: it has ended *)
  recordedAt,  (* when the listed row is answered, long enough and recorded; or Never *)
  qualifiedAt, (* when a client's deal first enters the qualified stage, or Never *)
  now,
  cursor,      (* IngestState.last_cursor *)
  rows,        (* the calls table: the scope columns of each stored call *)
  pass,        (* the running passes *)
  misread,     (* history: clients whose qualification a failed lookup has hidden, or one *)
               (* that another pass has overtaken while both had new calls of the client  *)
  crossed      (* history: clients of whom two passes read the calls, each with a new one *)
               (* the other could not see                                                 *)

world == <<start, listedAt, recordedAt, qualifiedAt>>
vars == <<start, listedAt, recordedAt, qualifiedAt, now, cursor, rows, pass, misread, crossed>>

-----------------------------------------------------------------------------
(* What Bitrix answers at this moment. *)

Listed(c) == listedAt[c] <= now
Recorded(c) == recordedAt[c] # Never /\ recordedAt[c] <= now

(* The rows of voximplant.statistic.get from `since` on. *)
Statistic(since) == {c \in Calls : Listed(c) /\ start[c] >= since}

(* mutant: the rows are asked for newest first *)
PlaceNewestFirst(c, since) == Cardinality({d \in Statistic(since) : d >= c})

(* They are sorted by start time: the place of a row in the list. *)
Place(c, since) == Cardinality({d \in Statistic(since) : d <= c})

(* The qualification moment as a lookup finds it. *)
Qualification(k) == IF qualifiedAt[k] # Never /\ qualifiedAt[k] <= now
                    THEN qualifiedAt[k] ELSE Never

-----------------------------------------------------------------------------
Statuses == {"none", "NEW", "SKIPPED", "past"}
Absent == [status |-> "none", first |-> FALSE, at |-> Never]
Inserted == [Absent EXCEPT !.status = "NEW"]
Idle == [stage |-> "idle", began |-> 0, since |-> 0, offset |-> 0, page |-> {},
         last |-> FALSE, mine |-> {}, top |-> Never,
         answers |-> [k \in Clients |-> Never], read |-> [c \in Calls |-> Absent]]

Init ==
  /\ start \in [Calls -> 0..LastStart] /\ \A c, d \in Calls : c < d => start[c] <= start[d]
  /\ listedAt \in [Calls -> Times]
  /\ \A c \in Calls : listedAt[c] \in start[c] .. start[c] + MaxDelay
  /\ recordedAt \in [Calls -> Times \cup {Never}]
  /\ \A c \in Calls : recordedAt[c] \in {Never} \cup (listedAt[c] .. start[c] + MaxDelay)
  /\ qualifiedAt \in [Clients -> 0..LastStart \cup {Never}]
  /\ now = 0 /\ cursor = Never /\ misread = {} /\ crossed = {}
  /\ rows = [c \in Calls |-> Absent]
  /\ pass = [p \in Passes |-> Idle]

Stored(c) == rows[c].status # "none"

(* mutant: a pass does not wait for the rows of another *)
LockedForNone(p, c) == FALSE

(* A pass holds the rows it has written until it commits. *)
LockedFor(p, c) == \E q \in Passes \ {p} : c \in pass[q].mine

(* mutant: no overlap below the cursor *)
SinceNoOverlap(cur) == IF cur = Never THEN now - InitialBack ELSE cur

(* _since_filter *)
Since(cur) == IF cur = Never THEN now - InitialBack ELSE cur - Overlap

PassStarts(p) ==
  /\ pass[p].stage = "idle"
  /\ pass' = [pass EXCEPT ![p] = [Idle EXCEPT !.stage = "list", !.began = now,
                                              !.since = Since(cursor), !.top = cursor]]
  /\ UNCHANGED <<world, now, cursor, rows, misread, crossed>>

(* mutant: rows are kept before their recording is attached *)
PassFetchesUnrecorded(p) ==
  LET from == pass[p].offset
      to   == Min({pass[p].offset + PageSize, Limit})
      read == {c \in Statistic(pass[p].since) : from < Place(c, pass[p].since) /\ Place(c, pass[p].since) <= to}
  IN
    /\ pass[p].stage = "list"
    /\ pass' = [pass EXCEPT
         ![p].stage = "upsert",
         ![p].page = read,
         ![p].offset = to,
         ![p].last = to = Limit \/ to >= Cardinality(Statistic(pass[p].since))]
    /\ UNCHANGED <<world, now, cursor, rows, misread, crossed>>

(***************************************************************************)
(* BitrixClient.list: the next page of rows by offset, at most Limit rows  *)
(* over the whole pass.  What is kept of the page is decided as it is read.*)
(***************************************************************************)
PassFetches(p) ==
  LET from == pass[p].offset
      to   == Min({pass[p].offset + PageSize, Limit})
      read == {c \in Statistic(pass[p].since) : from < Place(c, pass[p].since) /\ Place(c, pass[p].since) <= to}
  IN
    /\ pass[p].stage = "list"
    /\ pass' = [pass EXCEPT
         ![p].stage = "upsert",
         ![p].page = {c \in read : Recorded(c)},
         ![p].offset = to,
         ![p].last = to = Limit \/ to >= Cardinality(Statistic(pass[p].since))]
    /\ UNCHANGED <<world, now, cursor, rows, misread, crossed>>

Latest(p, S) == IF S = {} THEN pass[p].top
                ELSE Max({start[c] : c \in S} \cup ({pass[p].top} \ {Never}))

(* _upsert_call for the kept rows of the page; a row another open pass has *)
(* written is waited for.                                                  *)
PassUpserts(p) ==
  /\ pass[p].stage = "upsert"
  /\ \A c \in pass[p].page : ~LockedFor(p, c)
  /\ LET held == [pass[p] EXCEPT !.mine = @ \cup pass[p].page,
                                 !.top = Latest(p, pass[p].page), !.page = {}]
     IN pass' = [pass EXCEPT ![p] =
                   IF pass[p].last
                   THEN [held EXCEPT !.stage = "ask", !.since = 0, !.offset = 0, !.last = FALSE]
                   ELSE [held EXCEPT !.stage = "list"]]
  /\ UNCHANGED <<world, now, cursor, rows, misread, crossed>>

ClientsOf(p) == {ClientOf[c] : c \in pass[p].mine}

(* QualificationChecker.qualified; a lookup that fails answers unknown. *)
PassAsks(p) ==
  /\ pass[p].stage = "ask"
  /\ \E failed \in SUBSET ClientsOf(p) :
       /\ pass' = [pass EXCEPT ![p].stage = "scope",
                     ![p].answers = [k \in Clients |->
                        IF k \in ClientsOf(p) \ failed THEN Qualification(k) ELSE Never]]
       /\ misread' = misread \cup {k \in failed : Qualification(k) # Never}
  /\ UNCHANGED <<world, now, cursor, rows, crossed>>

AfterQualification(c, answers) ==
  answers[ClientOf[c]] # Never /\ start[c] > answers[ClientOf[c]]

(* _apply_scope: a call past NEW is left alone. *)
ScopedStatus(c, was, answers) ==
  CASE was = "past" -> "past"
    [] was # "past" /\ AfterQualification(c, answers) -> "SKIPPED"
    [] OTHER -> "NEW"

NewOf(p) == {ClientOf[c] : c \in {d \in pass[p].mine : ~Stored(d)}}

(* The clients another pass has found qualified since this one asked: it had no row *)
(* to wait for, all that this pass holds of them being new.                         *)
Overtaken(p) ==
  {k \in ClientsOf(p) :
     /\ \A d \in pass[p].mine : ClientOf[d] = k => ~Stored(d)
     /\ \E c \in Calls : ClientOf[c] = k /\ rows[c].status = "SKIPPED" /\ ~AfterQualification(c, pass[p].answers)}

(* The rows of the clients as the pass reads them: what is committed, and its own. *)
PassReads(p) ==
  /\ pass[p].stage = "scope"
  /\ pass' = [pass EXCEPT ![p].stage = "commit",
                ![p].read = [c \in Calls |->
                   CASE ClientOf[c] \in ClientsOf(p) /\ Stored(c) -> rows[c]
                     [] c \in pass[p].mine /\ ~Stored(c)          -> Inserted
                     [] OTHER                                     -> Absent]]
  /\ crossed' = crossed \cup UNION {NewOf(p) \cap NewOf(q) : q \in {r \in Passes \ {p} : pass[r].stage = "commit"}}
  /\ misread' = misread \cup Overtaken(p)
  /\ UNCHANGED <<world, now, cursor, rows>>

Read(p) == {c \in Calls : pass[p].read[c] # Absent}

(* mutant: only the calls of this pass are rescoped, not all calls of their clients *)
RescopedNew(p, c) ==
  IF c \notin pass[p].mine THEN pass[p].read[c]
  ELSE [status |-> ScopedStatus(c, pass[p].read[c].status, pass[p].answers),
        first |-> \A d \in Read(p) : ClientOf[d] = ClientOf[c] => c <= d,
        at |-> pass[p].answers[ClientOf[c]]]

(* _recompute_scope over the calls read of a client, in order. *)
Rescoped(p, c) ==
  [status |-> ScopedStatus(c, pass[p].read[c].status, pass[p].answers),
   first |-> \A d \in Read(p) : ClientOf[d] = ClientOf[c] => c <= d,
   at |-> pass[p].answers[ClientOf[c]]]

(* A flush writes the columns that differ from what was read, over the row as it is. *)
Written(was, new, old) == IF new # was THEN new ELSE old
Flushed(p, c) ==
  LET was == pass[p].read[c]
      new == Rescoped(p, c)
      old == IF Stored(c) THEN rows[c] ELSE Inserted
  IN [status |-> Written(was.status, new.status, old.status),
      first |-> Written(was.first, new.first, old.first),
      at |-> Written(was.at, new.at, old.at)]

Changed(p) == {c \in Read(p) : Rescoped(p, c) # pass[p].read[c]}

(* mutant: the cursor is stored with the overlap already taken off *)
PassCommitsBack(p) ==
  /\ pass[p].stage = "commit"
  /\ \A c \in Changed(p) : ~LockedFor(p, c)
  /\ rows' = [c \in Calls |-> IF c \in Read(p) THEN Flushed(p, c) ELSE rows[c]]
  /\ cursor' = IF pass[p].top = Never THEN cursor ELSE pass[p].top - Overlap
  /\ pass' = [pass EXCEPT ![p] = Idle]
  /\ UNCHANGED <<world, now, misread, crossed>>

(***************************************************************************)
(* What changed is flushed, which waits for the rows another open pass has *)
(* written; the cursor moves to the latest start that was kept; commit.    *)
(***************************************************************************)
PassCommits(p) ==
  /\ pass[p].stage = "commit"
  /\ \A c \in Changed(p) : ~LockedFor(p, c)
  /\ rows' = [c \in Calls |-> IF c \in Read(p) THEN Flushed(p, c) ELSE rows[c]]
  /\ cursor' = IF pass[p].top = Never THEN cursor ELSE pass[p].top
  /\ pass' = [pass EXCEPT ![p] = Idle]
  /\ UNCHANGED <<world, now, misread, crossed>>

(* An error, a deadlock or arq's timeout: the transaction is rolled back. *)
PassDies(p) ==
  /\ pass[p].stage # "idle"
  /\ pass' = [pass EXCEPT ![p] = Idle]
  /\ UNCHANGED <<world, now, cursor, rows, misread, crossed>>

(* claim_ready: SKIP LOCKED passes over the rows an open pass has written. *)
Claimed(c) ==
  /\ rows[c].status = "NEW" /\ \A p \in Passes : c \notin pass[p].mine
  /\ rows' = [rows EXCEPT ![c].status = "past"]
  /\ UNCHANGED <<world, now, cursor, pass, misread, crossed>>

Tick ==
  /\ now < MaxTime
  /\ \A p \in Passes : pass[p].stage # "idle" => now - pass[p].began < MaxPass
  /\ now' = now + 1
  /\ UNCHANGED <<world, cursor, rows, pass, misread, crossed>>

Next ==
  \/ Tick
  \/ \E c \in Calls : Claimed(c)
  \/ \E p \in Passes : \/ PassStarts(p) \/ PassFetches(p) \/ PassUpserts(p)
                       \/ PassAsks(p) \/ PassReads(p) \/ PassCommits(p) \/ PassDies(p)

Spec == Init /\ [][Next]_vars

-----------------------------------------------------------------------------
Rows == [status : Statuses, first : BOOLEAN, at : Times \cup {Never}]
TypeOK ==
  /\ now \in Times /\ cursor \in Times \cup {Never} /\ misread \cup crossed \subseteq Clients
  /\ rows \in [Calls -> Rows]
  /\ pass \in [Passes -> [stage : {"idle", "list", "upsert", "ask", "scope", "commit"}, began : Times,
                          since : Int, offset : Nat, page : SUBSET Calls, last : BOOLEAN,
                          mine : SUBSET Calls, top : Times \cup {Never},
                          answers : [Clients -> Times \cup {Never}], read : [Calls -> Rows]]]

(* _since_filter's "overlap so nothing slips the cursor": a recorded call that *)
(* is not stored yet is never older than where the next pass begins to read,   *)
(* though calls are listed late, pages shift under the scan, a limit cuts it   *)
(* and two passes write the cursor in any order.                               *)
NothingSlips ==
  \A c \in Calls : Recorded(c) /\ ~Stored(c) => start[c] >= Since(cursor)

(* _recompute_scope's is_first_call: whatever order a client's calls arrive in *)
(* and whichever pass stores them, exactly the earliest stored one is marked.  *)
FirstCallIsEarliest ==
  \A c \in Calls : Stored(c) /\ ClientOf[c] \notin crossed =>
    (rows[c].first <=> \A d \in Calls : Stored(d) /\ ClientOf[d] = ClientOf[c] => c <= d)

(* _apply_scope's "every call of usable length is analyzable until the client    *)
(* qualifies": a stored call that began after that moment is out of the scope,    *)
(* though a pass applies answers minutes old to calls another pass has skipped    *)
(* since: the rows it holds make the other wait.  Left out are clients about whom *)
(* Bitrix failed to answer, and those of whom the pass held only new rows, which  *)
(* the other could not wait for.                                                  *)
NoLogisticsScored ==
  \A c \in Calls :
    Stored(c) /\ ClientOf[c] \notin misread /\ qualifiedAt[ClientOf[c]] # Never
      /\ start[c] > qualifiedAt[ClientOf[c]]
    => rows[c].status = "SKIPPED"

(* The passes implement the intake: stored calls are recorded ones, and none is *)
(* taken back by a pass that rolls back or commits late.                        *)
Intake == INSTANCE CallIntake WITH
            recorded <- {c \in Calls : Recorded(c)},
            taken <- {c \in Calls : Stored(c)}
ImplementsIntake == Intake!Spec

-----------------------------------------------------------------------------
(***************************************************************************)
(* What the settings have to cover, as the code assumes.  The overlap: the *)
(* longest call, the delay of its recording and the life of a pass.  The   *)
(* limit: the rows from the overlap before a kept call to the next one.    *)
(***************************************************************************)
OverlapCovers == MaxDelay + MaxPass <= Overlap

Kept == {c \in Calls : recordedAt[c] # Never}
KeptBefore(c) == Max({0} \cup {start[d] : d \in {k \in Kept : start[k] < start[c]}})
LimitCovers ==
  \A c \in Kept :
    Cardinality({d \in Calls : start[d] \in KeptBefore(c) - Overlap .. start[c]}) <= Limit

(* settings.ingest_batch_size: "each chunk upserts its calls and advances the     *)
(* cursor, so the next tick resumes after it".  Whenever a recorded call waits to *)
(* be stored, with all kept calls before it recorded too, a pass that begins now  *)
(* scans a call that it stores or that moves the cursor on: no backlog keeps pass *)
(* after pass reading the same stored or unkept rows.                             *)
Due == {c \in Calls : Recorded(c) /\ ~Stored(c) /\ \A d \in Kept : start[d] < start[c] => Recorded(d)}
Scanned == {c \in Statistic(Since(cursor)) : Place(c, Since(cursor)) <= Limit}
NextPassAdvances ==
  LimitCovers /\ Due # {}
    => \E c \in Scanned : Recorded(c) /\ (~Stored(c) \/ start[c] > cursor)
===============================================================================
