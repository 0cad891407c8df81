------------------------------- MODULE ScreenCaches -------------------------------
(***************************************************************************)
(* How long a live screen of the cabinet may lag behind Bitrix             *)
(* (web/api/v1/day.py, hygiene.py, analytics.py, service.py).  A request   *)
(* reads Bitrix in several steps while time passes; the counts from the    *)
(* stage history go through caches that requests of all screens share, and *)
(* the finished view through a cache of its own.  What is followed here is *)
(* the age of the data; what is computed from it is in FunnelReads.        *)
(***************************************************************************)
EXTENDS Integers, Sequences, FiniteSets

CONSTANTS
  Readers,         (* requests under way at once *)
  ShortTTL,        (* companion_day_cache_ttl_seconds: the day, the shared counts *)
  TeamTTL,         (* companion_task_flow_cache_ttl_seconds *)
  LongTTL,         (* companion_hygiene_ and companion_analytics_cache_ttl_seconds *)
  MaxRead,         (* bound: instants a request may take *)
  FirstHour, LastHour,   (* bound: the clock *)
  MaxLoads,        (* bound: requests that no cache answers *)
  HoursADay,
  Srezy            (* the hours of the day's checkpoints *)

(* The checkpoints of a day, one at least (settings.companion_task_checkpoints), lie *)
(* further from midnight than a view of the team can be old.                         *)
ASSUME CachesExpireOvernight ==
  /\ {ShortTTL, TeamTTL, LongTTL, MaxRead, HoursADay} \subseteq Nat \ {0}
  /\ {FirstHour, LastHour} \subseteq Nat /\ ShortTTL + MaxRead <= HoursADay
  /\ Srezy \subseteq Nat /\ Srezy # {} /\ IsFiniteSet(Srezy)
  /\ \A h \in Srezy : TeamTTL + MaxRead <= h /\ h + TeamTTL + MaxRead <= HoursADay

VARIABLES
  hour,
  shared,      (* counts from the stage history: kept until, read at *)
  views,       (* finished views, by request *)
  reader,      (* what each request is doing *)
  loads,
  refreshed,   (* ghost: when the last "check again" began to read *)
  raced        (* ghost: a "check again" overlapped another load of the screen *)

cacheVars == <<hour, shared, views, reader, loads, refreshed, raced>>

Screens == {"day", "team", "analytics", "trend", "hygiene"}
TodayTab == -1     (* the key of the default, no date given *)
Dates == {TodayTab} \cup 0..(LastHour \div HoursADay)
ViewTTL(screen) ==
  IF screen = "day" THEN ShortTTL ELSE IF screen = "team" THEN TeamTTL ELSE LongTTL
SharedTTL(via) == IF via = "months" THEN LongTTL ELSE ShortTTL

Free == [screen |-> "none"]

Today(h) == h \div HoursADay
DayAsked(date) == IF date = TodayTab THEN Today(hour) ELSE date
PastSrezy(day) == {s \in Srezy : day * HoursADay + s <= hour}

(* The reads of a screen in turn: through which shared cache, and whether the     *)
(* whole view is given up when Bitrix fails (otherwise one field or block is).    *)
(* The windows of the month and of the day are taken as one.  The cache of the    *)
(* labels of reasons (analytics.py:93) is left out: a label may lag by LongTTL     *)
(* more, no count does.                                                            *)
Reads(screen) ==
  CASE screen = "day"       -> <<[via |-> "none", must |-> TRUE], [via |-> "visits", must |-> TRUE],
                                 [via |-> "entrants", must |-> FALSE], [via |-> "none", must |-> TRUE]>>
    [] screen = "team"      -> <<[via |-> "none", must |-> TRUE], [via |-> "entrants", must |-> FALSE]>>
    [] screen = "analytics" -> <<[via |-> "outcomes", must |-> FALSE], [via |-> "visits", must |-> FALSE],
                                 [via |-> "none", must |-> FALSE]>>
    [] screen = "trend"     -> <<[via |-> "months", must |-> FALSE], [via |-> "none", must |-> FALSE]>>
    [] screen = "hygiene"   -> <<[via |-> "none", must |-> FALSE], [via |-> "none", must |-> FALSE]>>

(* The counts are cached by window; a view by screen, date and, for the team, by   *)
(* the number of checkpoints the day has reached.                                   *)
Key(screen, date) ==
  <<screen, date, IF screen = "team" THEN Cardinality(PastSrezy(DayAsked(date))) ELSE 0>>

CachesInit ==
  /\ hour = FirstHour /\ shared = << >> /\ views = << >>
  /\ reader = [r \in Readers |-> Free] /\ loads = 0 /\ refreshed = 0 /\ raced = FALSE

Live(cache, k) == k \in DOMAIN cache /\ cache[k].until > hour
Put(cache, k, v) == [x \in DOMAIN cache \cup {k} |-> IF x = k THEN v ELSE cache[x]]
Served(screen, date) == Live(views, Key(screen, date))

-----------------------------------------------------------------------------
(* A request that the cache does not answer; only hygiene can be told to ask anew. *)
RequestBegins(r, screen, date, refresh) ==
  /\ reader[r] = Free /\ loads < MaxLoads /\ loads' = loads + 1
  /\ date \in {TodayTab} \cup 0..Today(hour) /\ (screen \in {"analytics", "trend", "hygiene"} => date = TodayTab)
  /\ IF refresh THEN screen = "hygiene" ELSE ~Served(screen, date)
  /\ reader' = [reader EXCEPT ![r] =
       [screen |-> screen, key |-> Key(screen, date), day |-> DayAsked(date), step |-> 1, since |-> hour,
        pulling |-> FALSE, asof |-> hour, refresh |-> refresh]]
  /\ raced' = (raced \/ \E o \in Readers : reader[o].screen = "hygiene" /\ screen = "hygiene")
  /\ UNCHANGED <<hour, shared, views, refreshed>>

Reading(r) == reader[r].screen # "none" /\ reader[r].step <= Len(Reads(reader[r].screen))
Current(r) == Reads(reader[r].screen)[reader[r].step]
SharedKey(r) == <<Current(r).via, reader[r].day>>

(* mutant: a count, once read, is never read again *)
HitForever(r) == SharedKey(r) \in DOMAIN shared

(* hit[0] > time.monotonic() *)
Hit(r) == Live(shared, SharedKey(r))

Took(r, asof) ==
  LET q == reader[r]
  IN [reader EXCEPT ![r] = [q EXCEPT !.step = q.step + 1, !.pulling = FALSE,
                                     !.asof = IF asof < q.asof THEN asof ELSE q.asof]]

ReadDirect(r) ==
  /\ Reading(r) /\ Current(r).via = "none"
  /\ reader' = Took(r, hour)
  /\ UNCHANGED <<hour, shared, views, refreshed, raced, loads>>

ReadShared(r) ==
  /\ Reading(r) /\ Current(r).via # "none" /\ ~reader[r].pulling /\ Hit(r)
  /\ reader' = Took(r, shared[SharedKey(r)].asof)
  /\ UNCHANGED <<hour, shared, views, refreshed, raced, loads>>

(* The stage history first, then the deals it names; other requests may pull too. *)
PullBegins(r) ==
  /\ Reading(r) /\ Current(r).via # "none" /\ ~reader[r].pulling /\ ~Hit(r)
  /\ reader' = [reader EXCEPT ![r].pulling = TRUE]
  /\ UNCHANGED <<hour, shared, views, refreshed, raced, loads>>

PullEnds(r) ==
  /\ Reading(r) /\ reader[r].pulling
  /\ shared' = Put(shared, SharedKey(r), [until |-> hour + SharedTTL(Current(r).via), asof |-> reader[r].since])
  /\ reader' = Took(r, reader[r].since)
  /\ UNCHANGED <<hour, views, refreshed, raced, loads>>

(* Bitrix fails: the answer says "no data" and is not kept, or goes on without the *)
(* number and is kept like any other.                                               *)
ReadFails(r) ==
  /\ Reading(r) /\ (Current(r).via = "none" \/ reader[r].pulling)
  /\ reader' = IF Current(r).must THEN [reader EXCEPT ![r] = Free]
               ELSE Took(r, hour)
  /\ UNCHANGED <<hour, shared, views, refreshed, raced, loads>>

ViewStored(r) ==
  /\ reader[r].screen # "none" /\ ~Reading(r)
  /\ views' = Put(views, reader[r].key,
       [until |-> hour + ViewTTL(reader[r].screen), asof |-> reader[r].asof, day |-> reader[r].day])
  /\ refreshed' = IF reader[r].refresh THEN reader[r].since ELSE refreshed
  /\ reader' = [reader EXCEPT ![r] = Free]
  /\ UNCHANGED <<hour, shared, raced, loads>>

(* Requests take no longer than the client's timeouts let them; a view that has   *)
(* expired is never served again, and is forgotten.                                *)
HourPasses ==
  /\ hour < LastHour
  /\ \A r \in Readers : reader[r].screen # "none" => hour < reader[r].since + MaxRead
  /\ hour' = hour + 1
  /\ views' = [k \in {x \in DOMAIN views : views[x].until > hour'} |-> views[k]]
  /\ UNCHANGED <<shared, reader, loads, refreshed, raced>>

CachesNext ==
  \/ HourPasses
  \/ \E r \in Readers :
       \/ \E screen \in Screens, date \in Dates, refresh \in BOOLEAN : RequestBegins(r, screen, date, refresh)
       \/ ReadDirect(r) \/ ReadShared(r) \/ PullBegins(r) \/ PullEnds(r) \/ ReadFails(r) \/ ViewStored(r)

CachesSpec == CachesInit /\ [][CachesNext]_cacheVars

-----------------------------------------------------------------------------
(* The caches are stacked, and requests overlap; still what a screen serves from *)
(* its cache is never older than the two lifetimes together and the time the     *)
(* reads took.  The team sees the day it asked for with every checkpoint that    *)
(* has passed (service.py:1840 "a view cached before a checkpoint can't hide the *)
(* column that just arrived"); the day screen is of another day only just after  *)
(* midnight; and after a "check again" the hygiene screen shows nothing older    *)
(* (hygiene.py:705), unless another load of it was under way.                     *)
NeverTooStale ==
  \A screen \in Screens, date \in {TodayTab} \cup 0..Today(hour) :
    Served(screen, date) =>
      LET view == views[Key(screen, date)]
      IN /\ hour - view.asof <= ViewTTL(screen) + 2 * MaxRead
                                     + IF screen = "trend" THEN LongTTL ELSE ShortTTL
         /\ screen = "team" => view.day = DayAsked(date)
         /\ screen = "day" /\ view.day # DayAsked(date) =>
              /\ date = TodayTab /\ view.day = Today(hour) - 1
              /\ hour - Today(hour) * HoursADay < ShortTTL + MaxRead
         /\ screen = "hygiene" /\ ~raced => view.asof >= refreshed
===============================================================================
