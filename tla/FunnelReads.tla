-------------------------------- MODULE FunnelReads --------------------------------
(***************************************************************************)
(* What each live screen of the cabinet computes from the funnel           *)
(* (web/api/v1/day.py, hygiene.py, analytics.py, export.py, service.py),   *)
(* read as one: operators over BitrixFunnel, and how the screens and the   *)
(* spreadsheets must agree.  A window is half open, in instants.           *)
(***************************************************************************)
EXTENDS BitrixFunnel, FiniteSetsExt, Functions

CONSTANTS
  Checkpoints,     (* the instants of a day at which open tasks are counted *)
  MonthDays,       (* days in a month *)
  QueueIdle,       (* a neutral deal idle this long is cooling *)
  StaleIdle,       (* an open card idle this long is stale *)
  MaxActions,      (* companion_day_max_actions *)
  ScanCap,         (* companion_task_flow_max_scan *)
  ExportScanCap,   (* companion_task_flow_export_max_scan *)
  ListCap          (* companion_overdue_max_items, failed_max_items *)

ASSUME ReadsAssumption ==
  /\ Checkpoints \subseteq 0..(DayLength - 1) /\ MonthDays \in Nat \ {0}
  /\ {QueueIdle, StaleIdle, MaxActions, ScanCap, ExportScanCap, ListCap} \subseteq Nat

-----------------------------------------------------------------------------
(* okk.parse_period *)
DayOf(t) == t \div DayLength
Days(first, last) == [from |-> first * DayLength, to |-> (last + 1) * DayLength]
OneDay(d) == Days(d, d)
Month(i) == Days(i * MonthDays, (i + 1) * MonthDays - 1)
MonthOf(t) == DayOf(t) \div MonthDays
In(w, t) == w.from <= t /\ t < w.to
Earlier(s, t) == IF s < t THEN s ELSE t
Later(s, t) == IF s < t THEN t ELSE s

(* _STAGE_SIGNALS, _TASK_STAGES, _ANKETA_STAGES *)
StageBucket ==
  [NEW |-> "none", PREPARATION |-> "none", CALLBACK |-> "none", NO_ANSWER_1 |-> "no_answer",
   NO_ANSWER_2 |-> "no_answer", QUALIFIED |-> "none", BOOKED |-> "meetings",
   CONFIRMED |-> "meetings", NO_SHOW |-> "cooling", DOUBLE |-> "none", NO_TM |-> "none"]
HotStages == {"CALLBACK", "QUALIFIED", "NO_SHOW"}
TaskStages == {"CALLBACK", "QUALIFIED", "BOOKED", "CONFIRMED", "NO_SHOW"}
AnketaStages == {"QUALIFIED", "BOOKED", "CONFIRMED", "NO_SHOW"}

-----------------------------------------------------------------------------
(* The queues of Мой день. *)
TmDeals(m) == {d \in DealIds : deals[d] # NoDeal /\ deals[d].owner = m /\ ~deals[d].sales}
OpenDeals(m) == {d \in TmDeals(m) : ~deals[d].closed}
Staler(x, y) == deals[x].touched < deals[y].touched \/ (deals[x].touched = deals[y].touched /\ x < y)

WithTask(m) == {acts[a].deal : a \in {i \in 1..Len(acts) : ~acts[i].done}}
BucketOf(d) ==
  IF deals[d].stage \notin DOMAIN StageBucket \/ StageBucket[deals[d].stage] = "none"
  THEN IF deals[d].touched < now - QueueIdle THEN "cooling" ELSE "none"
  ELSE StageBucket[deals[d].stage]
QueueOf(m, d) ==
  IF BucketOf(d) = "none" /\ d \notin WithTask(m) THEN "no_task" ELSE BucketOf(d)

Stats(m) ==
  LET open == OpenDeals(m)
      In_(b) == Cardinality({d \in open : BucketOf(d) = b})
  IN [meetings |-> In_("meetings"), no_answer |-> In_("no_answer"), cooling |-> In_("cooling"),
      no_task |-> Cardinality(open \ WithTask(m))]

(* A queue, and how many are worked before a deal of it: the staler ones, but of *)
(* missed calls the fresher ones.                                                *)
Queue(m, b) == {d \in OpenDeals(m) : QueueOf(m, d) = b}
Place(m, d) ==
  Cardinality({e \in Queue(m, QueueOf(m, d)) :
                 IF QueueOf(m, d) = "no_answer" THEN Staler(d, e) ELSE Staler(e, d)})

(* _select_action_deals: round robin over the queues, in the order they are met. *)
MetFirst(m, b, c) == \E d \in Queue(m, b) : \A e \in Queue(m, c) : Staler(d, e)
SoonerTurn(m, x, y) ==
  \/ Place(m, x) < Place(m, y)
  \/ Place(m, x) = Place(m, y) /\ MetFirst(m, QueueOf(m, x), QueueOf(m, y))
ActionDeals(m, cap) ==
  LET queued == {d \in OpenDeals(m) : QueueOf(m, d) # "none"}
  IN {d \in queued : Cardinality({e \in queued : SoonerTurn(m, e, d)}) < cap}

-----------------------------------------------------------------------------
(* Counts from the stage history. *)
Entries(stages, w) == {h \in trail : h.stage \in stages /\ In(w, h.at)}
Entrants(stages, w) == {h.deal : h \in Entries(stages, w)}

(* _stage_entrants_by_assignee, and its split by day *)
EntrantsOf(m, stages, w) == Cardinality({d \in Entrants(stages, w) : deals[d].owner = m})
EntrantsPerDay(m, stage, w) ==
  [day \in {DayOf(h.at) : h \in Entries({stage}, w)} |->
     Cardinality({d \in {h.deal : h \in {e \in Entries({stage}, w) : DayOf(e.at) = day}} : deals[d].owner = m})]

(* stage_outcomes_by_assignee: distinct deals, and those that entered twice *)
Outcomes(m, stage, w) ==
  LET own == {d \in Entrants({stage}, w) : deals[d].owner = m}
  IN [distinct |-> Cardinality(own),
      rebooked |-> Cardinality({d \in own : Cardinality({h \in Entries({stage}, w) : h.deal = d}) >= 2})]

(* _won_by_tm, won_by_month_for_tm: through the employee field *)
WonByTm(m, stage, w) == Cardinality({d \in Entrants({stage}, w) : deals[d].tm = m})
WonByMonth(m, w) ==
  [i \in MonthOf(w.from)..MonthOf(w.to - 1) |->
     Cardinality({d \in {h.deal : h \in {e \in Entries({"VISIT"}, w) : MonthOf(e.at) = i}} : deals[d].tm = m})]

-----------------------------------------------------------------------------
(* Counts over activities. *)
Tasks(w) == {a \in 1..Len(acts) : In(w, acts[a].due)}
TasksOf(m, w) == {a \in Tasks(w) : acts[a].who = m}
LeftOf(m, w) == {a \in TasksOf(m, w) : ~acts[a].done}
Due(w) == [w EXCEPT !.to = Earlier(w.to, now)]

(* _overdue_tasks, _overdue_task_items, team_overdue_tasks *)
Overdue(m, w) == Cardinality(LeftOf(m, Due(w)))
SoonerDue(x, y) == acts[x].due < acts[y].due \/ (acts[x].due = acts[y].due /\ x < y)
ByDue(S, cap) == {a \in S : Cardinality({b \in S : SoonerDue(b, a)}) < cap}
OverdueItems(m, w) == ByDue(LeftOf(m, Due(w)), MaxActions)
TeamOverdue(team, cap) ==
  LET late == UNION {LeftOf(m, [from |-> 0, to |-> now]) : m \in team}
  IN [tasks |-> ByDue(late, cap), truncated |-> Cardinality(late) > cap]

PlannedCalls(m, w) == Cardinality({a \in LeftOf(m, w) : acts[a].kind = "call"})
Answered(m, w) ==
  {a \in 1..Len(acts) : acts[a].kind = "logged" /\ acts[a].who = m /\ acts[a].answered /\ In(w, acts[a].born)}
TalkTime(m, w) == Cardinality(Answered(m, w))

-----------------------------------------------------------------------------
(* Задачи за день: how many tasks were open at each checkpoint. *)
Scan(S, cap) == [rows |-> {a \in S : Cardinality({b \in S : b < a}) < cap}, truncated |-> Cardinality(S) > cap]

Elapsed(day) == {day * DayLength + c : c \in {x \in Checkpoints : day * DayLength + x <= now}}

(* mutant: the range scan is not narrowed to the day *)
AllRows(rows, to) == rows

(* _due_before *)
DueBefore(rows, to) == {a \in rows : acts[a].due < to}

(* team_task_flow_range, for days that have reached a checkpoint; a day at a time *)
(* it is team_task_flow, which the team screen shows.                              *)
TaskFlow(team, days, cap) ==
  LET live     == {d \in days : Elapsed(d) # {}}
      span     == [from |-> Min(live) * DayLength, to |-> (Max(live) + 1) * DayLength]
      workload == {a \in 1..Len(acts) : /\ acts[a].who \in team /\ acts[a].kind # "logged"
                                        /\ acts[a].due # NoDue /\ acts[a].due < span.to}
      open     == Scan({a \in workload : ~acts[a].done}, cap)
      closed   == Scan({a \in workload : acts[a].done /\ acts[a].updated >= Min(UNION {Elapsed(d) : d \in live})}, cap)
      created  == Scan({a \in 1..Len(acts) : /\ acts[a].who \in team /\ acts[a].kind # "logged"
                                             /\ In(span, acts[a].born)}, cap)
      OpenAt(m, d, t) ==
        Cardinality({a \in DueBefore(open.rows, (d + 1) * DayLength) : acts[a].who = m /\ acts[a].born < t})
          + Cardinality({a \in DueBefore(closed.rows, (d + 1) * DayLength) :
                           acts[a].who = m /\ acts[a].born < t /\ t <= acts[a].updated})
  IN IF live = {} THEN [rows |-> << >>, truncated |-> FALSE]
     ELSE [rows |-> [d \in live |-> [m \in team |->
                       [open    |-> [t \in Elapsed(d) |-> OpenAt(m, d, t)],
                        created |-> Cardinality({a \in created.rows : acts[a].who = m /\ DayOf(acts[a].born) = d}),
                        talk    |-> TalkTime(m, OneDay(d))]]],
           truncated |-> open.truncated \/ closed.truncated \/ created.truncated]

(* stage_entrants_by_assignee, the count the screens share *)
Booked(m, w) == EntrantsOf(m, {"BOOKED"}, w)

(* get_team_task_flow and get_task_flow_export, for the department of the funnel *)
TeamScreen(team, d) ==
  LET flow == TaskFlow(team, {d}, ScanCap)
  IN [rows |-> [m \in IF flow.rows = << >> THEN {} ELSE team |->
                  [flow |-> flow.rows[d][m], booked |-> Booked(m, OneDay(d))]],
      truncated |-> flow.truncated]
ExportDays(w) == {d \in DayOf(w.from)..DayOf(w.to - 1) : Elapsed(d) # {}}
ExportRows(team, w) ==
  LET flow == TaskFlow(team, ExportDays(w), ExportScanCap)
  IN [rows |-> [d \in DOMAIN flow.rows |-> [m \in team |->
                  LET perDay == EntrantsPerDay(m, "BOOKED", w)
                  IN [flow |-> flow.rows[d][m], booked |-> IF d \in DOMAIN perDay THEN perDay[d] ELSE 0]]],
      truncated |-> flow.truncated]

(* _task_flow_summary: means over the days that have the number, and sums *)
FlowSummary(team, rows) ==
  LET DaysAt(c) == {d \in DOMAIN rows : d * DayLength + c \in Elapsed(d)}
  IN [m \in team |->
        [left |-> [c \in Checkpoints |->
                     [sum |-> SumFunction([d \in DaysAt(c) |-> rows[d][m].flow.open[d * DayLength + c]]),
                      days |-> Cardinality(DaysAt(c))]],
         created |-> SumFunction([d \in DOMAIN rows |-> rows[d][m].flow.created]),
         talk    |-> SumFunction([d \in DOMAIN rows |-> rows[d][m].flow.talk]),
         booked  |-> SumFunction([d \in DOMAIN rows |-> rows[d][m].booked])]]

(* _today_metrics and _money *)
DayTiles(m, w) ==
  [planned |-> PlannedCalls(m, w), booked |-> Booked(m, w), talk |-> TalkTime(m, w),
   push |-> EntrantsOf(m, HotStages, w),
   qualified |-> Cardinality({d \in OpenDeals(m) : deals[d].stage = "QUALIFIED"}),
   visits |-> WonByTm(m, "VISIT", w), overdue |-> Overdue(m, w)]
Leads(m, w) == Cardinality({d \in TmDeals(m) : In(w, deals[d].created)})
Money(m, w) == [meetings |-> WonByTm(m, "VISIT", w), leads |-> Leads(m, w)]

-----------------------------------------------------------------------------
(* Моя Аналитика. *)
ClosedLost(m, w) == {d \in TmDeals(m) : deals[d].sem = "F" /\ In(w, deals[d].closedAt)}
LostReasons(m, w) ==
  [r \in {deals[d].reason : d \in ClosedLost(m, w)} |->
     Cardinality({d \in ClosedLost(m, w) : deals[d].reason = r})]

Funnel(m, w) ==
  [leads |-> Leads(m, w), no_answer |-> EntrantsOf(m, {"NO_ANSWER_1", "NO_ANSWER_2"}, w),
   qualified |-> Outcomes(m, "QUALIFIED", w).distinct, booked |-> Outcomes(m, "BOOKED", w).distinct,
   arrived |-> WonByTm(m, "VISIT", w), bought |-> WonByTm(m, "SOLD", w),
   lost |-> Cardinality(ClosedLost(m, w)), reasons |-> LostReasons(m, w)]
MeetingsBlock(m, w) ==
  [booked |-> Outcomes(m, "BOOKED", w).distinct, rebooked |-> Outcomes(m, "BOOKED", w).rebooked,
   no_show |-> Outcomes(m, "NO_SHOW", w).distinct, arrived |-> WonByTm(m, "VISIT", w),
   bought |-> WonByTm(m, "SOLD", w)]
TasksBlock(m, w) ==
  LET closed  == Cardinality({a \in TasksOf(m, w) : acts[a].done})
      overdue == Cardinality(LeftOf(m, Due(w)))
      pending == Cardinality(LeftOf(m, [w EXCEPT !.from = Later(w.from, now)]))
  IN [total |-> closed + overdue + pending, closed |-> closed, overdue |-> overdue, pending |-> pending]
CallsBlock(m, w) ==
  [talk |-> TalkTime(m, w), completed |-> Cardinality(Answered(m, w)),
   no_answer |-> Cardinality({a \in 1..Len(acts) : /\ acts[a].kind = "logged" /\ acts[a].who = m
                                                   /\ ~acts[a].answered /\ In(w, acts[a].born)})]
(* get_cr_trend: visits of each month over leads of each month *)
CrTrend(m, last, months) ==
  LET shown == {i \in (last - months + 1)..last : i >= 0}
      won   == WonByMonth(m, Days(Min(shown) * MonthDays, (last + 1) * MonthDays - 1))
  IN [i \in shown |-> [arrived |-> won[i], leads |-> Leads(m, Month(i))]]

-----------------------------------------------------------------------------
(* Гигиена CRM: of a base of cards or tasks, those in order. *)
Share(good, base) == [base |-> Cardinality(base), good |-> Cardinality(good)]
PeriodDeals(m, w) == {d \in TmDeals(m) : In(w, deals[d].created)}

StatusesShare(m, w) ==
  LET base == PeriodDeals(m, w)
  IN Share({d \in base : deals[d].closed \/ deals[d].touched >= Earlier(w.to, now) - StaleIdle}, base)
AnketaShare(m, w) ==
  LET base == {d \in PeriodDeals(m, w) : deals[d].sem = "S" \/ deals[d].stage \in AnketaStages}
  IN Share({d \in base : deals[d].filled}, base)
TasksSetShare(m, w) ==
  LET base == {d \in PeriodDeals(m, w) : ~deals[d].closed /\ deals[d].stage \in TaskStages}
  IN Share({d \in base : \E a \in 1..Len(acts) : acts[a].deal = d /\ acts[a].who = m /\ ~acts[a].done}, base)
OnTimeShare(m, w) ==
  LET due == Due(w) IN [base |-> Cardinality(TasksOf(m, due)),
                        good |-> Cardinality(TasksOf(m, due)) - Cardinality(LeftOf(m, due))]
CalledDeals(m, w) ==
  {acts[a].deal : a \in {i \in 1..Len(acts) : /\ acts[i].who = m /\ acts[i].done /\ In(w, acts[i].born)
                                              /\ acts[i].kind \in {"call", "logged"}}}
NotesShare(m, w) ==
  Share({d \in CalledDeals(m, w) :
           \E c \in comments : c.deal = d /\ c.author = m /\ c.text = "note" /\ In(w, c.at)},
        CalledDeals(m, w))
Hygiene(m, w) ==
  <<StatusesShare(m, w), AnketaShare(m, w), TasksSetShare(m, w), OnTimeShare(m, w), NotesShare(m, w)>>

-----------------------------------------------------------------------------
DaysSoFar == 0..DayOf(now)

(* service.py:1854 "the same stage-history count ... so the three screens can't  *)
(* disagree", day.py:1175 "so a day still sees exactly the tasks the day view    *)
(* would show", day.py _bucket_of "the single mapping the counters, the action   *)
(* tags, and the example picker all share", analytics.py "the breakdown counts   *)
(* sum to the total": read at one moment, the screens agree.  A range of days in *)
(* the spreadsheet has the rows of the team screen, unless a scan was cut off;   *)
(* bookings, visits, talk and overdue tasks of a window are the same on every    *)
(* screen that shows them; the counters of the queues are those of the list when *)
(* it is not full, and a full list takes turns; days and months add up.          *)
ScreensAgree ==
  LET whole == Days(0, DayOf(now))
      sheet == ExportRows(Sellers, whole)
      late  == TeamOverdue(Sellers, ListCap)
  IN /\ \A d \in DaysSoFar :
          LET screen == TeamScreen(Sellers, d)
          IN ~sheet.truncated /\ ~screen.truncated =>
               screen.rows = IF d \in DOMAIN sheet.rows THEN sheet.rows[d] ELSE << >>
     /\ \A m \in Sellers, d \in DaysSoFar :
          LET w == OneDay(d)
          IN /\ Booked(m, w) = Funnel(m, w).booked /\ Booked(m, w) = MeetingsBlock(m, w).booked
             /\ DayTiles(m, w).overdue = TasksBlock(m, w).overdue
             /\ OnTimeShare(m, w).base - OnTimeShare(m, w).good = TasksBlock(m, w).overdue
             /\ TasksBlock(m, w).total = Cardinality(TasksOf(m, w))
             /\ DayTiles(m, w).overdue <= MaxActions => Cardinality(OverdueItems(m, w)) = DayTiles(m, w).overdue
             /\ ~late.truncated => LeftOf(m, Due(w)) \subseteq late.tasks
             /\ \A i \in 1..5 : Hygiene(m, w)[i].good \in 0..Hygiene(m, w)[i].base
     /\ \A m \in Sellers :
          LET shown  == ActionDeals(m, MaxActions)
              full   == ActionDeals(m, Cardinality(DealIds))
              In_(list, b) == Cardinality({d \in list : QueueOf(m, d) = b})
              queues == {"meetings", "no_answer", "cooling", "no_task"}
          IN /\ \A b \in queues \ {"no_task"} : Stats(m)[b] = In_(full, b)
             /\ Cardinality(full) <= MaxActions => shown = full
             /\ \A b, c \in queues : In_(shown, b) < In_(full, b) => In_(shown, c) <= In_(shown, b) + 1
             /\ SumFunction(LostReasons(m, whole)) = Funnel(m, whole).lost
             /\ ExportDays(whole) = DaysSoFar =>
                  \A total \in {FlowSummary(Sellers, sheet.rows)[m].booked} :
                    /\ total >= Booked(m, whole)
                    /\ MeetingsBlock(m, whole).rebooked = 0 => total = Booked(m, whole)
             /\ SumFunction([d \in DaysSoFar |-> TalkTime(m, OneDay(d))]) = CallsBlock(m, whole).talk
             /\ \A i \in {x \in {MonthOf(now) - 1, MonthOf(now)} : x >= 0} :
                  CrTrend(m, MonthOf(now), 2)[i].arrived = Money(m, Month(i)).meetings
===============================================================================
