------------------------------- MODULE CabinetScreens -------------------------------
(***************************************************************************)
(* What the cabinet shows (web/api/v1/service.py, export.py): operators    *)
(* over the scores, the appeals and the managers table as they stand when  *)
(* a screen is read, and how the screens must agree.  Calls without a      *)
(* score, or below ninety seconds, are in none of them (db/views.py).      *)
(***************************************************************************)
EXTENDS Appeals, SequencesExt

CONSTANTS
  Cards,       (* Bitrix cards: contacts, deals, companies *)
  CallCard,    (* the card each call is attached to *)
  CardLinks,   (* the cards Bitrix links each card to *)
  CallAt,      (* when each call was *)
  MeetingRows, (* the meetings table: id, uploader or None, manager (of the managers table) or
                  None, at (Undated for none), percent or NoPercent, passed, review *)
  ManagerName, (* the full name of each manager, None for a row without one *)
  TieUp(_),    (* whether the binary mean of the rows, halfway between two tenths, falls upward *)
  TmDept,      (* the department that is exported by its calls *)
  FeedLimit,   (* items a feed returns *)
  BookedElement  (* the closing element that says a meeting was booked *)

(* A manager has one call at a time, so the newest are told apart. *)
ASSUME ScreensAssumption ==
  /\ IsFiniteSet(Calls) /\ IsFiniteSet(MeetingRows) /\ FeedLimit \in Nat
  /\ \A c \in Calls : CallAt[c] \in Int
  /\ \A c, b \in Calls : CallManager[c] = CallManager[b] /\ CallAt[c] = CallAt[b] => c = b
  /\ \A r \in MeetingRows : r.at \in Int /\ r.id \in Int

-----------------------------------------------------------------------------
(* call_scores_latest *)
ScoredCalls == {c \in Calls : score[c] # NoScore}
LatestRow(c) ==
  [call |-> c, manager |-> CallManager[c], dept |-> DeptOf(CallManager[c]),
   percent |-> score[c].percent, zone |-> score[c].zone, qual |-> score[c].qual,
   flags |-> score[c].flags]

(* ORDER BY reviewed_at DESC NULLS LAST, id DESC *)
LastReviewed(ids) ==
  CHOOSE i \in ids : \A j \in ids :
    appeals[j].reviewed < appeals[i].reviewed \/ (appeals[j].reviewed = appeals[i].reviewed /\ j <= i)
(* ORDER BY created_at DESC, id DESC *)
LastCreated(ids) ==
  CHOOSE i \in ids : \A j \in ids :
    appeals[j].created < appeals[i].created \/ (appeals[j].created = appeals[i].created /\ j <= i)

AcceptedOn(c) == {i \in AppealsOf(c) : appeals[i].status = "accepted"}
CorrectingOn(c) == {i \in AcceptedOn(c) : appeals[i].override # NoPercent}

(* _score_overrides, _dismissed_flags, get_latest_appeal_for_call *)
ScoreOverride(c) ==
  IF CorrectingOn(c) = {} THEN NoPercent ELSE appeals[LastReviewed(CorrectingOn(c))].override
DismissedFlags(c) ==
  IF AcceptedOn(c) = {} THEN {} ELSE appeals[LastReviewed(AcceptedOn(c))].dismissed
LatestAppeal(c) == IF AppealsOf(c) = {} THEN 0 ELSE LastCreated(AppealsOf(c))

(* mutant: the zone of the model stays beside the corrected percent *)
PercentOnly(row) ==
  IF ScoreOverride(row.call) = NoPercent THEN row
  ELSE [row EXCEPT !.percent = ScoreOverride(row.call)]

(* _with_overrides *)
Corrected(row) ==
  IF ScoreOverride(row.call) = NoPercent THEN row
  ELSE [row EXCEPT !.percent = ScoreOverride(row.call), !.zone = ZoneFor(ScoreOverride(row.call))]

-----------------------------------------------------------------------------
FeedItem(row) ==
  [call |-> row.call, percent |-> row.percent, zone |-> row.zone, okk5 |-> Okk5(row.percent),
   flags |-> row.flags \ DismissedFlags(row.call)]
CallsFeed(m) == {FeedItem(Corrected(LatestRow(c))) : c \in {x \in ScoredCalls : CallManager[x] = m}}

-----------------------------------------------------------------------------
(* The feed and the card of a manager take the meetings he uploaded, the team and *)
(* the export those of his managers row.                                           *)
Undated == 0
MeetingsOf(m) == {r \in MeetingRows : r.uploader = m}
MeetingsInPeriod(m) == {r \in MeetingsOf(m) : r.at # Undated}
DeptMeetings(d) == {r \in MeetingRows : r.at # Undated /\ r.manager # None /\ DeptOf(r.manager) = d}

SumOf(rows) == MapThenSumSet(LAMBDA r : r.percent, rows)
MeanOf(rows) == PythonMean(SumOf(rows), Cardinality(rows), TieUp(rows))
(* _meetings_score_from *)
MeetingsScore(rows) ==
  [n |-> Cardinality(rows),
   percent |-> MeanOf({r \in rows : r.percent # NoPercent}),
   passed |-> Cardinality({r \in rows : r.passed = "yes"}),
   failed |-> Cardinality({r \in rows : r.passed = "no"}),
   review |-> Cardinality({r \in rows : r.review})]

MeetingItem(r) == [meeting |-> r.id, percent |-> r.percent, passed |-> r.passed, review |-> r.review]
(* get_meeting_feedback: whom it names is who may open it *)
MeetingFeedback(r) == [manager |-> r.uploader, item |-> MeetingItem(r)]

(* What is dated newest first, then the undated, each cut at the limit. *)
Before(x, y) ==
  \/ x.at > y.at
  \/ x.at = y.at /\ x.kind = "call" /\ y.kind = "meeting"
  \/ x.at = y.at /\ x.kind = y.kind /\ x.place > y.place
Leading(items, limit) == {x \in items : Cardinality({y \in items : Before(y, x)}) < limit}
InOrder(items) == SetToSortSeq(items, Before)
Newest(items, limit) == InOrder(Leading(items, limit))
TimedCalls(m) == {[kind |-> "call", at |-> CallAt[c], place |-> 0, id |-> c] :
                    c \in {x \in ScoredCalls : CallManager[x] = m}}
TimedMeetings(m) == {[kind |-> "meeting", at |-> r.at, place |-> r.id, id |-> r.id] : r \in MeetingsOf(m)}

(* get_unified_feed: the newest of each kind, merged and cut again. *)
UnifiedFeed(m, limit) ==
  Newest(Leading(TimedCalls(m), limit) \cup Leading(TimedMeetings(m), limit), limit)

(* get_crm_entity_calls: the card, and what Bitrix links to it if it answers. *)
CardPairs(card, answered) == {card} \cup IF answered THEN CardLinks[card] ELSE {}
CardCalls(who, card, answered) ==
  {FeedItem(Corrected(LatestRow(c))) :
     c \in {x \in ScoredCalls : /\ CallCard[x] \in CardPairs(card, answered)
                                /\ CanViewCallRow(who, CallManager[x])}}

(* mutant: every contested element is shown at full marks *)
ContestedEntries(c) ==
  LET a == LatestAppeal(c)
  IN IF a # 0 /\ appeals[a].status = "accepted" THEN Awarded(score[c].entries, appeals[a].disputed)
     ELSE score[c].entries

(* get_call_feedback: what the latest appeal confirmed is shown at full marks. *)
ShownEntries(c) ==
  LET a == LatestAppeal(c)
  IN IF a # 0 /\ appeals[a].status = "accepted" THEN Awarded(score[c].entries, appeals[a].confirmed)
     ELSE score[c].entries
Feedback(c) ==
  LET a   == LatestAppeal(c)
      row == Corrected(LatestRow(c))
  IN [percent |-> row.percent, zone |-> row.zone, okk5 |-> Okk5(row.percent),
      original |-> score[c].percent, entries |-> ShownEntries(c),
      flags |-> row.flags \ IF a # 0 /\ appeals[a].status = "accepted" THEN appeals[a].dismissed ELSE {}]

(* _okk_from_rows, _counts_in_score *)
OkkFromRows(rows) ==
  LET counted == {r \in rows : r.qual}
      avg     == MeanOf(counted)
  IN [n |-> Cardinality(counted), percent |-> avg, zone |-> ZoneFor(avg), okk5 |-> Okk5(avg),
      zones |-> [z \in {"strong", "normal", "borderline", "risk"} |->
                   Cardinality({r \in counted : r.zone = z})]]

RowsOf(m) == {LatestRow(c) : c \in {x \in ScoredCalls : CallManager[x] = m}}
DeptRows(d) == {r \in {LatestRow(c) : c \in ScoredCalls} : r.dept = d}
CorrectedRows(rows) == {Corrected(r) : r \in rows}

Card(rows, meetings) == [okk |-> OkkFromRows(rows), meetings |-> MeetingsScore(meetings)]
Scorecard(m) == Card(CorrectedRows(RowsOf(m)), MeetingsInPeriod(m))
(* get_team_summary: the rollup of a department, and a card for each of its managers *)
TeamGroup(d) == Card(CorrectedRows(DeptRows(d)), DeptMeetings(d))
TeamRoster(d) ==
  [m \in {r.manager : r \in DeptRows(d) \cup DeptMeetings(d)} |->
     Card({r \in CorrectedRows(DeptRows(d)) : r.manager = m}, {r \in DeptMeetings(d) : r.manager = m})]

(* get_team_export: calls of the telemarketing department, meetings of another.   *)
(* The detail has a line per item, the summary one per name: "ID n" for a manager *)
(* without one.                                                                    *)
ExportName(m) == IF ManagerName[m] = None THEN m ELSE ManagerName[m]
(* _call_rows *)
ExportCalls(d) ==
  {[call |-> r.call, percent |-> r.percent, zone |-> r.zone, okk5 |-> IF r.qual THEN Okk5(r.percent) ELSE 0]
     : r \in CorrectedRows(DeptRows(d))}
CallSummary(d) ==
  [name \in {ExportName(r.manager) : r \in DeptRows(d)} |->
     OkkFromRows({r \in CorrectedRows(DeptRows(d)) : ExportName(r.manager) = name})]
(* _meeting_rows *)
ExportMeetings(d) == {MeetingItem(r) : r \in DeptMeetings(d)}
MeetingSummary(d) ==
  [name \in {ExportName(r.manager) : r \in DeptMeetings(d)} |->
     MeetingsScore({r \in DeptMeetings(d) : ExportName(r.manager) = name})]
ExportDetail(d) == IF d = TmDept THEN ExportCalls(d) ELSE ExportMeetings(d)
ExportSummary(d) == IF d = TmDept THEN CallSummary(d) ELSE MeetingSummary(d)

(* The model's verdict, appeals or not: get_score_trend over the period ...       *)
TrendPoint(m) == LET counted == {r \in RowsOf(m) : r.qual} IN SqlMean(SumOf(counted), Cardinality(counted))
(* ... and the twice-daily report (reporting/aggregate.py), a line per name, one of *)
(* them for all the calls whose manager has none.                                    *)
ReportName(m) == IF m = None THEN None ELSE ManagerName[m]
ReportRows == {r \in {LatestRow(c) : c \in ScoredCalls} : r.qual}
ReportLine(name) ==
  LET line == OkkFromRows({r \in ReportRows : ReportName(r.manager) = name})
  IN [n |-> line.n, percent |-> line.percent, zone |-> line.zone]
(* get_criteria_averages: marks and calls of an element *)
CriterionAverage(m, x) ==
  LET rated == {c \in ScoredCalls : CallManager[c] = m /\ score[c].qual /\ x \in DOMAIN score[c].entries}
  IN [calls |-> Cardinality(rated), marks |-> MapThenSumSet(LAMBDA c : score[c].entries[x].score, rated)]

(* _no_meeting_items: calls to a client, under a rubric that names the element, on *)
(* which it is failed; appeals or not.  Order and limit of the queue are left out.  *)
NoMeetingQueue(m) ==
  {c \in ScoredCalls : /\ CallManager[c] = m /\ score[c].target /\ IsBinary(score[c].entries)
                       /\ BookedElement \in DOMAIN score[c].entries
                       /\ score[c].entries[BookedElement].score = 0}

(* list_appeals, and the card of an appeal *)
AppealsListed(who) ==
  {i \in 1..Len(appeals) :
     IF who.role = "head" THEN who.dept \in {None, appeals[i].dept}
     ELSE CallManager[appeals[i].call] = who.manager}
AppealCard(i) ==
  LET entries == score[appeals[i].call].entries
  IN [original |-> score[appeals[i].call].percent, override |-> appeals[i].override,
      okk5 |-> Okk5(appeals[i].override), dismissed |-> appeals[i].dismissed,
      marks |-> [x \in appeals[i].disputed \cap DOMAIN entries |->
                   [score |-> entries[x].score, confirmed |-> x \in appeals[i].confirmed]]]

-----------------------------------------------------------------------------
(* Nothing corrects the score, or the appeal that does is also the latest one. *)
Undisturbed(c) ==
  /\ rival \cap {c} = {} /\ AppealsOf(c) \cap overlapped = {}
  /\ AcceptedOn(c) = {} \/ LastReviewed(AcceptedOn(c)) = LatestAppeal(c)

(* Of a screen of these people that goes by name, a line that is one manager's. *)
OwnLine(m, people, Name(_)) == m \in people /\ \A b \in people : Name(b) = Name(m) => b = m
OnExport(d) == {r.manager : r \in IF d = TmDept THEN DeptRows(d) ELSE DeptMeetings(d)}
OnReport == {r.manager : r \in ReportRows}
Uncorrected(m) == \A c \in ScoredCalls : CallManager[c] = m => CorrectingOn(c) = {}

(* models/appeal.py:11 "that corrected percent ... is what the companion read    *)
(* layer prefers over the LLM percent everywhere a score is shown", export.py:8  *)
(* "an exported percent equals the one the cabinet shows", okk.py "the bands     *)
(* align with the rubric zones": one call has one percent, zone and modifier on  *)
(* the feed, the CRM card, its feedback and the export, and its flags differ     *)
(* only while an appeal newer than the deciding one exists.  The card of a       *)
(* manager is the line of the team, if the meetings he uploaded are those of his *)
(* managers row, and the line of the export and, where no call of his is         *)
(* corrected, of the report, if the name on it is his alone; the trend then      *)
(* shows the same percent or, where the mean is halfway, a tenth more.  The      *)
(* feed of a manager is the newest of everything.  A team adds up by its         *)
(* managers, and, whoever shares a name, by the lines of its export.             *)
HeadlinesAgree ==
  /\ \A c \in ScoredCalls :
       LET item == FeedItem(Corrected(LatestRow(c)))
           full == Feedback(c)
       IN /\ item.percent = full.percent /\ item.zone = full.zone /\ item.okk5 = full.okk5
          /\ item.zone = ZoneFor(item.percent)
          /\ (item.okk5 >= 4 <=> item.zone = "strong") /\ (item.okk5 = 1 <=> item.zone = "risk")
          /\ Undisturbed(c) => item.flags = full.flags
          /\ \A who \in Identities : CanViewManager(who, CallManager[c]) =>
               item \in CardCalls(who, CallCard[c], FALSE)
          /\ DeptOf(CallManager[c]) = TmDept => \A e \in ExportDetail(TmDept) :
               e.call = c => e.percent = full.percent /\ e.zone = full.zone
  /\ ScoredCalls # {} => \A m \in Managers :
       LET card  == Scorecard(m)
           d     == DeptOf(m)
           all   == TimedCalls(m) \cup TimedMeetings(m)
           asUploaded == \A r \in MeetingRows : r.uploader = m <=> r.manager = m
       IN /\ d # None /\ m \in DOMAIN TeamRoster(d) =>
               card.okk = TeamRoster(d)[m].okk /\ (asUploaded => card = TeamRoster(d)[m])
          /\ d # None /\ OwnLine(m, OnExport(d), ExportName) =>
               IF d = TmDept THEN ExportSummary(d)[ExportName(m)] = card.okk
               ELSE asUploaded => ExportSummary(d)[ExportName(m)] = card.meetings
          /\ d \notin {None, TmDept} =>
               \A r \in MeetingsInPeriod(m) : r.manager = m => MeetingFeedback(r).item \in ExportDetail(d)
          /\ TimedCalls(m) # {} => UnifiedFeed(m, FeedLimit) = Newest(all, FeedLimit)
          /\ Uncorrected(m) => card.okk.percent \in {TrendPoint(m), TrendPoint(m) - 10}
          /\ Uncorrected(m) /\ OwnLine(m, OnReport, ReportName) =>
               ReportLine(ReportName(m)) =
                 [n |-> card.okk.n, percent |-> card.okk.percent, zone |-> card.okk.zone]
  /\ ScoredCalls # {} => \A d \in Depts :
       LET roster == TeamRoster(d)
           lines  == ExportSummary(d)
           Total(f) == SumFunctionOnSet(f, DOMAIN f)
       IN /\ TeamGroup(d).okk.n = Total([m \in DOMAIN roster |-> roster[m].okk.n])
          /\ TeamGroup(d).okk.zones["risk"] = Total([m \in DOMAIN roster |-> roster[m].okk.zones["risk"]])
          /\ TeamGroup(d).meetings.n = Total([m \in DOMAIN roster |-> roster[m].meetings.n])
          /\ TeamGroup(d).meetings.passed = Total([m \in DOMAIN roster |-> roster[m].meetings.passed])
          /\ Total([name \in DOMAIN lines |-> lines[name].n]) =
               IF d = TmDept THEN TeamGroup(d).okk.n ELSE TeamGroup(d).meetings.n

(* service.py:1088 "reflect that in the per-criterion breakdown so it stays      *)
(* consistent with the corrected headline percent": the elements shown on the    *)
(* feedback screen add up to the percent above them, for rubrics of either kind, *)
(* unless the call was scored again after the verdict, a later appeal is open or *)
(* was rejected, or requests crossed.  A call to a client whose feedback shows    *)
(* that no meeting was booked waits in the callback queue of its manager, and a   *)
(* call in the queue shows otherwise only once an appeal has confirmed it.        *)
BreakdownMatchesHeadline ==
  \A c \in ScoredCalls :
    LET full    == Feedback(c)
        applies == BookedElement \in DOMAIN full.entries /\ IsBinary(full.entries)
        queued  == c \in NoMeetingQueue(CallManager[c])
    IN /\ /\ Undisturbed(c)
          /\ CorrectingOn(c) # {} => appeals[LastReviewed(CorrectingOn(c))].basis = score[c]
          => AssembledPercent(full.entries) = full.percent
       /\ score[c].target /\ applies /\ full.entries[BookedElement].score = 0 => queued
       /\ queued /\ AcceptedOn(c) = {} => full.entries[BookedElement].score = 0
===============================================================================
