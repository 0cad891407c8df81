------------------------------- MODULE BitrixFunnel -------------------------------
(***************************************************************************)
(* The telemarketing funnel in Bitrix, as the live screens of the cabinet  *)
(* read it: deals and their stage history, activities, telephony and       *)
(* timeline comments, all changed by people and by the portal at any time. *)
(* Modelled from what web/api/v1/day.py, hygiene.py and analytics.py ask   *)
(* of it and say about it; the portal itself is external.                  *)
(***************************************************************************)
EXTENDS Integers, Sequences, FiniteSets

CONSTANTS
  Sellers,       (* the managers of the telemarketing department *)
  Unset,         (* an empty field *)
  Closer,        (* the sales closer a visited deal is handed to *)
  DealIds,
  StagesUsed,    (* the stages deals are moved to *)
  Dues,          (* deadlines of activities; NoDue is Bitrix's zero date *)
  DayLength,     (* instants in a day *)
  LastInstant,   (* bound: the clock *)
  MaxEdits       (* bound: changes made in Bitrix *)

ASSUME FunnelAssumption ==
  /\ DealIds \subseteq Nat /\ IsFiniteSet(DealIds) /\ StagesUsed \subseteq STRING
  /\ Dues \subseteq Int /\ DayLength \in Nat \ {0}

VARIABLES
  now,
  deals,      (* deal -> its card, or NoDeal *)
  trail,      (* crm.stagehistory: entries into a stage *)
  acts,       (* crm.activity: tasks, planned calls and telephony's own log *)
  comments,   (* timeline comments *)
  edits

portalVars == <<now, deals, trail, acts, comments, edits>>

NoDue == -1
NoDeal == [stage |-> "none"]

NewDeal(m) ==
  [stage |-> "NEW", owner |-> m, tm |-> Unset, sales |-> FALSE, closed |-> FALSE, sem |-> "P",
   created |-> now, closedAt |-> NoDue, touched |-> now, filled |-> FALSE, reason |-> Unset]
Moved(card, stage, filled) == [card EXCEPT !.stage = stage, !.touched = now, !.filled = @ \/ filled]
Visited(card, m) ==
  [card EXCEPT !.stage = "VISIT", !.sem = "S", !.closed = TRUE, !.tm = m, !.touched = now]
NewAct(m, d, kind, due) ==
  [who |-> m, deal |-> d, kind |-> kind, born |-> now, due |-> due,
   done |-> FALSE, updated |-> now, answered |-> FALSE]

(* Deals moved before the first instant: their old entries are in no window. *)
OldCards ==
  UNION {{NewDeal(m), Visited(NewDeal(m), m)} \cup {Moved(NewDeal(m), stage, FALSE) : stage \in StagesUsed} :
           m \in Sellers}

PortalInit ==
  /\ now = 0
  /\ deals \in [DealIds -> {NoDeal} \cup OldCards]
  /\ \/ acts = << >>
     \/ \E d \in {x \in DealIds : deals[x] # NoDeal}, due \in Dues :
          acts = <<NewAct(deals[d].owner, d, "task", due)>>
  /\ trail = {} /\ comments = {} /\ edits \in 0..MaxEdits

Edit == edits < MaxEdits /\ edits' = edits + 1
Enters(d, stage) == trail' = trail \cup {[deal |-> d, stage |-> stage, at |-> now]}
OwnDeals(m) == {d \in DealIds : deals[d] # NoDeal /\ deals[d].owner = m /\ ~deals[d].sales /\ ~deals[d].closed}

(* Ids grow. *)
OpenDeal(d, m) ==
  /\ Edit /\ deals[d] = NoDeal /\ \A e \in 1..(d - 1) : deals[e] # NoDeal
  /\ deals' = [deals EXCEPT ![d] = NewDeal(m)] /\ Enters(d, "NEW")
  /\ UNCHANGED <<now, acts, comments>>

(* The TM works the card; qualifying may come with the questionnaire filled. *)
MoveDeal(m, d, stage, filled) ==
  /\ Edit /\ d \in OwnDeals(m) /\ (filled => stage \in {"QUALIFIED", "BOOKED"})
  /\ deals' = [deals EXCEPT ![d] = Moved(@, stage, filled)]
  /\ Enters(d, stage)
  /\ UNCHANGED <<now, acts, comments>>

(* The visit: won for the TM, whose name stays in the employee field ... *)
VisitDeal(m, d) ==
  /\ Edit /\ d \in OwnDeals(m)
  /\ deals' = [deals EXCEPT ![d] = Visited(@, m)]
  /\ Enters(d, "VISIT")
  /\ UNCHANGED <<now, acts, comments>>

(* ... and handed over to the sales funnel and its closer, who may sell. *)
HandOver(d) ==
  /\ Edit /\ deals[d].stage = "VISIT"
  /\ deals' = [deals EXCEPT ![d] = [@ EXCEPT !.stage = "SALES", !.sem = "P", !.closed = FALSE,
                                            !.sales = TRUE, !.owner = Closer]]
  /\ UNCHANGED <<now, trail, acts, comments>>
SellDeal(d) ==
  /\ Edit /\ deals[d].stage = "SALES"
  /\ deals' = [deals EXCEPT ![d] = [@ EXCEPT !.stage = "SOLD", !.sem = "S", !.closed = TRUE]]
  /\ Enters(d, "SOLD")
  /\ UNCHANGED <<now, acts, comments>>

LoseDeal(m, d, reason) ==
  /\ Edit /\ d \in OwnDeals(m)
  /\ deals' = [deals EXCEPT ![d] = [@ EXCEPT !.stage = "LOST", !.sem = "F", !.closed = TRUE,
                                            !.closedAt = now, !.reason = reason]]
  /\ Enters(d, "LOST")
  /\ UNCHANGED <<now, acts, comments>>

PlanAct(m, d, kind, due) ==
  /\ Edit /\ d \in OwnDeals(m)
  /\ acts' = Append(acts, NewAct(m, d, kind, due))
  /\ UNCHANGED <<now, deals, trail, comments>>
FinishAct(a) ==
  /\ Edit /\ ~acts[a].done
  /\ acts' = [acts EXCEPT ![a] = [@ EXCEPT !.done = TRUE, !.updated = now]]
  /\ UNCHANGED <<now, deals, trail, comments>>
MoveAct(a, due) ==
  /\ Edit /\ ~acts[a].done
  /\ acts' = [acts EXCEPT ![a] = [@ EXCEPT !.due = due, !.updated = now]]
  /\ UNCHANGED <<now, deals, trail, comments>>

(* Telephony logs every call as a completed activity of its own. *)
Dial(m, d, answered) ==
  /\ Edit /\ d \in OwnDeals(m)
  /\ acts' = Append(acts, [NewAct(m, d, "logged", now) EXCEPT !.done = TRUE, !.answered = answered])
  /\ UNCHANGED <<now, deals, trail, comments>>

(* A note, or a picture the messenger integration posts under somebody's name. *)
WriteComment(m, d, text) ==
  /\ Edit /\ deals[d] # NoDeal
  /\ comments' = comments \cup {[deal |-> d, author |-> m, at |-> now, text |-> text]}
  /\ UNCHANGED <<now, deals, trail, acts>>

ClockTicks == now < LastInstant /\ now' = now + 1 /\ UNCHANGED <<deals, trail, acts, comments, edits>>

PortalNext ==
  \/ ClockTicks
  \/ \E d \in DealIds : HandOver(d) \/ SellDeal(d)
  \/ \E m \in Sellers, d \in DealIds :
       \/ OpenDeal(d, m) \/ VisitDeal(m, d)
       \/ \E stage \in StagesUsed, filled \in BOOLEAN : MoveDeal(m, d, stage, filled)
       \/ \E reason \in {Unset, "price"} : LoseDeal(m, d, reason)
       \/ \E kind \in {"task", "call"}, due \in Dues : PlanAct(m, d, kind, due)
       \/ \E answered \in BOOLEAN : Dial(m, d, answered)
       \/ \E text \in {"note", "picture"} : WriteComment(m, d, text)
  \/ \E a \in 1..Len(acts) : FinishAct(a) \/ \E due \in Dues : MoveAct(a, due)

PortalSpec == PortalInit /\ [][PortalNext]_portalVars
===============================================================================
