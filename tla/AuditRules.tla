-------------------------------- MODULE AuditRules --------------------------------
(***************************************************************************)
(* How the audit settles a close reason without the judge                  *)
(* (src/AtamuraOKK/audit): "duplicate" against the CRM (duplicates.py),    *)
(* "never reached" against the telephony (telephony.py), and the queue of  *)
(* findings a manager is shown (web/api/v1/day.py).  Operators over one    *)
(* state of the portal; AuditPass says when they are applied.              *)
(***************************************************************************)
EXTENDS Integers, Sequences, FiniteSetsExt, Functions

CONSTANTS
  Contacts, NoContact,
  Portals,       (* the states of the portal that are looked at *)
  MaxDupDeals,   (* audit_dup_max_deals *)
  MaxDials,      (* _MAX_ROWS of one number *)
  DayBuffer,     (* _CREATE_BUFFER, _CLOSE_BUFFER *)
  MonthSpan,     (* _MAX_WINDOW_DAYS *)
  MaxFindings    (* companion_day_audit_max_items *)

(* _resolve_targets: what a reason is checked against; the judge has the rest. *)
Route == [same |-> "crm", other |-> "crm", never |-> "telephony", robot |-> "telephony", price |-> "judge"]

(* Enough deals are read for another one to be among them beside the deal itself. *)
ASSUME RulesAssumption ==
  /\ MaxDupDeals \in Nat \ {0, 1} /\ {MaxDials, MaxFindings, DayBuffer, MonthSpan} \subseteq Nat \ {0}
  /\ NoContact \notin Contacts
  /\ \A p \in Portals :
       /\ p.deals \in Seq(Range(p.deals)) /\ p.dials \in Seq(Range(p.dials))
       /\ \A c \in Range(p.deals) : /\ c.contact \in Contacts \cup {NoContact} /\ c.reason \in DOMAIN Route
                                    /\ c.created \in Int /\ c.closed \in Int
       /\ \A r \in Range(p.dials) : r.at \in Int

(* book: the numbers on each contact's card; leads: the numbers leads carry;    *)
(* deals, in the order they were created: contact, project in the title ("none" *)
(* if it names none), tm (in the funnel), created, closed (CLOSEDATE), reason,  *)
(* who; dials, in the order they were made: number, at, answered.               *)
VARIABLE portal

RulesInit == portal \in Portals

AllDeals == 1..Len(portal.deals)
Card_(d) == portal.deals[d]
NumbersOf(d) == IF Card_(d).contact = NoContact THEN {} ELSE portal.book[Card_(d).contact]
(* What a list ordered by creation or by date keeps when it is cut at n items. *)
Oldest(S, n) == {x \in S : Cardinality({y \in S : y < x}) < n}
Latest(S, n) == {x \in S : Cardinality({y \in S : y > x}) < n}

-----------------------------------------------------------------------------
(* mutant: the contact itself is not among those searched *)
StrangersOnly(d) == {c \in Contacts \ {Card_(d).contact} : portal.book[c] \cap NumbersOf(d) # {}}

(* _duplicate_contact_ids *)
SharingContacts(d) == {Card_(d).contact} \cup {c \in Contacts : portal.book[c] \cap NumbersOf(d) # {}}

(* _deals_of_contacts: the oldest, as many as are read, without the deal itself. *)
OtherDeals(d) ==
  Oldest({e \in AllDeals : Card_(e).contact \in SharingContacts(d)}, MaxDupDeals) \ {d}

(* check_one of duplicates.py *)
DuplicateVerdict(d) ==
  IF NumbersOf(d) = {} THEN "not_determinable"
  ELSE IF OtherDeals(d) = {} /\ portal.leads \cap NumbersOf(d) = {} THEN "contradicted"
  ELSE "supported"

(* _subtype: which of the two "duplicate" reasons the projects speak for *)
ExpectedKind(d) ==
  LET theirs == {Card_(e).project : e \in {x \in OtherDeals(d) : Card_(x).tm}} \ {"none"}
  IN IF Card_(d).project = "none" \/ theirs = {} THEN "unresolved"
     ELSE IF Card_(d).project \in theirs THEN "same" ELSE "other"

-----------------------------------------------------------------------------
(* audit_window: a CLOSEDATE before the creation is a planned one. *)
AuditWindow(d) ==
  [from |-> Card_(d).created - DayBuffer,
   to   |-> IF Card_(d).closed > Card_(d).created THEN Card_(d).closed + DayBuffer
            ELSE Card_(d).created + MonthSpan]

(* _attempts_for_phone: the places of a number's rows in the window, the oldest. *)
Attempts(number, w) ==
  Oldest({i \in DOMAIN portal.dials : LET r == portal.dials[i]
                                      IN r.number = number /\ w.from <= r.at /\ r.at < w.to}, MaxDials)

(* check_one of telephony.py *)
ReachVerdict(d) ==
  IF NumbersOf(d) = {} THEN "not_determinable"
  ELSE IF \E n \in NumbersOf(d) : \E i \in Attempts(n, AuditWindow(d)) : portal.dials[i].answered
  THEN "contradicted"
  ELSE "supported"

-----------------------------------------------------------------------------
RuleVerdict(d) ==
  CASE Route[Card_(d).reason] = "crm" -> DuplicateVerdict(d)
    [] Route[Card_(d).reason] = "telephony" -> ReachVerdict(d)
    [] OTHER -> "none"

(* _audit_failed_items: the robot's dials are nobody's fault. *)
FindingsShown(m) ==
  Latest({d \in AllDeals : /\ Card_(d).who = m /\ Card_(d).reason # "robot"
                           /\ RuleVerdict(d) = "contradicted"}, MaxFindings)

-----------------------------------------------------------------------------
(* The other deals of the same person, by contact or by number. *)
Twins(d) ==
  {e \in AllDeals \ {d} : Card_(e).contact = Card_(d).contact \/ NumbersOf(e) \cap NumbersOf(d) # {}}
AnsweredTo(d) == {r \in Range(portal.dials) : r.answered /\ r.number \in NumbersOf(d)}

(* duplicates.py "the number carries no other deal and no lead", telephony.py    *)
(* "answered at least once in the deal's lifetime", day.py "the queue": a        *)
(* finding is shown to the manager who closed the deal, and it is true.  A       *)
(* "duplicate" is a finding exactly when no other deal and no lead is the same   *)
(* person's, although only the oldest deals are read and the deal itself is      *)
(* among them; of two deals that name a project and stand for each other, both   *)
(* are told the same kind.  A "never reached" is a finding exactly when a call   *)
(* was answered, however early the CLOSEDATE and unless the rows read were       *)
(* used up before it; and no finding is lost but to the limit of the queue.      *)
FindingsAreTrue ==
  /\ \A d \in {x \in AllDeals : NumbersOf(x) # {}} :
       /\ DuplicateVerdict(d) = "contradicted" <=> Twins(d) = {} /\ portal.leads \cap NumbersOf(d) = {}
       /\ \A e \in Twins(d) :
            /\ DuplicateVerdict(d) = "supported" /\ DuplicateVerdict(e) # "contradicted"
            /\ Twins(d) = {e} /\ Twins(e) = {d} /\ Card_(d).tm /\ Card_(e).tm
                 => ExpectedKind(d) = ExpectedKind(e)
       /\ \A r \in AnsweredTo(d) :
            /\ Card_(d).created - DayBuffer <= r.at
            /\ r.at <= Card_(d).closed \/ (Card_(d).closed <= Card_(d).created /\ r.at < Card_(d).created + MonthSpan)
            => \/ ReachVerdict(d) = "contradicted"
               \/ Cardinality({i \in DOMAIN portal.dials : portal.dials[i].number = r.number}) > MaxDials
       /\ ReachVerdict(d) = "contradicted" => AnsweredTo(d) # {}
  /\ \A m \in {Card_(d).who : d \in AllDeals} :
       LET shown == FindingsShown(m)
           due   == {d \in AllDeals : /\ Card_(d).who = m
                                      /\ \/ Card_(d).reason \in {"same", "other"} /\ DuplicateVerdict(d) = "contradicted"
                                         \/ Card_(d).reason = "never" /\ ReachVerdict(d) = "contradicted"}
       IN shown \subseteq due /\ Cardinality(shown) = Min({MaxFindings, Cardinality(due)})
===============================================================================
