---------------------------------- MODULE Appeals ----------------------------------
(***************************************************************************)
(* Appeals against a call's score (web/api/v1/views.py file_call_appeal    *)
(* and review_appeal, web/api/v1/service.py).  A manager contests elements *)
(* of a call; a head confirms some of them; the corrected percent then     *)
(* stands before the model's wherever the cabinet shows the call.          *)
(* Requests run at once, the scorer may score the call again under them,   *)
(* and a review writes only the columns that differ from what it loaded.   *)
(***************************************************************************)
EXTENDS OkkScale, CabinetAccess

CONSTANTS
  Calls,
  CallManager,     (* the manager of each call *)
  Flags,           (* red flags *)
  Scorings,        (* what the scorer may return: answer (element -> "yes", "no", "na"),
                      objections, qual (a qualification call),
                      target (a client was on the line), flags *)
  OldEntries,      (* the elements of a call scored under a weighted rubric *)
  Clients,         (* request slots *)
  MaxRequests,     (* bound: filings and reviews begun *)
  MaxScorings      (* bound: scorings after the first *)

ASSUME AppealsAssumption == IsFiniteSet(Criteria) /\ WellMarked(OldEntries)

VARIABLES
  score,       (* the latest score of each call, or NoScore *)
  appeals,     (* the appeals table; the id of a row is its place *)
  request,     (* the request each client has under way *)
  begun,       (* requests begun: the clock of created_at *)
  scorings,
  rival,       (* ghost: calls with two filings under way at once *)
  overlapped   (* ghost: appeals with two reviews under way at once *)

appealVars == <<score, appeals, request, begun, scorings, rival, overlapped>>

NoScore == [entries |-> << >>, percent |-> NoPercent, zone |-> "none", qual |-> FALSE,
            target |-> FALSE, flags |-> {}]
Idle == [kind |-> "none"]

(* The row a scoring writes; a call the scorer left an element out of has none. *)
ScoreRow(entries, qual, target, flags) ==
  [entries |-> entries, percent |-> AssembledPercent(entries),
   zone |-> ZoneFor(AssembledPercent(entries)), qual |-> qual, target |-> target, flags |-> flags]

NewScores ==
  {ScoreRow(PerCriterion(x.answer, x.objections), x.qual, x.target, x.flags) :
     x \in {s \in Scorings : Omitted(s.answer, s.objections) = {}}}

AppealsInit ==
  /\ score \in [Calls -> {NoScore, ScoreRow(OldEntries, TRUE, TRUE, Flags)}]
  /\ appeals = << >> /\ request = [r \in Clients |-> Idle]
  /\ begun = 0 /\ scorings = 0 /\ rival = {} /\ overlapped = {}

CallScored(c) ==
  /\ scorings < MaxScorings
  /\ \E row \in NewScores : score' = [score EXCEPT ![c] = row]
  /\ scorings' = scorings + 1
  /\ UNCHANGED <<appeals, request, begun, rival, overlapped>>

-----------------------------------------------------------------------------
AppealsOf(c) == {i \in 1..Len(appeals) : appeals[i].call = c}
PendingOn(c) == {i \in AppealsOf(c) : appeals[i].status = "pending"}

(* mutant: the check asks for a status no row has *)
NeverOpen(c) == {i \in AppealsOf(c) : appeals[i].status = "open"} # {}

(* get_open_appeal_for_call *)
OpenAppeal(c) == PendingOn(c) # {}

(* file_call_appeal up to its insert: 404, 403, 409, 422. *)
FileChecks(r, who, c, disputed) ==
  /\ request[r] = Idle /\ begun < MaxRequests
  /\ score[c] # NoScore
  /\ who.role = "manager" /\ who.manager = CallManager[c]
  /\ ~OpenAppeal(c)
  /\ disputed \subseteq DOMAIN score[c].entries
  /\ begun' = begun + 1
  /\ request' = [request EXCEPT ![r] = [kind |-> "file", call |-> c, disputed |-> disputed,
                                        dept |-> DeptOf(CallManager[c]), at |-> begun + 1]]
  /\ rival' = IF \E o \in Clients \ {r} : request[o].kind = "file" /\ request[o].call = c
              THEN rival \cup {c} ELSE rival
  /\ UNCHANGED <<score, appeals, scorings, overlapped>>

FileInserts(r) ==
  /\ request[r].kind = "file"
  /\ appeals' = Append(appeals,
       [call |-> request[r].call, disputed |-> request[r].disputed, dept |-> request[r].dept,
        created |-> request[r].at, status |-> "pending", confirmed |-> {}, override |-> NoPercent,
        dismissed |-> {}, reviewed |-> 0, basis |-> NoScore])
  /\ request' = [request EXCEPT ![r] = Idle]
  /\ UNCHANGED <<score, begun, scorings, rival, overlapped>>

-----------------------------------------------------------------------------
(* review_appeal of views.py: any appeal of the head's scope, of whatever status. *)
ReviewLoads(r, who, a, confirmed, dismissed) ==
  /\ request[r] = Idle /\ begun < MaxRequests
  /\ who.role = "head" /\ who.dept \in {None, appeals[a].dept}
  /\ confirmed \subseteq appeals[a].disputed
  /\ begun' = begun + 1
  /\ request' = [request EXCEPT ![r] = [kind |-> "review", appeal |-> a, loaded |-> appeals[a],
                                        confirmed |-> confirmed, dismissed |-> dismissed]]
  /\ overlapped' = IF \E o \in Clients \ {r} : request[o].kind = "review" /\ request[o].appeal = a
                   THEN overlapped \cup {a} ELSE overlapped
  /\ UNCHANGED <<score, appeals, scorings, rival>>

(* mutant: a rejection leaves the old correction in place *)
VerdictKept(row, entries, confirmed, dismissed) ==
  [row EXCEPT !.confirmed = confirmed,
              !.status = IF confirmed = {} THEN "rejected" ELSE "accepted",
              !.override = IF confirmed = {} THEN @ ELSE RecomputedPercent(entries, confirmed),
              !.dismissed = IF confirmed = {} THEN {} ELSE dismissed]

(* review_appeal of service.py, on the elements as they are scored now. *)
Verdict(row, entries, confirmed, dismissed) ==
  [row EXCEPT !.confirmed = confirmed,
              !.status = IF confirmed = {} THEN "rejected" ELSE "accepted",
              !.override = IF confirmed = {} THEN NoPercent ELSE RecomputedPercent(entries, confirmed),
              !.dismissed = IF confirmed = {} THEN {} ELSE dismissed]

(* The flush of the ORM: only what differs from the loaded copy. *)
Flushed(current, loaded, new) ==
  [f \in DOMAIN current |-> IF new[f] # loaded[f] THEN new[f] ELSE current[f]]

(* reviewed_at: when the verdict was given; 0 for a row never reviewed *)
NextReview == 1 + Max({0} \cup {appeals[i].reviewed : i \in 1..Len(appeals)})

ReviewWrites(r) ==
  /\ request[r].kind = "review"
  /\ LET a   == request[r].appeal
         new == Verdict(request[r].loaded, score[appeals[a].call].entries,
                        request[r].confirmed, request[r].dismissed)
     IN appeals' = [appeals EXCEPT ![a] =
                      [Flushed(@, request[r].loaded, new)
                        EXCEPT !.reviewed = NextReview, !.basis = score[appeals[a].call]]]
  /\ request' = [request EXCEPT ![r] = Idle]
  /\ UNCHANGED <<score, begun, scorings, rival, overlapped>>

RequestFails(r) ==
  /\ request[r] # Idle /\ request' = [request EXCEPT ![r] = Idle]
  /\ UNCHANGED <<score, appeals, begun, scorings, rival, overlapped>>

AppealsNext ==
  \/ \E c \in Calls : CallScored(c)
  \/ \E r \in Clients : FileInserts(r) \/ ReviewWrites(r) \/ RequestFails(r)
  \/ \E r \in Clients, who \in Identities, c \in Calls :
       \E disputed \in SUBSET DOMAIN score[c].entries : FileChecks(r, who, c, disputed)
  \/ \E r \in Clients, who \in Identities, a \in 1..Len(appeals) :
       \E confirmed \in SUBSET appeals[a].disputed, dismissed \in {{}, Flags} :
          ReviewLoads(r, who, a, confirmed, dismissed)

AppealsSpec == AppealsInit /\ [][AppealsNext]_appealVars

-----------------------------------------------------------------------------
(* docs/companion-api and file_call_appeal: "One pending appeal per call - a     *)
(* duplicate returns 409".  A call never has two appeals awaiting a head, unless *)
(* two filings were both past the check before either was inserted.              *)
OnePendingAppeal ==
  \A c \in Calls \ rival : Cardinality(PendingOn(c)) <= 1

(* "Confirming nothing is a rejection" and "a confirmation can only raise the    *)
(* percent": an appeal is accepted exactly when an element is confirmed and a    *)
(* corrected percent stands on it, the percent is no lower than that of the      *)
(* score it was decided on, and a rejected one keeps neither percent nor         *)
(* dismissed flags, through every second and third review.  Two reviews of one   *)
(* appeal under way at once can still mix their columns.                         *)
VerdictWhole ==
  \A a \in 1..Len(appeals) \ overlapped :
    LET row == appeals[a]
    IN /\ row.status = "accepted" <=> row.confirmed # {}
       /\ row.status = "accepted" <=> row.override # NoPercent
       /\ row.status = "accepted" => row.override >= row.basis.percent
       /\ row.status # "accepted" => row.dismissed = {}
===============================================================================
