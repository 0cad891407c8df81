------------------------------- MODULE CabinetAccess -------------------------------
(***************************************************************************)
(* Who is who in the cabinet: the managers table, written by the Bitrix    *)
(* passes (ingestion/managers.py) and by key issuance                      *)
(* (web/api/v1/views.py, companion_users.py); the personal keys; and what  *)
(* an identity may see (web/api/v1/auth.py).  A write goes through the     *)
(* ORM: a transaction loads a row, and at its flush writes only the        *)
(* columns whose value differs from the copy it loaded.                    *)
(***************************************************************************)
EXTENDS Integers, Sequences

CONSTANTS
  Managers, Depts, None,
  BitrixDept,    (* the department user.get names for a manager, or None *)
  Writers,       (* transactions under way at once: Bitrix passes and issuing requests *)
  MaxKeys,       (* bound: keys ever issued *)
  MaxWrites      (* bound: transactions on the managers table *)

ASSUME AccessAssumption ==
  None \notin Managers \cup Depts /\ BitrixDept \in [Managers -> Depts \cup {None}]

VARIABLES
  staff,      (* managers rows: known, dept, enriched *)
  keys,       (* companion_users: role, manager, dept, active *)
  writer,     (* what each transaction is doing, with the copy it loaded *)
  writes,
  word,       (* ghost: the department the cabinet last gave a manager *)
  crossed     (* ghost: managers of whom two transactions were under way at once *)

accessVars == <<staff, keys, writer, writes, word, crossed>>

NoRow == [known |-> FALSE, dept |-> None, enriched |-> FALSE]
Resting == [job |-> "rest", manager |-> None, loaded |-> NoRow, dept |-> None, replaces |-> 0]

AccessInit ==
  /\ staff \in [Managers -> {NoRow} \cup [known : {TRUE}, dept : {None}, enriched : {FALSE}]
                              \cup [known : {TRUE}, dept : Depts, enriched : {TRUE}]]
  /\ keys = << >> /\ writer = [w \in Writers |-> Resting] /\ writes = 0
  /\ word = [m \in Managers |-> None] /\ crossed = {}

-----------------------------------------------------------------------------
(* Identities: the global head has no department; a manager only its own id. *)
GlobalHead == [role |-> "head", manager |-> None, dept |-> None]
HeadOf(d) == [role |-> "head", manager |-> None, dept |-> d]
ManagerSelf(m) == [role |-> "manager", manager |-> m, dept |-> None]
Identities == {GlobalHead} \cup {HeadOf(d) : d \in Depts} \cup {ManagerSelf(m) : m \in Managers}

(* get_companion_identity: the department of a key counts for heads only. *)
IdentityOf(key) ==
  [role |-> key.role, manager |-> key.manager,
   dept |-> IF key.role = "head" THEN key.dept ELSE None]

(* manager_department_bitrix_id; None is an unattributed item. *)
DeptOf(m) == IF m = None THEN None ELSE staff[m].dept

CanViewDept(who, d) == who.dept = None \/ d = who.dept
CanViewManager(who, m) ==
  IF who.role = "head" THEN CanViewDept(who, DeptOf(m)) ELSE m # None /\ m = who.manager
(* mutant: the card of a client is open to every head *)
AnyHeadsCard(who, m) ==
  IF who.role = "head" THEN TRUE ELSE m # None /\ m = who.manager

(* _can_view_call_row, the filter of the CRM feed *)
CanViewCallRow(who, m) ==
  IF who.role = "head" THEN CanViewDept(who, DeptOf(m)) ELSE m # None /\ m = who.manager

(* ensure_head, then get_team_summary *)
MayOpenTeam(who, d) == who.role = "head" /\ who.dept \in {None, d}
Roster(who) == {m \in Managers : staff[m].known /\ (who.dept = None \/ staff[m].dept = who.dept)}

(* Whose pages answer a session: the scores of a manager with a row, the live pages *)
(* of any Bitrix user, the feedback on an item (None: nobody's), a team's pages.     *)
ScoredPages(who) == {m \in Managers : staff[m].known /\ CanViewManager(who, m)}
LivePages(who) == {m \in Managers : CanViewManager(who, m)}
FeedbackPages(who) == {m \in Managers \cup {None} : CanViewManager(who, m)}
TeamPages(who, d) ==
  IF MayOpenTeam(who, d) THEN {m \in Managers : staff[m].known /\ staff[m].dept = d} ELSE {}

(* me: the department the cabinet opens on *)
MyDept(who) == IF who.dept # None THEN who.dept ELSE DeptOf(who.manager)

(* list_companion_users and revoke_companion_user *)
Administers(who, i) ==
  \/ who.dept = None
  \/ keys[i].role = "manager" /\ keys[i].manager # None /\ staff[keys[i].manager].dept = who.dept
MayRevoke(who, i) ==
  IF who.dept = None THEN keys[i].role = "manager" \/ keys[i].dept # None
  ELSE keys[i].role = "manager" /\ CanViewDept(who, DeptOf(keys[i].manager))

-----------------------------------------------------------------------------
(* A transaction of writer w begins on the row of m. *)
Begins(w, m, job, dept, replaces) ==
  /\ writer[w].job = "rest" /\ writes < MaxWrites
  /\ writer' = [writer EXCEPT ![w] = [job |-> job, manager |-> m, loaded |-> staff[m],
                                      dept |-> dept, replaces |-> replaces]]
  /\ writes' = writes + 1
  /\ crossed' = IF \E o \in Writers \ {w} : writer[o].job # "rest" /\ writer[o].manager = m
                THEN crossed \cup {m} ELSE crossed

(* mutant: a pass takes Bitrix's word for every manager *)
EnrichAlways(w, m) ==
  /\ Begins(w, m, "enrich", BitrixDept[m], 0)
  /\ UNCHANGED <<staff, keys, word>>

(* ensure_managers, until it waits for user.get: rows not yet enriched. *)
EnrichReads(w, m) ==
  /\ ~staff[m].enriched
  /\ Begins(w, m, "enrich", BitrixDept[m], 0)
  /\ UNCHANGED <<staff, keys, word>>

(* create_companion_key by the head of d, until the name of m is known. *)
IssueReads(w, m, d) ==
  /\ Begins(w, m, "assign", d, 0)
  /\ UNCHANGED <<staff, keys, word>>

ActiveCodes(role, m, d) ==
  {i \in 1..Len(keys) : /\ keys[i].active /\ keys[i].role = role
                        /\ IF role = "head" THEN keys[i].dept = d ELSE keys[i].manager = m}

(* import-roster for a staffer of d: a holder of a code is skipped, or loses one. *)
ImportReads(w, m, d) ==
  /\ \/ ActiveCodes("manager", m, d) = {} /\ Begins(w, m, "assign", d, 0)
     \/ \E i \in ActiveCodes("manager", m, d) : Begins(w, m, "assign", d, i)
  /\ UNCHANGED <<staff, keys, word>>

(* The columns that differ from the loaded copy are written over the current row. *)
Merged(loaded, current, dept) ==
  [known |-> TRUE,
   dept |-> IF dept # None /\ dept # loaded.dept THEN dept ELSE current.dept,
   enriched |-> current.enriched \/ ~loaded.enriched]

(* Two inserts of one manager: the second breaks the unique constraint. *)
InsertCollides(w) == ~writer[w].loaded.known /\ staff[writer[w].manager].known

EnrichWrites(w) ==
  /\ writer[w].job = "enrich" /\ ~InsertCollides(w)
  /\ staff' = [staff EXCEPT ![writer[w].manager] = Merged(writer[w].loaded, @, writer[w].dept)]
  /\ writer' = [writer EXCEPT ![w] = Resting]
  /\ UNCHANGED <<keys, writes, word, crossed>>

(* Without the user scope only the bare row is created. *)
EnrichDegrades(w) ==
  /\ writer[w].job = "enrich" /\ ~InsertCollides(w)
  /\ staff' = [staff EXCEPT ![writer[w].manager].known = TRUE]
  /\ writer' = [writer EXCEPT ![w] = Resting]
  /\ UNCHANGED <<keys, writes, word, crossed>>

WithKey(old, role, m, d) ==
  Append([i \in 1..Len(old) |-> old[i]], [role |-> role, manager |-> m, dept |-> d, active |-> TRUE])

(* assign_manager_department and the key itself, one transaction. *)
AssignWrites(w) ==
  /\ writer[w].job = "assign" /\ ~InsertCollides(w) /\ Len(keys) < MaxKeys
  /\ staff' = [staff EXCEPT ![writer[w].manager] = Merged(writer[w].loaded, @, writer[w].dept)]
  /\ word' = [word EXCEPT ![writer[w].manager] = writer[w].dept]
  /\ keys' = WithKey([i \in 1..Len(keys) |->
                        IF i = writer[w].replaces THEN [keys[i] EXCEPT !.active = FALSE] ELSE keys[i]],
                     "manager", writer[w].manager, None)
  /\ writer' = [writer EXCEPT ![w] = Resting]
  /\ UNCHANGED <<writes, crossed>>

WriterFails(w) ==
  /\ writer[w].job # "rest"
  /\ writer' = [writer EXCEPT ![w] = Resting]
  /\ UNCHANGED <<staff, keys, writes, word, crossed>>

(* The global head mints a head of a department, or a manager's key without one. *)
GlobalHeadIssues ==
  /\ Len(keys) < MaxKeys
  /\ \/ \E d \in Depts : keys' = WithKey(keys, "head", None, d)
     \/ \E m \in Managers : keys' = WithKey(keys, "manager", m, None)
  /\ UNCHANGED <<staff, writer, writes, word, crossed>>

(* Only the command line makes a global head, and gives a revoked key back. *)
CommandLine ==
  /\ \/ Len(keys) < MaxKeys /\ keys' = WithKey(keys, "head", None, None)
     \/ \E i \in 1..Len(keys) : keys' = [keys EXCEPT ![i].active = ~@]
  /\ UNCHANGED <<staff, writer, writes, word, crossed>>

(* Whoever holds the static head key, or a key that is active. *)
Sessions == {GlobalHead} \cup {IdentityOf(keys[i]) : i \in {k \in 1..Len(keys) : keys[k].active}}

Revokes(who, i) ==
  /\ who.role = "head" /\ MayRevoke(who, i) /\ keys[i].active
  /\ keys' = [keys EXCEPT ![i].active = FALSE]
  /\ UNCHANGED <<staff, writer, writes, word, crossed>>

AccessNext ==
  \/ \E w \in Writers, m \in Managers :
       EnrichReads(w, m) \/ \E d \in Depts : IssueReads(w, m, d) \/ ImportReads(w, m, d)
  \/ \E w \in Writers :
       EnrichWrites(w) \/ EnrichDegrades(w) \/ AssignWrites(w) \/ WriterFails(w)
  \/ GlobalHeadIssues \/ CommandLine
  \/ \E who \in Sessions, i \in 1..Len(keys) : Revokes(who, i)

AccessSpec == AccessInit /\ [][AccessNext]_accessVars

-----------------------------------------------------------------------------
(* service.py:457 "the cabinet's word over Bitrix's ... so ingestion never       *)
(* re-derives the department": the department a head gave a manager by issuing   *)
(* a key is the one the manager is listed under, however many passes enrich      *)
(* managers since.  The exception is a manager of whom a pass and a request, or  *)
(* two requests, had both loaded the row before either wrote it.                 *)
CabinetWins ==
  \A m \in Managers \ crossed : word[m] # None => staff[m].dept = word[m] /\ staff[m].enriched

(* One rule of scope, written at every endpoint: whoever may open a call through *)
(* its manager sees it on the CRM card and the other way round; the head of a    *)
(* department finds exactly its managers on the roster and on its team's pages,  *)
(* none of them without pages of its own; nobody but the global head sees an     *)
(* item nobody owns; the department a session opens on is one whose head sees    *)
(* it; and a head administers exactly the keys it may revoke (a global head also *)
(* lists the heads it may not).                                                  *)
OneScopeRule ==
  \A who \in Identities :
    /\ \A m \in Managers \cup {None} : CanViewManager(who, m) <=> CanViewCallRow(who, m)
    /\ None \in FeedbackPages(who) <=> who = GlobalHead
    /\ UNION {TeamPages(who, d) : d \in Depts} =
         {m \in ScoredPages(who) : who.role = "head" /\ staff[m].dept # None}
    /\ MyDept(who) # None => FeedbackPages(who) \subseteq LivePages(HeadOf(MyDept(who)))
    /\ who.role = "head" =>
         /\ \A m \in Managers : staff[m].known => (CanViewManager(who, m) <=> m \in Roster(who))
         /\ \A i \in 1..Len(keys) :
              MayRevoke(who, i) <=> Administers(who, i) /\ ~(keys[i].role = "head" /\ keys[i].dept = None)
===============================================================================
