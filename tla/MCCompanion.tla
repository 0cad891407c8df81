------------------------------- MODULE MCCompanion -------------------------------
(***************************************************************************)
(* The scores of calls and the cabinet that shows them.  The modules share *)
(* no state that another one changes, so their behaviours are explored     *)
(* side by side and not multiplied: an initial state picks a part, and     *)
(* only that part moves.                                                   *)
(***************************************************************************)
EXTENDS ScoreSettle, CabinetScreens, FunnelReads, ScreenCaches, AuditRules, TLC

CONSTANTS m1, m2, d1, d2, c1, c2, f1, x1, x2, reader1, reader2, job1, job2

VARIABLE part

companionVars == <<part, settleVars, accessVars, appealVars, portalVars, cacheVars, portal>>

MCBitrixDept == [m \in Managers |-> IF m = m1 THEN d1 ELSE None]
MCCallManager == [c \in Calls |-> IF c = c1 THEN m1 ELSE m2]
(* Two elements, the second in the objections block and the first one optional. *)
MCScorings ==
  {[answer |-> 1 :> "yes" @@ 2 :> "no", objections |-> TRUE, qual |-> TRUE, target |-> TRUE, flags |-> Flags],
   [answer |-> 1 :> "no", objections |-> FALSE, qual |-> FALSE, target |-> TRUE, flags |-> {}],
   [answer |-> 1 :> "na", objections |-> TRUE, qual |-> TRUE, target |-> TRUE, flags |-> {}]}
(* One point of sixteen: 6.25, halfway between two tenths. *)
MCOldEntries == 1 :> [score |-> 1, max |-> 5] @@ 2 :> [score |-> 0, max |-> 11]
MCCallCard == [c \in Calls |-> "deal"]
MCCardLinks == [k \in Cards |-> {}]
MCCallAt == [c \in Calls |-> IF c = c1 THEN 2 ELSE 1]
(* Two recordings of the telemarketing manager, one before and one after its call, the *)
(* later one no longer tied to a managers row, and of the other's an undated one.       *)
Recording(id, uploader, manager, at, percent, passed) ==
  [id |-> id, uploader |-> uploader, manager |-> manager, at |-> at, percent |-> percent,
   passed |-> passed, review |-> passed = "unknown"]
MCMeetingRows ==
  {Recording(1, m1, m1, 1, 9000, "yes"), Recording(2, m1, None, 3, NoPercent, "unknown"),
   Recording(3, m2, m2, 2, 6050, "no"), Recording(4, m2, m2, Undated, 7000, "yes"),
   Recording(5, None, None, 2, 5000, "no")}
(* Two people of one name. *)
MCManagerName == [m \in Managers |-> "aida"]
(* 6.25 is shown as 6.2 and 6.75 as 6.8: halves that are exact in binary go to even. *)
MCTieUp(rows) == (SumOf(rows) \div (10 * Cardinality(rows))) % 2 = 1

(* While appeals move, every manager is enriched and in a department. *)
Settled == [m \in Managers |-> [known |-> TRUE, dept |-> IF m = m1 THEN d1 ELSE d2, enriched |-> TRUE]]
(* The funnel starts with a deal somewhere in it, perhaps with a task, or with all   *)
(* deals at work and one edit left.                                                  *)
Begun ==
  \/ /\ edits = 0 /\ deals[1] # NoDeal /\ \A d \in DealIds \ {1} : deals[d] = NoDeal
     /\ \A a \in 1..Len(acts) : acts[a].due = 3
  \/ edits = MaxEdits - 1 /\ acts = << >> /\ \A d \in DealIds : deals[d] # NoDeal /\ ~deals[d].closed
Untouched == edits = 0 /\ acts = << >> /\ deals = [d \in DealIds |-> NoDeal]

(* Portals to audit: three deals of two people whose cards share numbers or not, or *)
(* one deal, dialled up to twice.                                                     *)
Lost(contact, project, tm, closed, reason) ==
  [contact |-> contact, project |-> project, tm |-> tm, created |-> 1, closed |-> closed, reason |-> reason, who |-> m1]
Empty == [book |-> [c \in Contacts |-> {}], leads |-> {}, deals |-> << >>, dials |-> << >>]
MCPortals ==
  {Empty}
    \cup {[book |-> [c \in Contacts |-> IF c = "anna" THEN own ELSE {"701"}], leads |-> leads, dials |-> << >>,
           deals |-> [i \in 1..3 |-> Lost(who[i], card[i][1], card[i][2], 2, reason)]] :
             own \in {{}, {"702"}, {"701", "702"}}, leads \in {{}, {"702"}}, reason \in {"same", "price"},
             who \in [1..3 -> {"anna", "berik", None}], card \in [1..3 -> {<<"keruen", TRUE>>, <<"aqsai", TRUE>>, <<"none", FALSE>>}]}
    \cup {[book |-> [c \in Contacts |-> IF c = "anna" THEN {"701", "702"} ELSE {}], leads |-> {},
           deals |-> <<Lost("anna", "none", TRUE, closed, reason)>>, dials |-> dials] :
             closed \in {0, 3}, reason \in {"never", "robot"},
             dials \in {s \in UNION {[1..k -> [number : {"701", "702"}, at : 0..5, answered : BOOLEAN]] : k \in 1..2} :
                         Len(s) = 2 => s[1].at <= s[2].at}}

Parts == {"settle", "access", "appeals", "funnel", "caches", "audit"}

CompanionInit ==
  /\ part \in Parts
  /\ SettleInit /\ (part # "settle" => transcript.right)
  /\ IF part = "access" THEN AccessInit /\ staff[m2].dept = d2 ELSE staff = Settled /\ AccessInit
  /\ AppealsInit /\ score[c2] = NoScore /\ (part # "appeals" => score[c1] = NoScore)
  /\ IF part = "funnel" THEN PortalInit /\ Begun ELSE Untouched /\ PortalInit
  /\ CachesInit
  /\ IF part = "audit" THEN RulesInit ELSE portal = Empty

CompanionNext ==
  /\ UNCHANGED <<part, portal>>
  /\ \/ part = "settle" /\ SettleNext /\ UNCHANGED <<accessVars, appealVars, portalVars, cacheVars>>
     \/ part = "access" /\ AccessNext /\ UNCHANGED <<settleVars, appealVars, portalVars, cacheVars>>
     \/ part = "appeals" /\ AppealsNext /\ UNCHANGED <<settleVars, accessVars, portalVars, cacheVars>>
     \/ part = "funnel" /\ PortalNext /\ UNCHANGED <<settleVars, accessVars, appealVars, cacheVars>>
     \/ part = "caches" /\ CachesNext /\ UNCHANGED <<settleVars, accessVars, appealVars, portalVars>>

CompanionSpec == CompanionInit /\ [][CompanionNext]_companionVars
Interchangeable == Permutations(Clients) \cup Permutations(Readers) \cup Permutations(ScoreJobs) \cup Permutations(Writers)
===============================================================================
