---------------------------- MODULE Requalification ---------------------------
(***************************************************************************)
(* refresh_qualification beside the pipeline.  The pass is its own cron,   *)
(* concurrent with dispatch ticks and jobs: it loads the unclaimed NEW     *)
(* rows, spends minutes asking Bitrix about their clients, then applies    *)
(* the scope rule to the rows as it loaded them and commits by primary key.*)
(***************************************************************************)
EXTENDS CallPipeline

VARIABLES
  loaded,    (* the rows a running pass holds in memory, all NEW there         *)
  flagged    (* those of them it loaded with the analyzable flag               *)

rvars == <<vars, loaded, flagged>>

(* Which rows: those with no qualification known yet, within the window. *)
RequalifyLoads ==
  \E rows \in SUBSET {c \in Calls : status[c] = "NEW" /\ claimAge[c] = NoClaim} :
    /\ loaded = {} /\ rows # {}
    /\ loaded' = rows
    /\ flagged' = rows \cap analyzable
    /\ UNCHANGED vars

(***************************************************************************)
(* _apply_scope on the loaded rows.  Each is NEW in memory, so its guard   *)
(* lets every one through; the rows that started after the qualification   *)
(* become SKIPPED and lose the flag, the others get the flag and keep NEW. *)
(* The ORM writes the columns that differ from what it loaded, and those   *)
(* alone: a flag that was so already, like the NEW of a kept row, is not.  *)
(***************************************************************************)
RequalifyWrites ==
  /\ loaded # {}
  /\ \E qualifiedBefore \in SUBSET loaded :
       /\ status' = [c \in Calls |-> IF c \in qualifiedBefore THEN "SKIPPED" ELSE status[c]]
       /\ analyzable' = (analyzable \ (qualifiedBefore \cap flagged))
                          \cup ((loaded \ qualifiedBefore) \ flagged)
       /\ olderFailed' = Unfiled(qualifiedBefore)
  /\ loaded' = {} /\ flagged' = {}
  /\ UNCHANGED <<claimAge, attempts, artifacts, today, broker, job, retryPlan, losses>>

RInit == Init /\ loaded = {} /\ flagged = {}
RNext == (Next /\ UNCHANGED <<loaded, flagged>>) \/ RequalifyLoads \/ RequalifyWrites
RSpec == RInit /\ [][RNext]_rvars

RTypeOK == TypeOK /\ loaded \in SUBSET Calls /\ flagged \in SUBSET loaded

(***************************************************************************)
(* "Never demotes a call that already moved past NEW": a row leaves the    *)
(* scope only from NEW or SKIPPED.                                         *)
(***************************************************************************)
NeverDemoted ==
  [][\A c \in Calls : status'[c] = "SKIPPED" => status[c] \in {"NEW", "SKIPPED"}]_rvars
===============================================================================
