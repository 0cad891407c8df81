------------------------------ MODULE MCIngestion ------------------------------
(* Calls of one client, listed and recorded late or never kept, and an overlap   *)
(* that covers exactly the longest delay and pass.  Three kinds of world: a day   *)
(* of three calls, a morning of three, and a backlog of four that the limit cuts  *)
(* over several passes.                                                           *)
EXTENDS Ingestion, TLC

OneClient == [c \in 1..NCalls |-> "k"]
Symmetry == Permutations(Passes)

ASSUME OverlapAssumption == OverlapCovers

First == 1 .. NCalls - 1
Late == {c \in First : listedAt[c] # start[c] \/ recordedAt[c] \notin {start[c], Never}}

(* The last call of a day or a morning begins after the horizon and is not seen. *)
Short == start[NCalls] = LastStart

(* For the cursor: calls begin close together or more than an overlap apart; one of the  *)
(* three is listed late, recorded late or never kept.  No client qualifies.          *)
DayInit ==
  /\ start \in {<<0, s, t, LastStart>> : s \in {0, 1, 5}, t \in {0, 1, 5}}
  /\ listedAt \in {[start EXCEPT ![c] = @ + d] : c \in First, d \in {0, MaxDelay}}
  /\ recordedAt \in {[listedAt EXCEPT ![NCalls] = Never]}
                   \cup {[listedAt EXCEPT ![c] = Never, ![NCalls] = Never] : c \in First}
                   \cup {[listedAt EXCEPT ![c] = start[c] + MaxDelay, ![NCalls] = Never] : c \in First}
  /\ Cardinality(Late) + Cardinality(First \ Kept) <= 1
  /\ qualifiedAt = [k \in Clients |-> Never]

(* For the scope: the first calls after a quiet night, one as far back as the overlap *)
(* reaches and perhaps not kept, one listed on time or late, one beside it or after   *)
(* the client has qualified.  Or two that begin together, one recorded late, one not  *)
(* kept, and one after the client has qualified.                                      *)
MorningInit ==
  /\ \/ /\ start \in {<<0, 5, 5, LastStart>>, <<0, 5, 7, LastStart>>}
        /\ listedAt \in {start, [start EXCEPT ![2] = @ + 1]}
        /\ recordedAt \in {[listedAt EXCEPT ![NCalls] = Never],
                            [listedAt EXCEPT ![1] = Never, ![NCalls] = Never]}
     \/ start = <<4, 4, 7, LastStart>> /\ listedAt = start /\ recordedAt = <<5, Never, 7, Never>>
  /\ qualifiedAt \in [Clients -> {4, 6}]

(* For the limit: a backlog of calls more than an overlap apart, or the last two close *)
(* together, that takes three passes of two rows; one call may be recorded late or     *)
(* never be kept.  No pass begins before the third call.                               *)
BacklogInit ==
  /\ start \in {<<0, 5, 10, 10>>, <<0, 5, 10, 11>>} /\ listedAt = start
  /\ recordedAt \in {start} \cup {[start EXCEPT ![c] = @ + 1] : c \in Calls}
                            \cup {[start EXCEPT ![c] = Never] : c \in Calls}
  /\ qualifiedAt = [k \in Clients |-> Never]

(* Time stops early where the last call is not seen, so that bounds of one size serve *)
(* the three worlds.                                                                  *)
Horizon == IF ~Short THEN MaxTime ELSE IF \A k \in Clients : qualifiedAt[k] = Never THEN 8 ELSE 7
Opening == IF Short THEN 0 ELSE 10

MCInit == (DayInit \/ MorningInit \/ BacklogInit) /\ Init
MCNext == Next /\ now' <= Horizon /\ (now < Opening => now' > now)
MCSpec == MCInit /\ [][MCNext]_vars
===============================================================================
