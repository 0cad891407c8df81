----------------------------- MODULE CallLifecycle ----------------------------
(***************************************************************************)
(* What the pipeline promises about a call, with no workers, queues, jobs  *)
(* or clocks: every call is a small state machine of its own.  A claim is  *)
(* followed by exactly one outcome (completed, failed, parked or given     *)
(* back), every failure and every download is counted once, and a call     *)
(* that has used up its attempts stays FAILED.                             *)
(***************************************************************************)
EXTENDS CallStages

CONSTANT Calls

VARIABLES status, attempts, artifacts

lvars == <<status, attempts, artifacts>>

LifecycleInit ==
  /\ status \in [Calls -> {"NEW", "SKIPPED"}]
  /\ attempts = [c \in Calls |-> 0]
  /\ artifacts = [c \in Calls |-> {}]

Becomes(c, st, tries, held) ==
  status'[c] = st /\ attempts'[c] = tries /\ artifacts'[c] = held

Moves(c, from, to) == status[c] = from /\ Becomes(c, to, attempts[c], artifacts[c])

Claims(c)   == \E s \in Stages : Moves(c, ReadyOf(s), InFlightOf(s))
Releases(c) == \E s \in Stages : Moves(c, InFlightOf(s), ReadyOf(s))

Completes(c) == \E s \in Stages :
  /\ status[c] = InFlightOf(s)
  /\ HasInput(s, artifacts[c])
  /\ Becomes(c, DoneOf(s), SuccessTries(s, attempts[c]), artifacts[c] \cup {Product(s)})

FailsOnce(c) == \E s \in Stages :
  /\ status[c] = InFlightOf(s)
  /\ Becomes(c, FailureStatus(s, attempts[c] + 1), attempts[c] + 1, artifacts[c])

Resumes(c) == /\ attempts[c] < MaxRetries
              /\ Moves(c, "FAILED", ResumeStatus(artifacts[c]))

Parks(c)    == Moves(c, "TRANSCRIBING", "PENDING_KK")
Unparks(c)  == Moves(c, "PENDING_KK", "DOWNLOADED")
Relabels(c) == Moves(c, "SCORED", "TRANSCRIBED")
Rescopes(c) == \/ Moves(c, "NEW", "SKIPPED") \/ Moves(c, "SKIPPED", "NEW")

CallStep(c) == \/ Claims(c) \/ Releases(c) \/ Completes(c) \/ FailsOnce(c)
               \/ Resumes(c) \/ Parks(c) \/ Unparks(c) \/ Relabels(c) \/ Rescopes(c)
               \/ Moves(c, status[c], status[c])

LifecycleNext == \A c \in Calls : CallStep(c)

LifecycleSpec == LifecycleInit /\ [][LifecycleNext]_lvars
===============================================================================
