------------------------------ MODULE CallStages ------------------------------
(***************************************************************************)
(* The vocabulary of the call pipeline: the statuses of a row of `calls`,  *)
(* the three claimable stages and what each stage consumes and produces.   *)
(* Nothing here moves; CallLifecycle and CallPipeline are built on it.     *)
(***************************************************************************)
EXTENDS Integers

CONSTANTS
  MaxDownloadAttempts,  (* ingestion/download.py _MAX_ATTEMPTS             *)
  MaxRetries            (* settings.max_retries, the dead-letter threshold *)

ASSUME RetryAssumption ==
  /\ MaxDownloadAttempts \in Nat \ {0}
  /\ MaxRetries \in Nat \ {0}

Stages == {"download", "transcribe", "score"}

(* PUSHED exists in the enumeration but no code path writes it. *)
InFlightStatuses == {"DOWNLOADING", "TRANSCRIBING", "SCORING"}
ReadyStatuses    == {"NEW", "DOWNLOADED", "TRANSCRIBED"}
Statuses == InFlightStatuses \cup ReadyStatuses
              \cup {"SCORED", "FAILED", "SKIPPED", "PENDING_KK"}

(* The stage table of dispatch/claim.py, and the status a success leads to. *)
ReadyOf(s)    == IF s = "download" THEN "NEW"
                 ELSE IF s = "transcribe" THEN "DOWNLOADED" ELSE "TRANSCRIBED"
InFlightOf(s) == IF s = "download" THEN "DOWNLOADING"
                 ELSE IF s = "transcribe" THEN "TRANSCRIBING" ELSE "SCORING"
DoneOf(s)     == IF s = "download" THEN "DOWNLOADED"
                 ELSE IF s = "transcribe" THEN "TRANSCRIBED" ELSE "SCORED"

(***************************************************************************)
(* What a stage leaves behind: audio_object_key on the row, a row of       *)
(* `transcripts`, a row of `scores`.  Nothing in the pipeline removes one. *)
(***************************************************************************)
Artifacts == {"audio", "transcript", "score"}
Product(s) == IF s = "download" THEN "audio"
              ELSE IF s = "transcribe" THEN "transcript" ELSE "score"
HasInput(s, held) == \/ s = "download"
                     \/ s = "transcribe" /\ "audio" \in held
                     \/ s = "score" /\ "transcript" \in held

(* Mutants: any artifact is taken for a transcript; a requeue claims. *)
ResumeUnchecked(held) == IF held # {} THEN "TRANSCRIBED" ELSE "NEW"
ResumeClaimed(held) == IF "transcript" \in held THEN "SCORING"
                       ELSE IF "audio" \in held THEN "TRANSCRIBING" ELSE "DOWNLOADING"

(***************************************************************************)
(* Where a failed call resumes, by the artifacts it holds.                 *)
(***************************************************************************)
ResumeStatus(held) == IF "transcript" \in held THEN "TRANSCRIBED"
                      ELSE IF "audio" \in held THEN "DOWNLOADED" ELSE "NEW"

(* A failed download goes back to NEW below the cap; any other failure and  *)
(* the attempt that reaches the cap leave FAILED.                           *)
FailureStatus(s, tries) ==
  IF s = "download" /\ tries < MaxDownloadAttempts THEN "NEW" ELSE "FAILED"

(* A download counts as an attempt even when it succeeds; the other stages  *)
(* count failures only.                                                     *)
SuccessTries(s, tries) == IF s = "download" THEN tries + 1 ELSE tries
===============================================================================
