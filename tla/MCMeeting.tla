------------------------------- MODULE MCMeeting -------------------------------
(* Two recordings, of which a stage may claim both or have to leave one. *)
EXTENDS MeetingPipeline
===============================================================================
