-------------------------- MODULE MCIncidentIntake --------------------------
(* One detection and one trigger firing of the same incident, two coordinator
   ticks, two attempts for each event. *)
EXTENDS IncidentIntake
=============================================================================
