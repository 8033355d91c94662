-------------------------- MODULE MCMissionReports --------------------------
(* Small instances of MissionReports for TLC. *)
EXTENDS MissionReports
=============================================================================
