-------------------------- MODULE MCMissionUpload --------------------------
(* Small instances of MissionUpload for TLC. *)
EXTENDS MissionUpload

\* Well numbered missions of one and two waypoints, the numberings the API
\* lets through although no autopilot can ask for them, and the empty one.
PlansAll  == {<<>>, <<0>>, <<0, 1>>, <<0, 0>>, <<1, 2>>}
PlansGood == {<<0>>, <<0, 1>>}
PlansLong == {<<0, 1, 2>>, <<0, 2, 1>>}
=============================================================================
