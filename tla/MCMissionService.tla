-------------------------- MODULE MCMissionService --------------------------
(* Small instances of MissionService for TLC. *)
EXTENDS MissionService, TLC

CONSTANTS m1, m2, v1, v2, s1, s2

\* Every request, for one vehicle and for both.  Of the statuses a vehicle or a pilot may
\* report, those in which a mission can be edited, the one an upload gives it, which the
\* vehicle reports as well, and one of the rest, which no definition tells apart.
CallsAll ==
  [op : {"edit"}, m : Missions, filled : BOOLEAN]
    \cup [op : {"delete", "upload"}, m : Missions]
    \cup [op : {"assign"}, m : Missions, vs : SUBSET Vehicles \ {{}}, replace : BOOLEAN]
    \cup [op : {"unassign"}, m : Missions, vs : SUBSET Vehicles \ {{}}]
    \cup [op : {"status"}, m : Missions, v : Vehicles, st : {"draft", "ready", "uploading", "failed"}]

CallsAssign == [op : {"assign"}, m : Missions, vs : {Vehicles}, replace : {TRUE}]

\* Neither missions nor vehicles are told apart by any definition,
\* nor are sessions.
Symmetry == Permutations(Missions) \cup Permutations(Vehicles) \cup Permutations(Sessions)
=============================================================================
