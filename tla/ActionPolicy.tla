---------------------------- MODULE ActionPolicy ----------------------------
(***************************************************************************)
(* What a button of the dashboard needs to be shown and to act: the action *)
(* registry (actions/registry.js), the roles (config/constants.js) and the *)
(* policy that compares them (actions/policy.js).  Of an entry it matters  *)
(* who may use it, whether it asks for confirmation and whether it leaves  *)
(* an audit event; its texts are for the eye.                              *)
(***************************************************************************)
EXTENDS Integers

Roles == {"super_admin", "admin", "pilot", "operator", "viewer"}

RoleHierarchy == [super_admin |-> 5, admin |-> 4, pilot |-> 3, operator |-> 2, viewer |-> 1]

-----------------------------------------------------------------------------
(* The registry.  Its lists of roles are four, one inside the other.       *)

Admins == {"admin", "super_admin"}
Pilots == Admins \cup {"pilot"}
Planners == Pilots \cup {"operator"}

Meta(allowed, confirm, audited) ==
  [permissionsRequired |-> allowed, confirmation |-> confirm, auditTrail |-> audited]

NavActions ==
  [a \in {"nav.goto.dashboard", "map.fullscreen.toggle"} |-> Meta(Roles, FALSE, FALSE)]

ArmingActions ==
  [a \in {"control.command.arm", "control.command.disarm", "control.command.takeoff"} |->
    Meta(Pilots, TRUE, TRUE)]

FlightActions ==
  [a \in {"control.command.land", "control.command.rtl", "control.command.hold",
          "control.command.emergency_stop"} |->
    Meta(Pilots, a # "control.command.hold", TRUE)]

MissionActions ==
  [a \in {"mission.create", "mission.load", "mission.update", "mission.delete",
          "mission.duplicate"} |->
    IF a = "mission.delete" THEN Meta(Admins, TRUE, TRUE) ELSE Meta(Planners, FALSE, TRUE)]

VehicleActions ==
  [a \in {"entity.vehicle.create", "entity.vehicle.update", "entity.vehicle.delete"} |->
    IF a = "entity.vehicle.delete"
    THEN Meta(Admins, TRUE, TRUE) ELSE Meta(Planners, FALSE, TRUE)]

FleetActions ==
  [a \in {"entity.fleet.create", "entity.fleet.update", "entity.fleet.delete",
          "entity.fleet.assign_user"} |->
    Meta(Admins, a = "entity.fleet.delete", TRUE)]

PlanActions ==
  [a \in {"mission.assign", "mission.unassign", "mission.draft.clear", "mission.draft.save"} |->
    Meta(Planners, a = "mission.draft.clear", TRUE)]

UploadActions ==
  [a \in {"mission.waypoint.remove", "mission.waypoint.add", "mission.upload"} |->
    IF a = "mission.upload" THEN Meta(Pilots, TRUE, TRUE) ELSE Meta(Planners, FALSE, TRUE)]

ActionTables == {NavActions, ArmingActions, FlightActions, MissionActions, VehicleActions,
                 FleetActions, PlanActions, UploadActions}

Registered == UNION {DOMAIN t : t \in ActionTables}

\* An action the registry does not know asks for nothing: nobody is kept from it
\* (mission.download, pages/missions/MissionPlannerPage.jsx:1117).
getActionMeta(a) ==
  IF a \in Registered THEN (CHOOSE t \in ActionTables : a \in DOMAIN t)[a]
                      ELSE Meta({}, FALSE, FALSE)

-----------------------------------------------------------------------------
(* The policy.                                                             *)

\* At least the highest of the levels asked for.
isRoleAllowed(role, allowed) ==
  \/ allowed = {}
  \/ role \in Roles /\ \A r \in allowed : RoleHierarchy[role] >= RoleHierarchy[r]

Visible(role, a) == isRoleAllowed(role, getActionMeta(a).permissionsRequired)
=============================================================================
