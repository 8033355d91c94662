---------------------------- MODULE MCDashboard ----------------------------
(***************************************************************************)
(* The parts of the dashboard, on small instances, for TLC.  They share no *)
(* state of the models: a behaviour is one of one part, the others rest in *)
(* an initial state, from which nothing of theirs is bound to happen.      *)
(***************************************************************************)
EXTENDS ApiClient, OperatorConsole, LiveStreams, FleetPages, MissionPlanner, LaunchControl,
        RouteEditor, Geofence, Session, UserPages

VARIABLE part   \* the part whose behaviour it is

Parts == {"api", "console", "streams", "fleet", "planner", "launch", "route", "fence", "session", "users"}

-----------------------------------------------------------------------------
(* The instances.                                                          *)

\* Two vehicles that may be commanded, the first of them not always.
MCReports == [v \in 1..2 |->
  {[online |-> TRUE, armed |-> FALSE, connected |-> TRUE]} \cup
  (IF v = 1 THEN {[online |-> FALSE, armed |-> FALSE, connected |-> FALSE]} ELSE {})]

\* A fleet that has the vehicle and a member; or neither, with one vehicle more than is listed.
World(there, at, members) ==
  [fleets |-> {"a"}, vehicles |-> there, at |-> [v \in Craft |-> IF v = "x" THEN at ELSE {}],
   members |-> [f \in Fleets |-> IF f = "a" THEN members ELSE {}]]
MCWorlds == {World({"x"}, {"a"}, {"u"}), World({"x", "y"}, {}, {})}

\* One vehicle is fit, at the limits of all checks; the other has no terrain data, or stands
\* too far from the route for its battery.
AtLimits == [at |-> "near", battery |-> 21, link_quality |-> 30, satellites |-> 6, ekf_ok |-> TRUE,
             connected |-> TRUE, terrain |-> TRUE, status |-> "armed"]
MCFacts == [v \in {"u", "w"} |->
  IF v = "u" THEN {AtLimits}
  ELSE {[AtLimits EXCEPT !.terrain = FALSE], [AtLimits EXCEPT !.at = "far", !.battery = 26]}]
MCLength == [s \in {"near", "far"} |-> IF s = "near" THEN 1 ELSE 2]
MCRoutePlans == {[selected |-> TRUE, valid |-> TRUE, terrain |-> TRUE, km |-> MCLength],
                 [selected |-> TRUE, valid |-> FALSE, terrain |-> FALSE, km |-> MCLength],
                 [selected |-> FALSE, valid |-> TRUE, terrain |-> TRUE, km |-> MCLength]}

MCGrids == {<<1, 1>>}

\* Numbered from 0, or two waypoints under one number.
MCStoredRoutes == {<<>>, <<[seq |-> 0, at |-> 1]>>, <<[seq |-> 1, at |-> 1], [seq |-> 1, at |-> 1]>>}

\* Two fences without dents, one with a dent, one that crosses itself.
Polygon(s) == [i \in 1..Len(s) |-> At2(s[i][1], s[i][2])]
MCFences == {Polygon(<< <<0, 0>>, <<1, 5>>, <<6, 2>> >>),
             Polygon(<< <<1, 0>>, <<6, 2>>, <<5, 6>>, <<0, 4>> >>),
             Polygon(<< <<0, 0>>, <<6, 0>>, <<3, 2>>, <<6, 6>>, <<0, 6>> >>),
             Polygon(<< <<0, 0>>, <<6, 6>>, <<0, 6>>, <<6, 0>> >>)}
MCSpots == {At2(x, y) : x \in {0, 1, 3, 4, 6}, y \in {0, 1, 3, 4, 6}}
MCGridOptions ==
  [lineSpacing : {1}, headingAngle : {0}, overlapPercent : {0}, edgeMargin : {0, 1},
   turnaround : {"edge_pause"}] \cup
  [lineSpacing : {4}, headingAngle : {90}, overlapPercent : {50}, edgeMargin : {0, 1},
   turnaround : {"inside_only"}]

-----------------------------------------------------------------------------
(* One part at a time.                                                     *)

\* The choices of the parts that rest are made, so that they rest in one state; and the
\* first who commands is one who may.
Resting ==
  /\ role = "super_admin"
  /\ part # "api" => page = "auth"
  /\ part # "console" => \A v \in Vehicles : report[v].online
  /\ part # "fleet" => srv = World({"x"}, {"a"}, {"u"})
  /\ part # "launch" => planned.valid /\ planned.selected /\ \A v \in Fliers : fact[v].battery = 21
  /\ part # "route" => latText = 1
  /\ part # "fence" => Len(geofence) = 3
  /\ part # "users" => manager = "admin"

DashboardInit ==
  /\ part \in Parts
  /\ Init /\ ConsoleInit /\ StreamInit /\ FleetInit /\ PlannerInit /\ LaunchInit
  /\ RouteInit /\ GeoInit /\ SessionInit /\ UserInit
  /\ Resting

ApiStep == part = "api" /\ Next /\ UNCHANGED <<part, consoleVars, streamVars, fleetVars,
  plannerVars, launchVars, routeVars, geoVars, sessionVars, userVars>>
ConsoleStep == part = "console" /\ ConsoleNext /\ UNCHANGED <<part, vars, streamVars, fleetVars,
  plannerVars, launchVars, routeVars, geoVars, sessionVars, userVars>>
StreamStep == part = "streams" /\ StreamNext /\ UNCHANGED <<part, vars, consoleVars, fleetVars,
  plannerVars, launchVars, routeVars, geoVars, sessionVars, userVars>>
FleetStep == part = "fleet" /\ FleetNext /\ UNCHANGED <<part, vars, consoleVars, streamVars,
  plannerVars, launchVars, routeVars, geoVars, sessionVars, userVars>>
PlannerStep == part = "planner" /\ PlannerNext /\ UNCHANGED <<part, vars, consoleVars, streamVars,
  fleetVars, launchVars, routeVars, geoVars, sessionVars, userVars>>
LaunchStep == part = "launch" /\ LaunchNext /\ UNCHANGED <<part, vars, consoleVars, streamVars,
  fleetVars, plannerVars, routeVars, geoVars, sessionVars, userVars>>
RouteStep == part = "route" /\ RouteNext /\ UNCHANGED <<part, vars, consoleVars, streamVars,
  fleetVars, plannerVars, launchVars, geoVars, sessionVars, userVars>>
FenceStep == part = "fence" /\ GeoNext /\ UNCHANGED <<part, vars, consoleVars, streamVars,
  fleetVars, plannerVars, launchVars, routeVars, sessionVars, userVars>>
SessionStep == part = "session" /\ SessionNext /\ UNCHANGED <<part, vars, consoleVars, streamVars,
  fleetVars, plannerVars, launchVars, routeVars, geoVars, userVars>>
UserStep == part = "users" /\ UserNext /\ UNCHANGED <<part, vars, consoleVars, streamVars,
  fleetVars, plannerVars, launchVars, routeVars, geoVars, sessionVars>>

DashboardNext ==
  \/ ApiStep \/ ConsoleStep \/ StreamStep \/ FleetStep \/ PlannerStep
  \/ LaunchStep \/ RouteStep \/ FenceStep \/ SessionStep \/ UserStep

dashboardVars == <<part, vars, consoleVars, streamVars, fleetVars, plannerVars, launchVars,
                   routeVars, geoVars, sessionVars, userVars>>

DashboardSpec ==
  /\ DashboardInit /\ [][DashboardNext]_dashboardVars
  /\ Fairness /\ ConsoleFairness /\ StreamFairness /\ FleetFairness /\ PlannerFairness
  /\ UserFairness

-----------------------------------------------------------------------------
(* Properties of several parts.                                            *)

\* The types of all the parts.
DashboardTypeOK ==
  /\ part \in Parts
  /\ TypeOK /\ ConsoleTypeOK /\ StreamTypeOK /\ FleetTypeOK /\ PlannerTypeOK /\ LaunchTypeOK
  /\ RouteTypeOK /\ GeoTypeOK /\ SessionTypeOK /\ UserTypeOK

\* A fence stays what it is while other parts are at work.
GeometryIsRight == part = "fence" => FenceIsRight

\* The mission planner's page: what it lists and shows is what there is, and it makes
\* one transfer and one launch at a time (MissionPlannerPage.jsx:642-974).
PlanningSafe == ListIsTrue /\ BelongTogether /\ OneTransfer /\ OneLaunch

\* The lists of vehicles, fleets, users and organizations are those of the database, once
\* all answers came in (fleetStore.js:48-213, UsersPage.jsx:56-309).
ListsAreTrue == StoreIsTrue /\ AccountsAreTrue

\* A save that tells success has saved what its form showed: a fleet with its vehicles and
\* members, a user's name and password (FleetPage.jsx:357-391, 476-485, UsersPage.jsx:215-241).
SavesDoWhatTheySay == SaveDoesWhatItSays /\ EditDoesWhatItSays

\* Whatever fails or is lost, the dashboard comes to rest, again and again: requests
\* are answered, the dialog's button, the saves, the transfers and the stream come back
\* (client.js:45-107, ActionConfirmModal.jsx:31-39, FleetPage.jsx:345-490,
\* MissionPlannerPage.jsx:666-719, WebSocketManager.js:40-51).
DashboardLive == []<>(
  /\ RequestsOver
  /\ DialogReady /\ SavesOver /\ TransfersOver /\ SavingEnds /\ StreamUp)
=============================================================================
