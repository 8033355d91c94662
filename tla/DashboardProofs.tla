-------------------------- MODULE DashboardProofs ---------------------------
(***************************************************************************)
(* What holds of the dashboard as a whole: a step of it is of one part,    *)
(* and of the others a stutter, so each part keeps the invariant that      *)
(* PageProofs, StoreProofs or PlannerProofs has of it.                     *)
(***************************************************************************)
EXTENDS MCDashboard, PageProofs, PlannerProofs

\* A step of the dashboard is a step of each part, or none of that part.
LEMMA OfOnePart ==
  ASSUME [DashboardNext]_dashboardVars
  PROVE  /\ [Next]_vars /\ [ConsoleNext]_consoleVars /\ [StreamNext]_streamVars
         /\ [FleetNext]_fleetVars /\ [PlannerNext]_plannerVars /\ [LaunchNext]_launchVars
         /\ [RouteNext]_routeVars /\ [GeoNext]_geoVars /\ [SessionNext]_sessionVars /\ [UserNext]_userVars
         /\ part' = part
<1>1. CASE UNCHANGED dashboardVars
  BY <1>1 DEF dashboardVars
<1>2. CASE ApiStep
  BY <1>2 DEF ApiStep
<1>3. CASE ConsoleStep
  BY <1>3 DEF ConsoleStep
<1>4. CASE StreamStep
  BY <1>4 DEF StreamStep
<1>5. CASE FleetStep
  BY <1>5 DEF FleetStep
<1>6. CASE PlannerStep
  BY <1>6 DEF PlannerStep
<1>7. CASE LaunchStep
  BY <1>7 DEF LaunchStep
<1>8. CASE RouteStep
  BY <1>8 DEF RouteStep
<1>9. CASE FenceStep
  BY <1>9 DEF FenceStep
<1>10. CASE SessionStep
  BY <1>10 DEF SessionStep
<1>11. CASE UserStep
  BY <1>11 DEF UserStep
<1>12. QED
  BY <1>1, <1>2, <1>3, <1>4, <1>5, <1>6, <1>7, <1>8, <1>9, <1>10, <1>11 DEF DashboardNext

\* Once every answer came in, in order, what the dashboard lists of users, organizations,
\* fleets and vehicles is what the database has, whichever of its parts are at work
\* (fleetStore.js:48-213, UsersPage.jsx:56-309).
THEOREM ListsStayTrue == DashboardSpec => []ListsAreTrue
<1>1. DashboardInit => UserInv /\ FleetInv
  BY UsersStart, FleetStarts DEF DashboardInit
<1>2. UserInv /\ FleetInv /\ [DashboardNext]_dashboardVars => (UserInv /\ FleetInv)'
  BY OfOnePart, UserStepKeeps, FleetStepKeeps
<1>3. UserInv /\ FleetInv => ListsAreTrue
  BY UsersAreTrue, FleetIsTrue DEF ListsAreTrue
<1>4. QED
  BY <1>1, <1>2, <1>3, PTL DEF DashboardSpec

\* On the planner's page the list is the database's and the route the selected mission's
\* once all answers came in, and one transfer and one launch are under way, however many
\* handlers are clicked, and whatever fails or is overtaken (missionStore.js:84-218,
\* MissionPlannerPage.jsx:642-974).
THEOREM PlanningStaysSafe == DashboardSpec => []PlanningSafe
<1>1. DashboardInit => PlannerInv /\ LaunchInv
  BY PlannerStarts, LaunchStarts DEF DashboardInit
<1>2. PlannerInv /\ LaunchInv /\ [DashboardNext]_dashboardVars => (PlannerInv /\ LaunchInv)'
  BY OfOnePart, PlannerStepKeeps, LaunchStepKeeps
<1>3. PlannerInv /\ LaunchInv => PlanningSafe
  BY PlannerIsSafe DEF PlanningSafe, LaunchInv
<1>4. QED
  BY <1>1, <1>2, <1>3, PTL DEF DashboardSpec

\* A save that tells success, beside which nothing was written, has saved what its form
\* showed: a fleet its vehicles and members, a user the name and password
\* (FleetPage.jsx:357-391, 476-485, UsersPage.jsx:215-241).
THEOREM SavesStayTrue == DashboardSpec => SavesDoWhatTheySay
<1> DEFINE FleetSaves == FleetInv /\ SaveInv
           UserSaves == UserInv /\ UserTypes /\ EditGoesOn
<1>1. DashboardInit => FleetSaves /\ UserSaves
  BY FleetStarts, SavesStart, UsersStart, UserTypesStart, EditsStart DEF DashboardInit
<1>2. FleetSaves /\ UserSaves /\ [DashboardNext]_dashboardVars => (FleetSaves /\ UserSaves)'
  <2>1. FleetSaves /\ [FleetNext]_fleetVars => FleetSaves'
    BY FleetStepKeeps, SaveStepGoesOn
  <2>2. UserSaves /\ [UserNext]_userVars => UserSaves'
    BY UserStepKeeps, UserStepTypes, EditStepGoesOn
  <2>3. QED
    BY <2>1, <2>2, OfOnePart
<1>3. FleetSaves /\ [DashboardNext]_dashboardVars => [SavesTruly]_fleetVars
  BY OfOnePart, SavesAreDone
<1>4. UserSaves /\ [DashboardNext]_dashboardVars =>
        [\A r \in Tasks, a \in Accounts :
           task[r].clean /\ task[r].form.of = {a} /\ task[r].state = "running" /\ task'[r].state = "done" =>
             /\ people[a].name = task[r].form.name
             /\ task[r].form.password => a \in secrets]_userVars
  BY OfOnePart, EditsKeepWord
<1>5. DashboardSpec => [](FleetSaves /\ UserSaves)
  BY <1>1, <1>2, PTL DEF DashboardSpec
<1>6. DashboardSpec => [][SavesTruly]_fleetVars
  BY <1>3, <1>5, PTL DEF DashboardSpec
<1>7. DashboardSpec => EditDoesWhatItSays
  BY <1>4, <1>5, PTL DEF DashboardSpec, EditDoesWhatItSays
<1>8. QED
  BY <1>6, <1>7 DEF SavesDoWhatTheySay, SaveDoesWhatItSays, SavesTruly

\* Of any fence, however it is dented or crosses itself, what the ray cast finds inside lies
\* in an odd number of the triangles of a fan over it; in one without dents a mission is
\* valid when its waypoints are inside, legs and all, and a survey grid passes and stays
\* away by its margin from the lines of all edges (missionPlanning.js:39-210).
THEOREM FenceStaysRight == DashboardSpec => []GeometryIsRight
<1>1. DashboardInit => GeoInv
  BY GeoStarts DEF DashboardInit
<1>2. GeoInv /\ [DashboardNext]_dashboardVars => GeoInv'
  BY OfOnePart, GeoKept
<1>3. GeoInv => GeometryIsRight
  BY FenceStands DEF GeometryIsRight
<1>4. QED
  BY <1>1, <1>2, <1>3, PTL DEF DashboardSpec

\* What the dashboard keeps has its type, whichever part is at work: what a page holds of
\* its own, the lists of the stores, what is under way to the backend and back
\* (client.js, authStore.js, fleetStore.js, missionStore.js, WebSocketManager.js and the pages).
THEOREM TypesStay == DashboardSpec => []DashboardTypeOK
<1> DEFINE Client == part \in Parts /\ TypeOK /\ SessionInv /\ GeoInv
           Console == ConsoleInv /\ ConsoleRest
           Streams == StreamInv /\ StreamRest
           Fleet == FleetInv /\ FleetTypes
           Planner == PlannerInv /\ PlannerTypes
           Launch == LaunchInv /\ LaunchTypeOK
           Route == RouteInv /\ RouteRest
           Accounted == UserInv /\ UserTypes
           Typed == Client /\ Console /\ Streams /\ Fleet /\ Planner /\ Launch /\ Route /\ Accounted
<1>1. DashboardInit => Typed
  <2>1. DashboardInit => Client
    BY RequestsStart, SessionStarts, GeoStarts DEF DashboardInit
  <2>2. DashboardInit => Console /\ Streams
    BY ConsoleStarts, ConsoleRestStarts, StreamStarts, StreamRestStarts DEF DashboardInit
  <2>3. DashboardInit => Fleet /\ Planner
    BY FleetStarts, FleetTypesStart, PlannerStarts, PlannerTypesStart DEF DashboardInit
  <2>4. DashboardInit => Launch /\ Route
    BY LaunchStarts, LaunchTypeStarts, RouteStarts, RouteRestStarts DEF DashboardInit
  <2>5. DashboardInit => Accounted
    BY UsersStart, UserTypesStart DEF DashboardInit
  <2>6. QED
    BY <2>1, <2>2, <2>3, <2>4, <2>5
<1>2. Typed /\ [DashboardNext]_dashboardVars => Typed'
  <2> SUFFICES ASSUME Typed, [DashboardNext]_dashboardVars PROVE Typed'
    OBVIOUS
  <2>1. Client'
    BY OfOnePart, RequestsKeepTypes, SessionStepKeeps, GeoKept
  <2>2. Console'
    BY OfOnePart, ConsoleStepKeeps, ConsoleRestKept
  <2>3. Streams'
    BY OfOnePart, StreamStepKeeps, StreamRestKept
  <2>4. Fleet'
    BY OfOnePart, FleetStepKeeps, FleetTypesKept
  <2>5. Planner'
    BY OfOnePart, PlannerStepKeeps, PlannerTypesKept
  <2>6. Launch'
    BY OfOnePart, LaunchStepKeeps, LaunchTypeKept
  <2>7. Route'
    BY OfOnePart, RouteStepKeeps, RouteRestKept
  <2>8. Accounted'
    BY OfOnePart, UserStepKeeps, UserStepTypes
  <2>9. QED
    BY <2>1, <2>2, <2>3, <2>4, <2>5, <2>6, <2>7, <2>8
<1>3. Typed => DashboardTypeOK
  <2> SUFFICES ASSUME Typed PROVE DashboardTypeOK
    OBVIOUS
  <2>1. ConsoleTypeOK /\ StreamTypeOK /\ FleetTypeOK /\ PlannerTypeOK
    BY ConsoleRestTypes, StreamRestTypes, FleetIsTyped, PlannerIsTyped
  <2>2. LaunchTypeOK /\ RouteTypeOK /\ GeoTypeOK
    BY RouteRestTypes, GeoIsTyped
  <2>3. SessionTypeOK
    BY DEF SessionInv
  <2>4. UserTypeOK
    BY DEF UserTypes
  <2>5. QED
    BY <2>1, <2>2, <2>3, <2>4 DEF DashboardTypeOK
<1> HIDE DEF Typed
<1>4. QED
  BY <1>1, <1>2, <1>3, PTL DEF DashboardSpec
=============================================================================
