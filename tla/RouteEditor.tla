---------------------------- MODULE RouteEditor -----------------------------
(***************************************************************************)
(* The route and the fence on the map of the mission planner: the list of  *)
(* waypoints in the mission store (missionStore.js:221-250), and on the    *)
(* page the waypoint that is selected, the fields of its editor, and the   *)
(* fence, which is drawn point by point with a copy to go back to          *)
(* (MissionPlannerPage.jsx).                                               *)
(***************************************************************************)
EXTENDS Integers, Sequences, FiniteSets
LOCAL INSTANCE SequencesExt

CONSTANTS
  WaypointIds,
  Places,       \* points of the map
  MaxVertices,  \* bounds the fence
  Grids,        \* the grids that may be generated: sequences of places
  StoredRoutes  \* the routes that may be in the database, each by its numbers

\* Waypoints are stored under any numbers, those of a vehicle or of another client, and
\* are read in their order.
Ascending(wps) == \A i, j \in DOMAIN wps : i < j => wps[i].seq <= wps[j].seq

ASSUME RouteAssumption ==
  /\ Grids \subseteq Seq(Places) /\ MaxVertices \in Nat
  /\ StoredRoutes \subseteq Seq([seq : Nat, at : Places]) /\ \A wps \in StoredRoutes : Ascending(wps)

VARIABLES
  route,                \* waypoints of the store
  numbered,             \* when the route was loaded its numbers were the places in it, or it
                        \* was numbered since
  selectedWaypointId,   \* {} or the one
  latText,              \* what the fields of its editor hold
  plannerStep,
  isDrawingGeofence, addWaypointsOnClick,
  geofencePoints,
  geofenceBackup,       \* {} or the fence to go back to
  gridPreviewWaypoints

routeVars == <<route, numbered, selectedWaypointId, latText, plannerStep, isDrawingGeofence,
               addWaypointsOnClick, geofencePoints, geofenceBackup, gridPreviewWaypoints>>
fenceVars == <<isDrawingGeofence, addWaypointsOnClick, geofencePoints, geofenceBackup>>

WaypointAt == [id : WaypointIds, seq : Nat, at : Places]
Fence == UNION {[1..n -> Places] : n \in 0..MaxVertices}

RouteTypeOK ==
  /\ \A i \in DOMAIN route : route[i] \in WaypointAt
  /\ numbered \in BOOLEAN
  /\ selectedWaypointId \in SUBSET WaypointIds
  /\ latText \in Places
  /\ plannerStep \in {"area", "route"}
  /\ isDrawingGeofence \in BOOLEAN /\ addWaypointsOnClick \in BOOLEAN
  /\ geofencePoints \in Fence
  /\ geofenceBackup \subseteq Fence /\ Cardinality(geofenceBackup) <= 1
  /\ gridPreviewWaypoints \in Grids \cup {<<>>}

RouteInit ==
  /\ route = <<>> /\ numbered = TRUE /\ selectedWaypointId = {} /\ latText \in Places
  /\ plannerStep = "area"
  /\ isDrawingGeofence = FALSE /\ addWaypointsOnClick = FALSE
  /\ geofencePoints = <<>> /\ geofenceBackup = {}
  /\ gridPreviewWaypoints = <<>>

Ids(wps) == {wps[i].id : i \in DOMAIN wps}
Place(wps, id) == (CHOOSE i \in DOMAIN wps : wps[i].id = id)

InPlace(wps) == \A i \in DOMAIN wps : wps[i].seq = i - 1

\* Ids that were not used before, in any order.
Named(n) == {ids \in [1..n -> WaypointIds \ Ids(route)] :
  \A i, j \in 1..n : ids[i] = ids[j] => i = j}

-----------------------------------------------------------------------------
(* What every change of the route ends with.                               *)

\* The effect: the selection is one of the route, the first if it must.
Selects(wps, sel) ==
  IF wps = <<>> THEN {}
  ELSE IF sel # {} /\ sel \subseteq Ids(wps) THEN sel ELSE {wps[1].id}

\* The fields are filled when the editor is made for another waypoint; they do not
\* follow what happens to it.
RouteIs(wps, sel) ==
  /\ route' = wps
  /\ selectedWaypointId' = Selects(wps, sel)
  /\ latText' \in IF selectedWaypointId' = {} \/ selectedWaypointId' = selectedWaypointId THEN {latText}
                  ELSE {wps[Place(wps, id)].at : id \in selectedWaypointId'}

-----------------------------------------------------------------------------
(* The list.                                                               *)

\* normalizeWaypoint: a number for the place in the list, if it has none.
Added(wps, id, p) == Append(wps, [id |-> id, seq |-> Len(wps), at |-> p])

\* Mutant: those behind it keep their numbers.
RemovedOnly(wps, id) == RemoveAt(wps, Place(wps, id))

\* Those with another id: it has one of its own.
removeWaypoint(wps, id) == LET kept == RemoveAt(wps, Place(wps, id)) IN
  [i \in DOMAIN kept |-> [kept[i] EXCEPT !.seq = i - 1]]

updateWaypoint(wps, id, p) ==
  [i \in DOMAIN wps |-> IF wps[i].id = id THEN [wps[i] EXCEPT !.at = p] ELSE wps[i]]

\* A waypoint with an id of its own, which is selected; the button puts it at random.
handleAddWaypoint(p) == \E id \in WaypointIds \ Ids(route) :
  /\ RouteIs(Added(route, id, p), {id})
  /\ UNCHANGED <<numbered, plannerStep, fenceVars, gridPreviewWaypoints>>

AddWaypointButton(p) == plannerStep = "route" /\ handleAddWaypoint(p)

Drag(id, p) ==
  /\ id \in Ids(route)
  /\ RouteIs(updateWaypoint(route, id, p), selectedWaypointId)
  /\ UNCHANGED <<numbered, plannerStep, fenceVars, gridPreviewWaypoints>>

\* The marker on the map, or the row of the list.
SelectWaypoint(id) ==
  /\ id \in Ids(route)
  /\ RouteIs(route, {id})
  /\ UNCHANGED <<numbered, plannerStep, fenceVars, gridPreviewWaypoints>>

RemoveWaypoint(id) ==
  /\ plannerStep = "route" /\ id \in Ids(route)
  /\ RouteIs(removeWaypoint(route, id), selectedWaypointId) /\ numbered' = TRUE
  /\ UNCHANGED <<plannerStep, fenceVars, gridPreviewWaypoints>>

\* The field is changed, or only entered and left: it is written back as it stands.
CommitField(p) ==
  /\ plannerStep = "route" /\ selectedWaypointId # {}
  /\ p \in Places
  /\ route' = updateWaypoint(route, CHOOSE id \in selectedWaypointId : TRUE, p)
  /\ latText' = p
  /\ UNCHANGED <<numbered, selectedWaypointId, plannerStep, fenceVars, gridPreviewWaypoints>>

clearWaypoints ==
  /\ RouteIs(<<>>, selectedWaypointId) /\ numbered' = TRUE
  /\ gridPreviewWaypoints' = <<>>
  /\ UNCHANGED <<plannerStep, fenceVars>>

\* normalizeWaypoints: the numbers are left as they are stored.
ReadIn(ids, wps) == [i \in DOMAIN ids |-> [id |-> ids[i], seq |-> wps[i].seq, at |-> wps[i].at]]

\* fetchMission and hydrateMissionPlanningState: another route, or the same once more; the
\* fence is not stored with a mission.
LoadMission ==
  /\ \E wps \in (IF Ascending(route) THEN {route} ELSE {}) \cup
                UNION {{ReadIn(ids, wps) : ids \in Named(Len(wps))} : wps \in StoredRoutes} :
       RouteIs(wps, selectedWaypointId) /\ numbered' = InPlace(wps)
  /\ geofencePoints' = <<>>
  /\ gridPreviewWaypoints' = <<>>
  /\ UNCHANGED <<plannerStep, isDrawingGeofence, addWaypointsOnClick, geofenceBackup>>

-----------------------------------------------------------------------------
(* The fence.                                                              *)

FenceOnly == UNCHANGED <<route, numbered, selectedWaypointId, latText, plannerStep, gridPreviewWaypoints>>

AddVertex(p) ==
  /\ isDrawingGeofence /\ Len(geofencePoints) < MaxVertices
  /\ geofencePoints' = Append(geofencePoints, p)
  /\ UNCHANGED <<isDrawingGeofence, addWaypointsOnClick, geofenceBackup>> /\ FenceOnly

\* While the fence is drawn a click adds to it; else only in its mode, or with Shift.
MapClick(p, shift) ==
  \/ AddVertex(p)
  \/ ~ isDrawingGeofence /\ (addWaypointsOnClick \/ shift) /\ handleAddWaypoint(p)

handleGeofenceVertexDrag(i, p) ==
  /\ i \in DOMAIN geofencePoints
  /\ geofencePoints' = [geofencePoints EXCEPT ![i] = p]
  /\ UNCHANGED <<isDrawingGeofence, addWaypointsOnClick, geofenceBackup>> /\ FenceOnly

handleRemoveGeofenceVertex(i) ==
  /\ i \in DOMAIN geofencePoints
  /\ geofencePoints' = RemoveAt(geofencePoints, i)
  /\ UNCHANGED <<isDrawingGeofence, addWaypointsOnClick, geofenceBackup>> /\ FenceOnly

\* The copy is the fence of the moment, half drawn as it may be: the mode of the map can
\* be chosen again while it is on.
beginGeofenceEdit(clear) ==
  /\ geofenceBackup' = {geofencePoints}
  /\ geofencePoints' = IF clear THEN <<>> ELSE geofencePoints
  /\ isDrawingGeofence' = TRUE /\ addWaypointsOnClick' = FALSE
  /\ FenceOnly

BeginButtons ==
  \/ plannerStep = "area" /\ ~ isDrawingGeofence
     /\ (beginGeofenceEdit(geofencePoints = <<>>) \/ beginGeofenceEdit(TRUE))
  \/ plannerStep = "route" /\ beginGeofenceEdit(geofencePoints = <<>>)

cancelGeofenceEdit ==
  /\ plannerStep = "area" /\ isDrawingGeofence
  /\ IF geofenceBackup = {} THEN UNCHANGED geofencePoints ELSE geofencePoints' \in geofenceBackup
  /\ geofenceBackup' = {} /\ isDrawingGeofence' = FALSE
  /\ UNCHANGED addWaypointsOnClick /\ FenceOnly

finishGeofenceEdit ==
  /\ plannerStep = "area" /\ isDrawingGeofence /\ Len(geofencePoints) >= 3
  /\ geofenceBackup' = {} /\ isDrawingGeofence' = FALSE
  /\ UNCHANGED <<geofencePoints, addWaypointsOnClick>> /\ FenceOnly

undoGeofencePoint ==
  /\ plannerStep = "area" /\ isDrawingGeofence /\ geofencePoints # <<>>
  /\ geofencePoints' = Front(geofencePoints)
  /\ UNCHANGED <<isDrawingGeofence, addWaypointsOnClick, geofenceBackup>> /\ FenceOnly

DeletePolygon ==
  /\ plannerStep = "area" /\ geofencePoints # <<>>
  /\ geofencePoints' = <<>> /\ gridPreviewWaypoints' = <<>>
  /\ UNCHANGED <<route, numbered, selectedWaypointId, latText, plannerStep, isDrawingGeofence,
                 addWaypointsOnClick, geofenceBackup>>

\* "Pan" and "Add": the drawing ends, with as many points as there are.
MapMode(add) ==
  /\ plannerStep = "route"
  /\ isDrawingGeofence' = FALSE /\ addWaypointsOnClick' = add
  /\ UNCHANGED <<geofencePoints, geofenceBackup>> /\ FenceOnly

-----------------------------------------------------------------------------
(* The grid, and the steps of the planner.                                 *)

handleGenerateGridPreview ==
  /\ plannerStep = "route" /\ Len(geofencePoints) >= 3
  /\ gridPreviewWaypoints' \in Grids
  /\ UNCHANGED <<route, numbered, selectedWaypointId, latText, plannerStep, fenceVars>>

\* One after the other, in an empty list, each with the number of those before it.
Grid(ids) == [i \in DOMAIN ids |-> [id |-> ids[i], seq |-> i - 1, at |-> gridPreviewWaypoints[i]]]

\* The preview of a fence that has changed since is applied as it is.
handleApplyGridPreview ==
  /\ plannerStep = "route" /\ gridPreviewWaypoints # <<>>
  /\ \E ids \in Named(Len(gridPreviewWaypoints)) : RouteIs(Grid(ids), {ids[1]})
  /\ numbered' = TRUE
  /\ gridPreviewWaypoints' = <<>>
  /\ UNCHANGED <<plannerStep, fenceVars>>

ClearPreview ==
  /\ plannerStep = "route" /\ gridPreviewWaypoints # <<>>
  /\ gridPreviewWaypoints' = <<>>
  /\ UNCHANGED <<route, numbered, selectedWaypointId, latText, plannerStep, fenceVars>>

\* The editor of a waypoint is made anew when its step is entered.
setPlannerStep(step) ==
  /\ plannerStep' = step
  /\ latText' \in IF step = plannerStep \/ selectedWaypointId = {} THEN {latText}
                  ELSE {route[Place(route, id)].at : id \in selectedWaypointId}
  /\ UNCHANGED <<route, numbered, selectedWaypointId, fenceVars, gridPreviewWaypoints>>

-----------------------------------------------------------------------------
RouteNext ==
  \/ \E p \in Places :
       \/ AddWaypointButton(p) \/ MapClick(p, TRUE) \/ MapClick(p, FALSE) \/ CommitField(p)
       \/ \E id \in WaypointIds : Drag(id, p)
       \/ \E i \in 1..MaxVertices : handleGeofenceVertexDrag(i, p)
  \/ \E id \in WaypointIds : SelectWaypoint(id) \/ RemoveWaypoint(id)
  \/ \E i \in 1..MaxVertices : handleRemoveGeofenceVertex(i)
  \/ clearWaypoints \/ LoadMission
  \/ BeginButtons \/ cancelGeofenceEdit \/ finishGeofenceEdit \/ undoGeofencePoint \/ DeletePolygon
  \/ \E add \in BOOLEAN : MapMode(add)
  \/ handleGenerateGridPreview \/ handleApplyGridPreview \/ ClearPreview
  \/ \E step \in {"area", "route"} : setPlannerStep(step)

RouteSpec == RouteInit /\ [][RouteNext]_routeVars

-----------------------------------------------------------------------------
(* Properties.                                                             *)

\* However waypoints are added, moved, removed and generated, the number that is stored and
\* flown is the place in the list, unless the route came with other numbers and no waypoint
\* was removed since; and no two waypoints, read or added, are taken for one
\* (missionStore.js:16-33, 223-239, MissionPlannerPage.jsx:807-814).
SeqIsIndex ==
  /\ numbered => InPlace(route)
  /\ \A i, j \in DOMAIN route : route[i].id = route[j].id => i = j

\* The editor shows a waypoint of the route, as long as there is one: what is typed
\* never goes to one that was removed or belongs to another mission
\* (MissionPlannerPage.jsx:479-489).
SelectionExists ==
  /\ selectedWaypointId \subseteq Ids(route)
  /\ selectedWaypointId = {} => route = <<>>

\* Drawing can be given up: there is a fence to go back to, and no click on the map
\* adds a waypoint meanwhile (MissionPlannerPage.jsx:492-494, 773-788).
DrawingIsSafe == isDrawingGeofence => geofenceBackup # {} /\ ~ addWaypointsOnClick

\* What is edited is there, in order, and can be given up.
RouteSafe == SeqIsIndex /\ SelectionExists /\ DrawingIsSafe
=============================================================================
