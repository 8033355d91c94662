--------------------------- MODULE MissionService ---------------------------
(***************************************************************************)
(* The mission service (backend/services/mission/service.py): missions,    *)
(* their waypoints and their assignments to vehicles, in PostgreSQL.       *)
(*                                                                         *)
(* Every request runs in a session of its own, a transaction at READ       *)
(* COMMITTED: each SELECT sees what is committed when it runs, an object   *)
(* once loaded keeps the values it was loaded with, and a flush writes the *)
(* columns the request changed, by primary key.  Nobody sees the writes    *)
(* before the commit.  So a request is a few steps, one for each SELECT    *)
(* its outcome depends on and one for the commit, and the steps of         *)
(* different requests interleave.  The row locks a flush takes only delay  *)
(* other requests and are left out; a request that PostgreSQL or           *)
(* SQLAlchemy refuses, for a lock cycle, a vanished row or a foreign key,  *)
(* is rolled back: Abort.                                                  *)
(*                                                                         *)
(* Callers are authorised for every mission and vehicle.  A mission's      *)
(* names, settings and vehicle_id and a row's status and progress are left *)
(* out: no guard of the service reads them.                                *)
(***************************************************************************)
EXTENDS Naturals, FiniteSets

CONSTANTS
  Missions, Vehicles,
  Sessions,      \* the requests that may be in progress at a time
  Calls,         \* the requests that clients make, besides creating missions
  MaxRequests    \* bound: requests ever started

MissionStatus == {"draft", "ready", "uploading", "uploaded", "in_progress",
                  "paused", "completed", "aborted", "failed"}

\* The request bodies.  "filled": the new waypoint list is not empty.
AllCalls ==
  [op : {"edit"}, m : Missions, filled : BOOLEAN]
    \cup [op : {"delete", "upload"}, m : Missions]
    \cup [op : {"assign"}, m : Missions, vs : (SUBSET Vehicles) \ {{}}, replace : BOOLEAN]
    \cup [op : {"unassign"}, m : Missions, vs : (SUBSET Vehicles) \ {{}}]
    \cup [op : {"status"}, m : Missions, v : Vehicles, st : MissionStatus]

ASSUME CallsAssumption    == Calls \subseteq AllCalls
ASSUME RequestsAssumption == MaxRequests \in Nat

VARIABLES
  status,       \* status[m]: the mission's status; "absent" before it is created
  waypoints,    \* waypoints[m]: the waypoint lists stored for m, each named by
                \* the request that wrote it
  assignments,  \* the rows of mission_assignments
  sent,         \* sent[m]: the lists in the last MissionUploadEvent for m
  sess,         \* sess[s]: the request that session s runs
  requests      \* number of requests started

vars == <<status, waypoints, assignments, sent, sess, requests>>

Requests == 1 .. MaxRequests
RowIds   == Requests \X Vehicles

\* A row is named by the request that inserts it and its vehicle.
Row     == [id : RowIds, m : Missions, v : Vehicles, active : BOOLEAN]
NewRow(n, m, v) == [id |-> <<n, v>>, m |-> m, v |-> v, active |-> TRUE]

Idle == [pc |-> "idle"]
Busy == [pc : {"loaded", "picking", "flushing"},
         call : Calls, n : Requests,
         read : MissionStatus,        \* the mission's status when it was loaded
         lists : SUBSET Requests,     \* its waypoint lists when it was loaded
         loaded : SUBSET RowIds,      \* its rows when it was loaded
         target : SUBSET RowIds,      \* rows selected for an update
         todo : SUBSET Vehicles,      \* vehicles whose assignment is still to be looked up
         new : SUBSET Vehicles]       \* vehicles to insert a row for

TypeOK ==
  /\ status \in [Missions -> MissionStatus \cup {"absent", "deleted"}]
  /\ waypoints \in [Missions -> SUBSET Requests]
  /\ assignments \in SUBSET Row
  /\ sent \in [Missions -> SUBSET Requests]
  /\ sess \in [Sessions -> {Idle} \cup Busy]
  /\ requests \in 0 .. MaxRequests

Init ==
  /\ status = [m \in Missions |-> "absent"]
  /\ waypoints = [m \in Missions |-> {}]
  /\ assignments = {}
  /\ sent = [m \in Missions |-> {}]
  /\ sess = [s \in Sessions |-> Idle]
  /\ requests = 0

Exists(m) == status[m] \notin {"absent", "deleted"}

\* The statuses in which update_mission and delete_mission let a mission change.
Editable == {"draft", "ready"}

ActiveRows(m, v) == {r \in assignments : r.m = m /\ r.v = v /\ r.active}

Ids(rows) == {r.id : r \in rows}

\* UPDATE mission_assignments SET active = false, by primary key.
Deactivated(rows, ids) == {[r EXCEPT !.active = @ /\ r.id \notin ids] : r \in rows}

-----------------------------------------------------------------------------
(* Creating and loading.                                                   *)

\* create_mission inserts a mission, its waypoints and, when a vehicle is
\* given, an assignment.  It reads nothing that another request can change and
\* is one step.  The vehicle_id of a MissionCreate is one vehicle or none.
Create(s, m, vs, filled) ==
  /\ sess[s] = Idle
  /\ status[m] = "absent"
  /\ requests < MaxRequests
  /\ requests' = requests + 1
  /\ status' = [status EXCEPT ![m] = "draft"]
  /\ waypoints' = [waypoints EXCEPT ![m] = IF filled THEN {requests + 1} ELSE {}]
  /\ assignments' = assignments \cup {NewRow(requests + 1, m, v) : v \in vs}
  /\ UNCHANGED <<sent, sess>>

\* Mutant: edits and deletions do not look at the mission's status.
AdmittedInAnyStatus(c) == Exists(c.m) /\ (c.op = "upload" => waypoints[c.m] # {})

\* A request is turned down at once unless the mission exists and its status,
\* or having waypoints, allows it.
Admitted(c) ==
  /\ Exists(c.m)
  /\ c.op \in {"edit", "delete"} => status[c.m] \in Editable
  /\ c.op = "upload" => waypoints[c.m] # {}

\* Otherwise it begins by loading the mission with its waypoints and rows.
Load(s, c) ==
  /\ sess[s] = Idle
  /\ requests < MaxRequests
  /\ Admitted(c)
  /\ requests' = requests + 1
  /\ sess' = [sess EXCEPT ![s] =
       [pc |-> IF c.op \in {"edit", "delete"} THEN "flushing" ELSE "loaded",
        call |-> c, n |-> requests + 1,
        read |-> status[c.m], lists |-> waypoints[c.m],
        loaded |-> Ids({r \in assignments : r.m = c.m}),
        target |-> {}, todo |-> {}, new |-> {}]]
  /\ UNCHANGED <<status, waypoints, assignments, sent>>

\* The request is refused with an HTTP error or fails, and is rolled back.
Abort(s) ==
  /\ sess[s] # Idle
  /\ sess' = [sess EXCEPT ![s] = Idle]
  /\ UNCHANGED <<status, waypoints, assignments, sent, requests>>

Call(s, op, pc) == sess[s].pc = pc /\ sess[s].call.op = op

-----------------------------------------------------------------------------
(* The SELECTs in the middle of a request.                                 *)

\* Mutant: replace_existing only looks at the mission's own assignments.
ReplacedOfMission(c) == {r \in assignments : c.replace /\ r.m = c.m /\ r.v \in c.vs /\ r.active}

\* assign_mission: the active rows of the vehicles, of whatever mission.
Replaced(c) == {r \in assignments : c.replace /\ r.v \in c.vs /\ r.active}

FindReplaced(s) ==
  /\ Call(s, "assign", "loaded")
  /\ sess' = [sess EXCEPT
       ![s].pc = "picking",
       ![s].todo = sess[s].call.vs,
       ![s].target = Ids(Replaced(sess[s].call))]
  /\ UNCHANGED <<status, waypoints, assignments, sent, requests>>

\* Mutant: nobody looks for an existing row.
NoneExisting(s, v) == {}

\* The vehicle's active rows for the mission, after the autoflush of those
\* that are being replaced.
Existing(s, v) == {r \in ActiveRows(sess[s].call.m, v) : r.id \notin sess[s].target}

\* One turn of the loop over vehicle_ids: the vehicle gets a new row unless it
\* has one.  scalar_one_or_none raises when it has several.
PickVehicle(s, v) ==
  /\ Call(s, "assign", "picking")
  /\ v \in sess[s].todo
  /\ Cardinality(Existing(s, v)) <= 1
  /\ sess' = [sess EXCEPT
       ![s].pc = IF sess[s].todo = {v} THEN "flushing" ELSE "picking",
       ![s].todo = @ \ {v},
       ![s].new = IF Existing(s, v) = {} THEN @ \cup {v} ELSE @]
  /\ UNCHANGED <<status, waypoints, assignments, sent, requests>>

\* Mutant: only one of the vehicles is unassigned.
UnassignedOfOne(c) == ActiveRows(c.m, CHOOSE v \in c.vs : TRUE)

\* unassign_mission: the mission's active rows for the vehicles.
Unassigned(c) == UNION {ActiveRows(c.m, v) : v \in c.vs}

FindUnassigned(s) ==
  /\ Call(s, "unassign", "loaded")
  /\ sess' = [sess EXCEPT ![s].pc = "flushing", ![s].target = Ids(Unassigned(sess[s].call))]
  /\ UNCHANGED <<status, waypoints, assignments, sent, requests>>

\* update_mission_status: the one active row of the mission and the vehicle.
FindReported(s) ==
  /\ Call(s, "status", "loaded")
  /\ LET rows == ActiveRows(sess[s].call.m, sess[s].call.v) IN
     /\ Cardinality(rows) = 1
     /\ sess' = [sess EXCEPT ![s].pc = "flushing", ![s].target = Ids(rows)]
  /\ UNCHANGED <<status, waypoints, assignments, sent, requests>>

\* Mutant: a mission that is uploading is not published again.
PublishOnce(s) ==
  /\ Call(s, "upload", "loaded")
  /\ sent' = [sent EXCEPT ![sess[s].call.m] =
       IF sess[s].read = "uploading" THEN @ ELSE sess[s].lists]
  /\ sess' = [sess EXCEPT ![s].pc = "flushing"]
  /\ UNCHANGED <<status, waypoints, assignments, requests>>

\* upload_mission_to_vehicle publishes the mission as it was loaded, before
\* the status is written.
Publish(s) ==
  /\ Call(s, "upload", "loaded")
  /\ sent' = [sent EXCEPT ![sess[s].call.m] = sess[s].lists]
  /\ sess' = [sess EXCEPT ![s].pc = "flushing"]
  /\ UNCHANGED <<status, waypoints, assignments, requests>>

-----------------------------------------------------------------------------
(* Flush and commit.                                                       *)

Commit(s, op) ==
  /\ Call(s, op, "flushing")
  /\ sess' = [sess EXCEPT ![s] = Idle]
  /\ UNCHANGED requests

\* Mutant: the new waypoints are inserted beside the old.
ListsAdded(s) ==
  waypoints[sess[s].call.m] \cup (IF sess[s].call.filled THEN {sess[s].n} ELSE {})

\* The waypoints that were loaded are deleted and the new ones inserted.
ListsAfterEdit(s) ==
  (waypoints[sess[s].call.m] \ sess[s].lists)
    \cup (IF sess[s].call.filled THEN {sess[s].n} ELSE {})

CommitEdit(s) ==
  /\ Commit(s, "edit")
  /\ Exists(sess[s].call.m)
  /\ waypoints' = [waypoints EXCEPT ![sess[s].call.m] = ListsAfterEdit(s)]
  /\ UNCHANGED <<status, assignments, sent>>

\* Mutant: no foreign key protects what was added since the mission was loaded.
DeleteLoadedOnly(s) ==
  /\ Commit(s, "delete")
  /\ LET m == sess[s].call.m IN
     /\ Exists(m)
     /\ status' = [status EXCEPT ![m] = "deleted"]
     /\ waypoints' = [waypoints EXCEPT ![m] = @ \ sess[s].lists]
     /\ assignments' = {r \in assignments : r.id \notin sess[s].loaded}
  /\ UNCHANGED sent

\* The mission goes with the waypoints and rows that were loaded with it; one
\* that was added since makes the foreign key refuse the DELETE.
CommitDelete(s) ==
  /\ Commit(s, "delete")
  /\ LET m == sess[s].call.m
         rows == {r \in assignments : r.m = m} IN
     /\ Exists(m)
     /\ waypoints[m] \subseteq sess[s].lists
     /\ Ids(rows) \subseteq sess[s].loaded
     /\ status' = [status EXCEPT ![m] = "deleted"]
     /\ waypoints' = [waypoints EXCEPT ![m] = {}]
     /\ assignments' = assignments \ rows
  /\ UNCHANGED sent

\* Mutant: an assignment gives the mission a status that does not exist.
UnknownStatus(s) == "assigned"

StatusAfterAssign(s) == IF sess[s].read = "draft" THEN "ready" ELSE status[sess[s].call.m]

\* A row to deactivate that was deleted since makes the UPDATE fail, a mission
\* deleted since an INSERT or the UPDATE of its status.
CommitAssign(s) ==
  /\ Commit(s, "assign")
  /\ sess[s].target \subseteq Ids(assignments)
  /\ Exists(sess[s].call.m) \/ (sess[s].new = {} /\ sess[s].read # "draft")
  /\ assignments' = Deactivated(assignments, sess[s].target)
                      \cup {NewRow(sess[s].n, sess[s].call.m, v) : v \in sess[s].new}
  /\ status' = [status EXCEPT ![sess[s].call.m] = StatusAfterAssign(s)]
  /\ UNCHANGED <<waypoints, sent>>

CommitUnassign(s) ==
  /\ Commit(s, "unassign")
  /\ sess[s].target \subseteq Ids(assignments)
  /\ assignments' = Deactivated(assignments, sess[s].target)
  /\ UNCHANGED <<status, waypoints, sent>>

\* Mutant: the row is written back as it was loaded, not only its status.
StatusWritesWholeRow(s) ==
  /\ Commit(s, "status")
  /\ sess[s].target \subseteq Ids(assignments)
  /\ assignments' = {[r EXCEPT !.active = @ \/ r.id \in sess[s].target] : r \in assignments}
  /\ status' = [status EXCEPT ![sess[s].call.m] = sess[s].call.st]
  /\ UNCHANGED <<waypoints, sent>>

\* The reported status becomes the row's, and the mission's if the mission
\* still has active rows and was loaded with another status.
CommitStatus(s) ==
  /\ Commit(s, "status")
  /\ LET c == sess[s].call IN
     /\ sess[s].target \subseteq Ids(assignments)
     /\ status' = [status EXCEPT ![c.m] =
          IF c.st # sess[s].read /\ (\E r \in assignments : r.m = c.m /\ r.active)
          THEN c.st ELSE @]
  /\ UNCHANGED <<waypoints, assignments, sent>>

CommitUpload(s) ==
  /\ Commit(s, "upload")
  /\ LET m == sess[s].call.m IN
     /\ Exists(m)
     /\ status' = [status EXCEPT ![m] = IF sess[s].read = "uploading" THEN @ ELSE "uploading"]
  /\ UNCHANGED <<waypoints, assignments, sent>>

-----------------------------------------------------------------------------
Step(s) ==
  \/ \E m \in Missions, vs \in {{}} \cup {{v} : v \in Vehicles}, filled \in BOOLEAN :
       Create(s, m, vs, filled)
  \/ \E c \in Calls : Load(s, c)
  \/ Abort(s)
  \/ FindReplaced(s)
  \/ \E v \in Vehicles : PickVehicle(s, v)
  \/ FindUnassigned(s)
  \/ FindReported(s)
  \/ Publish(s)
  \/ CommitEdit(s)
  \/ CommitDelete(s)
  \/ CommitAssign(s)
  \/ CommitUnassign(s)
  \/ CommitStatus(s)
  \/ CommitUpload(s)

Next == \E s \in Sessions : Step(s)

Spec == Init /\ [][Next]_vars

-----------------------------------------------------------------------------
(* Properties.                                                             *)

\* A mission is assigned to a vehicle at most once: scalar_one_or_none in
\* assign_mission and update_mission_status counts on it (service.py:246, 331).
NoDuplicateActive ==
  \A m \in Missions, v \in Vehicles : Cardinality(ActiveRows(m, v)) <= 1

\* An edit replaces the waypoints, it never adds to them (service.py:179).
OneWaypointList == \A m \in Missions : Cardinality(waypoints[m]) <= 1

\* A mission that has left draft and ready keeps its waypoints and is not
\* deleted (service.py:174-175, 202-203).
ActiveMissionKept ==
  [][\A m \in Missions : Exists(m) /\ status[m] \notin Editable =>
       waypoints'[m] = waypoints[m] /\ status'[m] # "deleted"]_vars

\* An upload that is committed has sent the vehicle what is stored, though an earlier one
\* may have been published and rolled back, the mission edited after it, and the vehicle
\* reported that it is uploading the old one (service.py:373-401).
UploadSendsStored ==
  [][\A s \in Sessions : CommitUpload(s) =>
       sent'[sess[s].call.m] = waypoints'[sess[s].call.m]]_vars

\* A request to assign with replace_existing leaves each of its vehicles with
\* one active row, the mission's (service.py:228-257).
AssignIsExclusive ==
  [][\A s \in Sessions : CommitAssign(s) /\ sess[s].call.replace =>
       \A v \in sess[s].call.vs :
          \E r \in assignments' :
             r.m = sess[s].call.m /\ {q \in assignments' : q.v = v /\ q.active} = {r}]_vars

\* A row that was taken out of use is never active again, whatever requests
\* were working on it when it was: history stays history.
DeactivationFinal ==
  [][\A q \in assignments' : \A r \in assignments :
       q.id = r.id /\ ~r.active => ~q.active]_vars

\* Nothing is left of a deleted mission, and nothing is stored for one that was
\* never created, though requests that loaded it earlier are still running.
NoOrphans ==
  /\ \A m \in Missions : ~Exists(m) => waypoints[m] = {}
  /\ \A r \in assignments : Exists(r.m)

\* An unassignment that is committed leaves none of the rows active that the
\* mission had for these vehicles when the request began, although rows come
\* and go meanwhile (service.py:291-303).
UnassignIsComplete ==
  [][\A s \in Sessions : CommitUnassign(s) =>
       \A r \in assignments' :
          r.id \in sess[s].loaded /\ r.v \in sess[s].call.vs => ~r.active]_vars
=============================================================================
