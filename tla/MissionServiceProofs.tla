------------------------ MODULE MissionServiceProofs ------------------------
(***************************************************************************)
(* Proofs about MissionService, for any missions, vehicles and requests.   *)
(* With any number of requests in progress at a time: TypeOK, NoOrphans,   *)
(* DeactivationFinal, UnassignIsComplete. With one at a time:              *)
(* NoDuplicateActive, OneWaypointList, ActiveMissionKept,                  *)
(* AssignIsExclusive and UploadSendsStored, which requests that overlap    *)
(* break.                                                                  *)
(***************************************************************************)
EXTENDS MissionService, FiniteSetTheorems, TLAPS

-----------------------------------------------------------------------------
(* Types.                                                                  *)

LEMMA CallTypes ==
  ASSUME NEW c \in Calls
  PROVE  /\ c.m \in Missions
         /\ c.op \in {"assign", "unassign"} => c.vs \in SUBSET Vehicles
         /\ c.op = "assign" => c.replace \in BOOLEAN
         /\ c.op = "status" => c.v \in Vehicles /\ c.st \in MissionStatus
<1>1. c \in AllCalls
  BY CallsAssumption
<1>2. QED
  BY <1>1 DEF AllCalls

LEMMA IdleOrBusy ==
  ASSUME TypeOK, NEW s \in Sessions
  PROVE  /\ sess[s] \in {Idle} \cup Busy
         /\ sess[s].pc = "idle" <=> sess[s] = Idle
         /\ sess[s] # Idle =>
              /\ sess[s] \in Busy
              /\ sess[s].pc \in {"loaded", "picking", "flushing"}
              /\ sess[s].call \in Calls /\ sess[s].n \in Requests
              /\ sess[s].read \in MissionStatus
              /\ sess[s].lists \in SUBSET Requests
              /\ sess[s].loaded \in SUBSET RowIds /\ sess[s].target \in SUBSET RowIds
              /\ sess[s].todo \in SUBSET Vehicles /\ sess[s].new \in SUBSET Vehicles
<1>1. sess[s] \in {Idle} \cup Busy
  BY DEF TypeOK
<1>2. Idle.pc = "idle" /\ \A b \in Busy : b.pc # "idle"
  BY DEF Idle, Busy
<1>3. QED
  BY <1>1, <1>2 DEF Busy

LEMMA IdsType ==
  ASSUME NEW rows \in SUBSET Row
  PROVE  Ids(rows) \in SUBSET RowIds
BY DEF Ids, Row

LEMMA NewRowType ==
  ASSUME NEW n \in Requests, NEW m \in Missions, NEW v \in Vehicles
  PROVE  NewRow(n, m, v) \in Row
BY DEF NewRow, Row, RowIds

LEMMA DeactivatedType ==
  ASSUME NEW rows \in SUBSET Row, NEW ids
  PROVE  Deactivated(rows, ids) \in SUBSET Row
<1>1. ASSUME NEW r \in Row
      PROVE  [r EXCEPT !.active = @ /\ r.id \notin ids] \in Row
  BY DEF Row
<1>2. QED
  BY <1>1 DEF Deactivated

LEMMA ActiveRowsType ==
  ASSUME TypeOK, NEW m, NEW v
  PROVE  ActiveRows(m, v) \in SUBSET Row
BY DEF TypeOK, ActiveRows

LEMMA TypeInit == Init => TypeOK
BY RequestsAssumption DEF Init, TypeOK

\* What a session becomes keeps sess in its type.
LEMMA SessType ==
  ASSUME TypeOK, NEW s \in Sessions, NEW b \in {Idle} \cup Busy,
         sess' = [sess EXCEPT ![s] = b]
  PROVE  sess' \in [Sessions -> {Idle} \cup Busy]
BY DEF TypeOK

LEMMA TypeNext == TypeOK /\ [Next]_vars => TypeOK'
<1> SUFFICES ASSUME TypeOK, [Next]_vars
             PROVE  TypeOK'
  OBVIOUS
<1> USE RequestsAssumption
<1>0. requests < MaxRequests => requests + 1 \in Requests /\ requests + 1 \in 0 .. MaxRequests
  BY DEF TypeOK, Requests
<1>1. ASSUME NEW s \in Sessions, Step(s)
      PROVE  TypeOK'
  <2>0. sess[s] # Idle => sess[s].call \in Calls /\ sess[s].call.m \in Missions
    BY IdleOrBusy, CallTypes
  <2>1. ASSUME NEW m \in Missions, NEW vs \in {{}} \cup {{v} : v \in Vehicles},
               NEW filled \in BOOLEAN, Create(s, m, vs, filled)
        PROVE  TypeOK'
    <3>1. {NewRow(requests + 1, m, v) : v \in vs} \in SUBSET Row
      BY <1>0, <2>1, NewRowType DEF Create
    <3>2. status' \in [Missions -> MissionStatus \cup {"absent", "deleted"}]
      BY <2>1 DEF Create, TypeOK, MissionStatus
    <3>3. QED
      BY <1>0, <2>1, <3>1, <3>2 DEF Create, TypeOK
  <2>2. ASSUME NEW c \in Calls, Load(s, c)
        PROVE  TypeOK'
    <3> DEFINE b == [pc |-> IF c.op \in {"edit", "delete"} THEN "flushing" ELSE "loaded",
                     call |-> c, n |-> requests + 1,
                     read |-> status[c.m], lists |-> waypoints[c.m],
                     loaded |-> Ids({r \in assignments : r.m = c.m}),
                     target |-> {}, todo |-> {}, new |-> {}]
    <3>1. status[c.m] \in MissionStatus /\ waypoints[c.m] \in SUBSET Requests
      BY <2>2, CallTypes DEF Load, Admitted, Exists, TypeOK
    <3>2. Ids({r \in assignments : r.m = c.m}) \in SUBSET RowIds
      BY IdsType DEF TypeOK
    <3>3. b \in Busy
      BY <1>0, <2>2, <3>1, <3>2 DEF Load, Busy
    <3>4. sess' = [sess EXCEPT ![s] = b]
      BY <2>2 DEF Load
    <3>5. QED
      BY <1>0, <2>2, <3>3, <3>4, SessType DEF Load, TypeOK
  <2>3. CASE Abort(s)
    BY <2>3 DEF Abort, TypeOK
  <2>4. CASE FindReplaced(s)
    <3>1. sess[s] \in Busy /\ sess[s].call.vs \in SUBSET Vehicles
      BY <2>4, IdleOrBusy, CallTypes DEF FindReplaced, Call
    <3>2. Ids(Replaced(sess[s].call)) \in SUBSET RowIds
      BY IdsType DEF TypeOK, Replaced
    <3> DEFINE b == [sess[s] EXCEPT !.pc = "picking",
                                    !.todo = sess[s].call.vs,
                                    !.target = Ids(Replaced(sess[s].call))]
    <3>3. b \in Busy
      BY <3>1, <3>2 DEF Busy
    <3>4. sess' = [sess EXCEPT ![s] = b]
      BY <2>4 DEF FindReplaced, TypeOK
    <3>5. QED
      BY <2>4, <3>3, <3>4, SessType DEF FindReplaced, TypeOK
  <2>5. ASSUME NEW v \in Vehicles, PickVehicle(s, v)
        PROVE  TypeOK'
    <3>1. sess[s] \in Busy
      BY <2>5, IdleOrBusy DEF PickVehicle, Call
    <3> DEFINE b == [sess[s] EXCEPT !.pc = IF sess[s].todo = {v} THEN "flushing" ELSE "picking",
                                    !.todo = @ \ {v},
                                    !.new = IF Existing(s, v) = {} THEN @ \cup {v} ELSE @]
    <3>3. b \in Busy
      BY <3>1 DEF Busy
    <3>4. sess' = [sess EXCEPT ![s] = b]
      BY <2>5 DEF PickVehicle, TypeOK
    <3>5. QED
      BY <2>5, <3>3, <3>4, SessType DEF PickVehicle, TypeOK
  <2>6. CASE FindUnassigned(s)
    <3>1. sess[s] \in Busy
      BY <2>6, IdleOrBusy DEF FindUnassigned, Call
    <3>2. Ids(Unassigned(sess[s].call)) \in SUBSET RowIds
      BY IdsType, ActiveRowsType DEF Unassigned
    <3> DEFINE b == [sess[s] EXCEPT !.pc = "flushing", !.target = Ids(Unassigned(sess[s].call))]
    <3>3. b \in Busy
      BY <3>1, <3>2 DEF Busy
    <3>4. sess' = [sess EXCEPT ![s] = b]
      BY <2>6 DEF FindUnassigned, TypeOK
    <3>5. QED
      BY <2>6, <3>3, <3>4, SessType DEF FindUnassigned, TypeOK
  <2>7. CASE FindReported(s)
    <3>1. sess[s] \in Busy
      BY <2>7, IdleOrBusy DEF FindReported, Call
    <3> DEFINE ids == Ids(ActiveRows(sess[s].call.m, sess[s].call.v))
    <3>2. ids \in SUBSET RowIds
      BY IdsType, ActiveRowsType
    <3> DEFINE b == [sess[s] EXCEPT !.pc = "flushing", !.target = ids]
    <3>3. b \in Busy
      BY <3>1, <3>2 DEF Busy
    <3>4. sess' = [sess EXCEPT ![s] = b]
      BY <2>7 DEF FindReported, TypeOK
    <3>5. QED
      BY <2>7, <3>3, <3>4, SessType DEF FindReported, TypeOK
  <2>8. CASE Publish(s)
    <3>1. sess[s] \in Busy /\ sess[s].lists \in SUBSET Requests
      BY <2>8, IdleOrBusy DEF Publish, Call
    <3> DEFINE b == [sess[s] EXCEPT !.pc = "flushing"]
    <3>3. b \in Busy
      BY <3>1 DEF Busy
    <3>4. sess' = [sess EXCEPT ![s] = b]
      BY <2>8 DEF Publish, TypeOK
    <3>5. sent' \in [Missions -> SUBSET Requests]
      BY <2>8, <3>1 DEF Publish, TypeOK
    <3>6. QED
      BY <2>8, <3>3, <3>4, <3>5, SessType DEF Publish, TypeOK
  <2>9. ASSUME NEW op, Commit(s, op)
        PROVE  /\ sess' \in [Sessions -> {Idle} \cup Busy] /\ requests' \in 0 .. MaxRequests
               /\ sess[s] # Idle /\ sess[s].call.m \in Missions /\ sess[s].call \in Calls
               /\ sess[s].call.op = op
    BY <2>0, <2>9, IdleOrBusy DEF Commit, Call, TypeOK
  <2>10. CASE CommitEdit(s)
    <3>1. ListsAfterEdit(s) \in SUBSET Requests
      BY <2>9, <2>10, IdleOrBusy DEF CommitEdit, ListsAfterEdit, TypeOK
    <3>2. QED
      BY <2>9, <2>10, <3>1 DEF CommitEdit, TypeOK
  <2>11. CASE CommitDelete(s)
    BY <2>9, <2>11 DEF CommitDelete, TypeOK
  <2>12. CASE CommitAssign(s)
    <3>1. assignments' \in SUBSET Row
      <4>1. {NewRow(sess[s].n, sess[s].call.m, v) : v \in sess[s].new} \in SUBSET Row
        BY <2>9, <2>12, IdleOrBusy, NewRowType DEF CommitAssign
      <4>2. Deactivated(assignments, sess[s].target) \in SUBSET Row
        BY DeactivatedType DEF TypeOK
      <4>3. QED
        BY <2>12, <4>1, <4>2 DEF CommitAssign
    <3>2. StatusAfterAssign(s) \in MissionStatus \cup {"absent", "deleted"}
      BY <2>9, <2>12 DEF CommitAssign, StatusAfterAssign, TypeOK, MissionStatus
    <3>3. QED
      BY <2>9, <2>12, <3>1, <3>2 DEF CommitAssign, TypeOK
  <2>13. CASE CommitUnassign(s)
    BY <2>9, <2>13, DeactivatedType DEF CommitUnassign, TypeOK
  <2>14. CASE CommitStatus(s)
    BY <2>9, <2>14, CallTypes DEF CommitStatus, TypeOK
  <2>15. CASE CommitUpload(s)
    BY <2>9, <2>15 DEF CommitUpload, TypeOK, MissionStatus
  <2>16. QED
    BY <1>1, <2>1, <2>2, <2>3, <2>4, <2>5, <2>6, <2>7, <2>8, <2>10, <2>11,
       <2>12, <2>13, <2>14, <2>15 DEF Step
<1>2. CASE UNCHANGED vars
  BY <1>2 DEF vars, TypeOK
<1>3. QED
  BY <1>1, <1>2 DEF Next

\* The database and the sessions never leave their types, for any requests.
THEOREM TypeCorrect == Spec => []TypeOK
<1>1. QED
  BY TypeInit, TypeNext, PTL DEF Spec

-----------------------------------------------------------------------------
(* Deleted missions.                                                       *)

\* What becomes of the rows when some are deactivated.
LEMMA DeactivatedRows ==
  ASSUME NEW rows \in SUBSET Row, NEW ids
  PROVE  \A q \in Deactivated(rows, ids) : \E r \in rows :
            /\ q.id = r.id /\ q.m = r.m /\ q.v = r.v
            /\ q.active = (r.active /\ r.id \notin ids)
            /\ q = [r EXCEPT !.active = r.active /\ r.id \notin ids]
BY DEF Deactivated, Row

LEMMA NewRowFields ==
  ASSUME NEW n, NEW m, NEW v
  PROVE  /\ NewRow(n, m, v).id = <<n, v>> /\ NewRow(n, m, v).m = m
         /\ NewRow(n, m, v).v = v /\ NewRow(n, m, v).active
BY DEF NewRow

LEMMA NoOrphansNext == TypeOK /\ NoOrphans /\ [Next]_vars => NoOrphans'
<1> SUFFICES ASSUME TypeOK, NoOrphans, [Next]_vars
             PROVE  NoOrphans'
  OBVIOUS
\* A step that only writes the status of an existing mission, and no waypoints.
<1>a. ASSUME NEW m \in Missions, Exists(m), NEW st \in MissionStatus,
             status' = [status EXCEPT ![m] = st], UNCHANGED <<waypoints, assignments>>
      PROVE  NoOrphans'
  BY <1>a DEF NoOrphans, Exists, TypeOK, MissionStatus
<1>b. ASSUME UNCHANGED <<status, waypoints, assignments>>
      PROVE  NoOrphans'
  BY SMTT(30), <1>b DEF NoOrphans, Exists
<1>1. ASSUME NEW s \in Sessions, Step(s)
      PROVE  NoOrphans'
  <2>1. ASSUME NEW m \in Missions, NEW vs \in {{}} \cup {{v} : v \in Vehicles},
               NEW filled \in BOOLEAN, Create(s, m, vs, filled)
        PROVE  NoOrphans'
    <3>1. \A k \in Missions : Exists(k)' <=> Exists(k) \/ k = m
      BY <2>1 DEF Create, Exists, TypeOK
    <3>2. \A r \in assignments' : r \in assignments \/ r.m = m
      BY <2>1, NewRowFields DEF Create
    <3>3. \A k \in Missions : k # m => waypoints'[k] = waypoints[k]
      BY <2>1 DEF Create, TypeOK
    <3>4. \A r \in assignments : r.m \in Missions
      BY DEF TypeOK, Row
    <3>5. QED
      BY <3>1, <3>2, <3>3, <3>4 DEF NoOrphans
  <2>2. ASSUME NEW op, Commit(s, op)
        PROVE  sess[s].call.m \in Missions /\ sess[s].call \in Calls /\ sess[s].call.op = op
    BY <2>2, IdleOrBusy, CallTypes DEF Commit, Call
  <2>3. CASE CommitEdit(s)
    BY <2>3 DEF CommitEdit, NoOrphans, Exists, TypeOK
  <2>4. CASE CommitDelete(s)
    <3>1. sess[s].call.m \in Missions
      BY <2>2, <2>4 DEF CommitDelete
    <3>2. \A k \in Missions : Exists(k)' <=> Exists(k) /\ k # sess[s].call.m
      BY <2>4, <3>1 DEF CommitDelete, Exists, TypeOK
    <3>3. \A r \in assignments' : r \in assignments /\ r.m # sess[s].call.m /\ r.m \in Missions
      BY <2>4 DEF CommitDelete, TypeOK, Row
    <3>4. /\ waypoints'[sess[s].call.m] = {}
          /\ \A k \in Missions : k # sess[s].call.m => waypoints'[k] = waypoints[k]
      BY <2>4, <3>1 DEF CommitDelete, TypeOK
    <3>5. QED
      BY <3>2, <3>3, <3>4 DEF NoOrphans
  <2>5. CASE CommitAssign(s)
    <3> DEFINE m == sess[s].call.m
    <3>1. m \in Missions
      BY <2>2, <2>5 DEF CommitAssign
    <3>2. \A k \in Missions : Exists(k)' <=> Exists(k)
      BY <2>5, <3>1 DEF CommitAssign, StatusAfterAssign, Exists, TypeOK
    <3>3. \A r \in assignments' : r.m \in Missions /\ Exists(r.m)
      <4>1. \A r \in Deactivated(assignments, sess[s].target) : r.m \in Missions /\ Exists(r.m)
        BY DeactivatedRows DEF TypeOK, Row, NoOrphans
      <4>2. sess[s].new # {} => Exists(m)
        BY <2>5 DEF CommitAssign
      <4>3. QED
        BY <2>5, <3>1, <4>1, <4>2, NewRowFields DEF CommitAssign
    <3>4. UNCHANGED waypoints
      BY <2>5 DEF CommitAssign
    <3>5. QED
      BY <3>2, <3>3, <3>4 DEF NoOrphans
  <2>6. CASE CommitUnassign(s)
    <3>1. \A r \in assignments' : Exists(r.m)
      <4>1. \A r \in Deactivated(assignments, sess[s].target) : Exists(r.m)
        BY DeactivatedRows DEF TypeOK, Row, NoOrphans
      <4>2. QED
        BY <2>6, <4>1 DEF CommitUnassign
    <3>2. QED
      BY <2>6, <3>1 DEF CommitUnassign, NoOrphans, Exists
  <2>7. CASE CommitStatus(s)
    <3> DEFINE c == sess[s].call
    <3>1. c.m \in Missions /\ c.st \in MissionStatus
      BY <2>2, <2>7, CallTypes DEF CommitStatus
    <3>2. CASE c.st # sess[s].read /\ \E r \in assignments : r.m = c.m /\ r.active
      BY <1>a, <2>7, <3>1, <3>2 DEF CommitStatus, NoOrphans
    <3>3. CASE ~(c.st # sess[s].read /\ \E r \in assignments : r.m = c.m /\ r.active)
      BY <1>b, <2>7, <3>1, <3>3 DEF CommitStatus, TypeOK
    <3>4. QED
      BY <3>2, <3>3
  <2>8. CASE CommitUpload(s)
    <3>1. \E st \in MissionStatus : status' = [status EXCEPT ![sess[s].call.m] = st]
      BY <2>2, <2>8 DEF CommitUpload, TypeOK, Exists, MissionStatus
    <3>2. QED
      BY <1>a, <2>2, <2>8, <3>1 DEF CommitUpload
  <2>9. QED
    BY <1>1, <1>b, <2>1, <2>3, <2>4, <2>5, <2>6, <2>7, <2>8
       DEF Step, Load, Abort, FindReplaced, PickVehicle, FindUnassigned, FindReported, Publish
<1>2. QED
  BY <1>1, <1>b DEF Next, vars

\* However requests interleave, a deleted mission leaves no waypoints and no
\* assignments behind, and none is ever stored for it afterwards.
THEOREM DeletedLeavesNothing == Spec => []NoOrphans
<1>1. Init => NoOrphans
  BY DEF Init, NoOrphans
<1>2. QED
  BY <1>1, NoOrphansNext, TypeCorrect, PTL DEF Spec

-----------------------------------------------------------------------------
(* Rows taken out of use.                                                  *)

\* Every row carries the number of the request that inserted it, and no two
\* rows or requests in progress share one.
RowsNamed ==
  /\ \A r \in assignments : r.id[1] \in 1 .. requests
  /\ \A r, q \in assignments : r.id = q.id => r = q
  /\ \A s \in Sessions : sess[s] # Idle =>
        sess[s].n \in 1 .. requests /\ \A r \in assignments : r.id[1] # sess[s].n
  /\ \A s, t \in Sessions : s # t /\ sess[s] # Idle /\ sess[t] # Idle => sess[s].n # sess[t].n

\* A session keeps its request's number until it is idle again.
LEMMA NumbersKept ==
  ASSUME TypeOK, NEW s \in Sessions, Step(s)
  PROVE  /\ requests' \in {requests, requests + 1}
         /\ \A t \in Sessions : t # s => sess'[t] = sess[t]
         /\ sess'[s] # Idle => sess'[s].n = (IF sess[s] = Idle THEN requests + 1 ELSE sess[s].n)
         /\ sess[s] = Idle /\ sess'[s] # Idle => requests' = requests + 1 /\ UNCHANGED assignments
<1>1. ASSUME NEW m \in Missions, NEW vs \in {{}} \cup {{v} : v \in Vehicles},
             NEW filled \in BOOLEAN, Create(s, m, vs, filled)
      PROVE  UNCHANGED sess /\ sess[s] = Idle /\ requests' = requests + 1
  BY <1>1 DEF Create
<1>2. ASSUME NEW c \in Calls, Load(s, c)
      PROVE  /\ requests' = requests + 1 /\ sess[s] = Idle /\ sess'[s].n = requests + 1
             /\ UNCHANGED assignments
             /\ \A t \in Sessions : t # s => sess'[t] = sess[t]
  BY <1>2 DEF Load, TypeOK
<1>3. CASE /\ UNCHANGED requests
           /\ \A t \in Sessions : t # s => sess'[t] = sess[t]
           /\ sess[s] # Idle
           /\ sess'[s] = Idle \/ sess'[s].n = sess[s].n
  BY <1>3
<1>4. ASSUME NEW b \in Busy,
             \/ sess' = [sess EXCEPT ![s] = Idle]
             \/ sess' = [sess EXCEPT ![s] = b] /\ b.n = sess[s].n
      PROVE  /\ \A t \in Sessions : t # s => sess'[t] = sess[t]
             /\ sess'[s] = Idle \/ sess'[s].n = sess[s].n
  BY <1>4 DEF TypeOK
<1>5. CASE Abort(s)
  BY <1>3, <1>5 DEF Abort, TypeOK
<1>6. ASSUME NEW op, Commit(s, op)
      PROVE  /\ UNCHANGED requests
             /\ \A t \in Sessions : t # s => sess'[t] = sess[t]
             /\ sess[s] # Idle /\ sess'[s] = Idle
  BY <1>6, IdleOrBusy DEF Commit, Call, TypeOK
<1>7. CASE FindReplaced(s)
  <2>1. sess[s] # Idle /\ sess[s] \in Busy
    BY <1>7, IdleOrBusy DEF FindReplaced, Call
  <2>2. sess'[s].n = sess[s].n /\ \A t \in Sessions : t # s => sess'[t] = sess[t]
    BY <1>7, <2>1 DEF FindReplaced, TypeOK, Busy
  <2>3. QED
    BY <1>3, <1>7, <2>1, <2>2 DEF FindReplaced
<1>8. ASSUME NEW v \in Vehicles, PickVehicle(s, v)
      PROVE  sess[s] # Idle /\ sess'[s].n = sess[s].n /\ \A t \in Sessions : t # s => sess'[t] = sess[t]
  <2>1. sess[s] # Idle /\ sess[s] \in Busy
    BY <1>8, IdleOrBusy DEF PickVehicle, Call
  <2>2. QED
    BY <1>8, <2>1 DEF PickVehicle, TypeOK, Busy
<1>9. CASE FindUnassigned(s) \/ FindReported(s) \/ Publish(s)
  <2>1. sess[s] # Idle /\ sess[s] \in Busy
    BY <1>9, IdleOrBusy DEF FindUnassigned, FindReported, Publish, Call
  <2>2. sess'[s].n = sess[s].n /\ \A t \in Sessions : t # s => sess'[t] = sess[t]
    BY <1>9, <2>1 DEF FindUnassigned, FindReported, Publish, TypeOK, Busy
  <2>3. UNCHANGED requests
    BY <1>9 DEF FindUnassigned, FindReported, Publish
  <2>4. QED
    BY <1>3, <2>1, <2>2, <2>3
<1>10. CASE \E op \in {"edit", "delete", "assign", "unassign", "status", "upload"} : Commit(s, op)
  BY <1>3, <1>6, <1>10
<1>11. QED
  BY <1>1, <1>2, <1>3, <1>5, <1>7, <1>8, <1>9, <1>10
     DEF Step, PickVehicle, CommitEdit, CommitDelete, CommitAssign, CommitUnassign,
         CommitStatus, CommitUpload

\* The number of the request that a step of s belongs to.
Number(s) == IF sess[s] = Idle THEN requests + 1 ELSE sess[s].n

\* What a step makes of the rows: it keeps, deactivates or removes those there
\* are, and inserts rows only in the name of a request that ends with it.
LEMMA RowsOfStep ==
  ASSUME TypeOK, NEW s \in Sessions, Step(s)
  PROVE  \E ids, m, vs :
           /\ assignments' \subseteq Deactivated(assignments, ids)
                                       \cup {NewRow(Number(s), m, v) : v \in vs}
           /\ vs # {} => /\ sess'[s] = Idle
                         /\ sess[s] = Idle => requests' = requests + 1
<1>0. Deactivated(assignments, {}) = assignments
  <2>1. \A r \in assignments : [r EXCEPT !.active = @ /\ r.id \notin {}] = r
    BY DEF TypeOK, Row
  <2>2. QED
    BY <2>1 DEF Deactivated
<1>1. ASSUME NEW m \in Missions, NEW vs \in {{}} \cup {{v} : v \in Vehicles},
             NEW filled \in BOOLEAN, Create(s, m, vs, filled)
      PROVE  /\ assignments' \subseteq Deactivated(assignments, {})
                                          \cup {NewRow(Number(s), m, v) : v \in vs}
             /\ sess'[s] = Idle /\ requests' = requests + 1
  BY <1>0, <1>1 DEF Create, Number
<1>2. CASE assignments' \subseteq assignments
  <2>1. assignments' \subseteq Deactivated(assignments, {}) \cup {NewRow(Number(s), {}, v) : v \in {}}
    BY <1>0, <1>2
  <2>2. QED
    BY <2>1
<1>3. CASE CommitAssign(s)
  <2>1. sess[s] # Idle /\ sess'[s] = Idle
    BY <1>3, IdleOrBusy DEF CommitAssign, Commit, Call, TypeOK
  <2>2. assignments' \subseteq Deactivated(assignments, sess[s].target)
                 \cup {NewRow(Number(s), sess[s].call.m, v) : v \in sess[s].new}
    BY <1>3, <2>1 DEF CommitAssign, Number
  <2>3. QED
    BY <2>1, <2>2
<1>4. CASE CommitUnassign(s)
  <2>1. assignments' \subseteq Deactivated(assignments, sess[s].target)
                                 \cup {NewRow(Number(s), {}, v) : v \in {}}
    BY <1>4 DEF CommitUnassign
  <2>2. QED
    BY <2>1
<1>5. CASE \E m \in Missions, vs \in {{}} \cup {{v} : v \in Vehicles}, filled \in BOOLEAN :
             Create(s, m, vs, filled)
  <2>1. PICK m \in Missions, vs \in {{}} \cup {{v} : v \in Vehicles}, filled \in BOOLEAN :
             Create(s, m, vs, filled)
    BY <1>5
  <2>2. /\ assignments' \subseteq Deactivated(assignments, {})
                                    \cup {NewRow(Number(s), m, v) : v \in vs}
        /\ sess'[s] = Idle /\ requests' = requests + 1
    BY <1>1, <2>1
  <2>3. QED
    BY <2>2
<1>6. QED
  BY <1>2, <1>3, <1>4, <1>5
     DEF Step, Load, Abort, FindReplaced, PickVehicle, FindUnassigned, FindReported, Publish,
         CommitEdit, CommitDelete, CommitStatus, CommitUpload

LEMMA RowsNamedNext == TypeOK /\ RowsNamed /\ [Next]_vars => RowsNamed'
<1> SUFFICES ASSUME TypeOK, RowsNamed, [Next]_vars
             PROVE  RowsNamed'
  OBVIOUS
<1>1. ASSUME NEW s \in Sessions, Step(s)
      PROVE  RowsNamed'
  <2>1. PICK ids, m, vs :
           /\ assignments' \subseteq Deactivated(assignments, ids)
                                       \cup {NewRow(Number(s), m, v) : v \in vs}
           /\ vs # {} => /\ sess'[s] = Idle
                         /\ sess[s] = Idle => requests' = requests + 1
    BY <1>1, RowsOfStep
  <2>2. /\ requests \in Nat /\ requests' \in {requests, requests + 1}
        /\ \A t \in Sessions : t # s => sess'[t] = sess[t]
        /\ sess'[s] # Idle => sess'[s].n = Number(s)
        /\ sess[s] = Idle /\ sess'[s] # Idle => requests' = requests + 1
    BY <1>1, NumbersKept DEF TypeOK, Number
  <2>3. \A r \in assignments : r.id[1] \in 1 .. requests /\ r.id[1] # Number(s)
    BY <2>2 DEF RowsNamed, Number
  <2>4. \A t \in Sessions : t # s /\ sess[t] # Idle => sess[t].n # Number(s)
    BY <2>2 DEF RowsNamed, Number
  <2>5. vs # {} \/ sess'[s] # Idle => Number(s) \in 1 .. requests'
    BY <2>1, <2>2 DEF RowsNamed, Number
  <2>6. \A q \in Deactivated(assignments, ids) : \E r \in assignments :
           q.id = r.id /\ q = [r EXCEPT !.active = r.active /\ r.id \notin ids]
    BY DeactivatedRows DEF TypeOK
  <2>7. \A q \in assignments' :
           \/ q \in Deactivated(assignments, ids)
           \/ vs # {} /\ q = NewRow(Number(s), m, q.v) /\ q.id = <<Number(s), q.v>>
    BY <2>1, NewRowFields
  <2>8. \A q \in assignments' : q.id[1] \in 1 .. requests'
    BY <2>2, <2>3, <2>5, <2>6, <2>7
  <2>9. \A q, p \in assignments' : q.id = p.id => q = p
    <3>1. ASSUME NEW q \in assignments', NEW p \in assignments', q.id = p.id
          PROVE  q = p
      <4>1. CASE q \in Deactivated(assignments, ids) /\ p \in Deactivated(assignments, ids)
        BY <2>6, <3>1, <4>1 DEF RowsNamed
      <4>2. CASE q \in Deactivated(assignments, ids) /\ p \notin Deactivated(assignments, ids)
        BY <2>3, <2>6, <2>7, <3>1, <4>2
      <4>3. CASE q \notin Deactivated(assignments, ids) /\ p \in Deactivated(assignments, ids)
        BY <2>3, <2>6, <2>7, <3>1, <4>3
      <4>4. CASE q \notin Deactivated(assignments, ids) /\ p \notin Deactivated(assignments, ids)
        BY <2>7, <3>1, <4>4
      <4>5. QED
        BY <4>1, <4>2, <4>3, <4>4
    <3>2. QED
      BY <3>1
  <2>10. ASSUME NEW t \in Sessions, sess'[t] # Idle
         PROVE  sess'[t].n \in 1 .. requests' /\ \A q \in assignments' : q.id[1] # sess'[t].n
    <3>1. CASE t = s
      <4>1. vs = {} /\ sess'[t].n = Number(s)
        BY <2>1, <2>2, <2>10, <3>1
      <4>2. QED
        BY <2>3, <2>5, <2>6, <2>7, <2>10, <3>1, <4>1
    <3>2. CASE t # s
      <4>1. sess'[t].n = sess[t].n /\ sess[t] # Idle
        BY <2>2, <2>10, <3>2
      <4>2. sess[t].n \in 1 .. requests /\ \A r \in assignments : r.id[1] # sess[t].n
        BY <4>1 DEF RowsNamed
      <4>3. QED
        BY <2>2, <2>4, <2>6, <2>7, <3>2, <4>1, <4>2
    <3>3. QED
      BY <3>1, <3>2
  <2>11. \A t, u \in Sessions : t # u /\ sess'[t] # Idle /\ sess'[u] # Idle => sess'[t].n # sess'[u].n
    BY <2>2, <2>4 DEF RowsNamed
  <2>12. QED
    BY <2>8, <2>9, <2>10, <2>11 DEF RowsNamed
<1>2. CASE UNCHANGED vars
  BY <1>2 DEF vars, RowsNamed
<1>3. QED
  BY <1>1, <1>2 DEF Next

LEMMA RowsNamedInvariant == Spec => []RowsNamed
<1>1. Init => RowsNamed
  BY DEF Init, RowsNamed
<1>2. QED
  BY <1>1, RowsNamedNext, TypeCorrect, PTL DEF Spec

\* A deactivated assignment stays deactivated, whichever requests loaded it
\* while it was active and write to it later.
THEOREM DeactivatedForGood == Spec => DeactivationFinal
<1> DEFINE Kept == \A q \in assignments' : \A r \in assignments :
                      q.id = r.id /\ ~r.active => ~q.active
<1>1. TypeOK /\ RowsNamed /\ [Next]_vars => [Kept]_vars
  <2> SUFFICES ASSUME TypeOK, RowsNamed, Next
               PROVE  Kept
    OBVIOUS
  <2>1. PICK s \in Sessions : Step(s)
    BY DEF Next
  <2>2. PICK ids, m, vs :
           assignments' \subseteq Deactivated(assignments, ids)
                                    \cup {NewRow(Number(s), m, v) : v \in vs}
    BY <2>1, RowsOfStep
  <2>3. ASSUME NEW q \in assignments', NEW r \in assignments, q.id = r.id, ~r.active
        PROVE  ~q.active
    <3>1. r.id[1] # Number(s)
      BY DEF RowsNamed, Number, TypeOK
    <3>2. q \in Deactivated(assignments, ids)
      BY <2>2, <2>3, <3>1, NewRowFields
    <3>3. PICK p \in assignments : q.id = p.id /\ q.active = (p.active /\ p.id \notin ids)
      BY <3>2, DeactivatedRows DEF TypeOK
    <3>4. p = r
      BY <2>3, <3>3 DEF RowsNamed
    <3>5. QED
      BY <2>3, <3>3, <3>4
  <2>4. QED
    BY <2>3
<1>2. QED
  BY <1>1, TypeCorrect, RowsNamedInvariant, PTL DEF Spec, DeactivationFinal

-----------------------------------------------------------------------------
(* One request at a time.                                                  *)

LEMMA AtMostOne ==
  ASSUME NEW S, \A a, b \in S : a = b
  PROVE  Cardinality(S) <= 1
<1>1. CASE S = {}
  BY <1>1, FS_EmptySet
<1>2. CASE S # {}
  <2>1. PICK x : S = {x}
    BY <1>2
  <2>2. QED
    BY <2>1, FS_Singleton
<1>3. QED
  BY <1>1, <1>2

\* What a request loaded is still so when it commits: nobody else writes.
LoadedIsCurrent ==
  \A s \in Sessions : sess[s] # Idle =>
     /\ sess[s].lists = waypoints[sess[s].call.m]
     /\ sess[s].read = status[sess[s].call.m]
     /\ sess[s].call.op \in {"edit", "delete"} => sess[s].read \in Editable

SoleList == \A m \in Missions : \A a, b \in waypoints[m] : a = b

SoleRow == \A q, r \in assignments :
              q.m = r.m /\ q.v = r.v /\ q.active /\ r.active => q = r

\* A vehicle gets a new row only if its active ones are being replaced.
PickedAreFree ==
  \A s \in Sessions : sess[s] # Idle =>
     /\ sess[s].pc = "loaded" => sess[s].new = {}
     /\ \A v \in sess[s].new : \A r \in assignments :
        r.m = sess[s].call.m /\ r.v = v /\ r.active => r.id \in sess[s].target

\* While a request is in progress its mission stays loaded as it was.
LEMMA SessKept ==
  ASSUME TypeOK, NEW s \in Sessions, Step(s), sess[s] # Idle, sess'[s] # Idle
  PROVE  /\ UNCHANGED <<status, waypoints, assignments>>
         /\ sess'[s].call = sess[s].call /\ sess'[s].lists = sess[s].lists
         /\ sess'[s].read = sess[s].read /\ sess'[s].pc # "loaded"
         /\ \/ sess'[s].new = sess[s].new
                 /\ sess'[s].target = sess[s].target
            \/ sess[s].pc = "loaded" /\ sess'[s].new = sess[s].new
            \/ \E v \in Vehicles : /\ Existing(s, v) = {}
                                   /\ sess'[s].new = sess[s].new \cup {v}
                                   /\ sess'[s].target = sess[s].target
<1>0. sess[s] \in Busy
  BY IdleOrBusy
<1>1. ASSUME NEW op, Commit(s, op)
      PROVE  FALSE
  BY <1>1 DEF Commit, TypeOK
<1>2. CASE FindReplaced(s)
  BY <1>0, <1>2 DEF FindReplaced, Call, TypeOK, Busy
<1>3. CASE FindUnassigned(s)
  BY <1>0, <1>3 DEF FindUnassigned, Call, TypeOK, Busy
<1>4. CASE FindReported(s)
  BY <1>0, <1>4 DEF FindReported, Call, TypeOK, Busy
<1>5. CASE Publish(s)
  BY <1>0, <1>5 DEF Publish, Call, TypeOK, Busy
<1>6. ASSUME NEW v \in Vehicles, PickVehicle(s, v)
      PROVE  /\ UNCHANGED <<status, waypoints, assignments>>
             /\ sess'[s].call = sess[s].call /\ sess'[s].lists = sess[s].lists
             /\ sess'[s].read = sess[s].read /\ sess'[s].target = sess[s].target
             /\ sess'[s].pc # "loaded"
             /\ \/ sess'[s].new = sess[s].new
                \/ Existing(s, v) = {} /\ sess'[s].new = sess[s].new \cup {v}
  BY <1>0, <1>6 DEF PickVehicle, TypeOK, Busy
<1>7. QED
  BY <1>1, <1>2, <1>3, <1>4, <1>5, <1>6
     DEF Step, Create, Load, Abort, TypeOK, CommitEdit, CommitDelete, CommitAssign, CommitUnassign,
         CommitStatus, CommitUpload

\* A request begins by loading its mission.
LEMMA BeginsWithLoad ==
  ASSUME TypeOK, NEW s \in Sessions, Step(s), sess[s] = Idle, sess'[s] # Idle
  PROVE  \E c \in Calls : Load(s, c)
<1>1. sess[s].pc = "idle"
  BY IdleOrBusy
<1>2. QED
  BY <1>1
     DEF Step, Create, Abort, FindReplaced, PickVehicle, FindUnassigned, FindReported, Publish,
         Commit, CommitEdit, CommitDelete, CommitAssign, CommitUnassign, CommitStatus,
         CommitUpload, Call

LEMMA LoadedIsCurrentNext ==
  ASSUME NEW s0, Sessions = {s0}, TypeOK, LoadedIsCurrent, [Next]_vars
  PROVE  LoadedIsCurrent'
<1>1. CASE UNCHANGED vars
  BY <1>1 DEF vars, LoadedIsCurrent
<1>2. CASE Step(s0)
  <2>1. CASE sess'[s0] = Idle
    BY <2>1 DEF LoadedIsCurrent
  <2>2. CASE sess[s0] = Idle /\ sess'[s0] # Idle
    <3>1. PICK c \in Calls : Load(s0, c)
      BY <1>2, <2>2, BeginsWithLoad
    <3>2. /\ sess'[s0].call = c /\ sess'[s0].lists = waypoints[c.m]
          /\ sess'[s0].read = status[c.m] /\ UNCHANGED <<status, waypoints>>
          /\ c.op \in {"edit", "delete"} => status[c.m] \in Editable
      BY <3>1 DEF Load, Admitted, TypeOK
    <3>3. QED
      BY <3>2 DEF LoadedIsCurrent
  <2>3. CASE sess[s0] # Idle /\ sess'[s0] # Idle
    BY <1>2, <2>3, SessKept DEF LoadedIsCurrent
  <2>4. QED
    BY <2>1, <2>2, <2>3
<1>3. QED
  BY <1>1, <1>2 DEF Next

LEMMA LoadedIsCurrentInvariant ==
  ASSUME NEW s0, Sessions = {s0}
  PROVE  Spec => []LoadedIsCurrent
<1>1. Init => LoadedIsCurrent
  BY DEF Init, LoadedIsCurrent
<1>2. TypeOK /\ LoadedIsCurrent /\ [Next]_vars => LoadedIsCurrent'
  BY LoadedIsCurrentNext
<1>3. QED
  BY <1>1, <1>2, TypeCorrect, PTL DEF Spec

LEMMA SoleListNext ==
  ASSUME NEW s0, Sessions = {s0}, TypeOK, LoadedIsCurrent, SoleList, [Next]_vars
  PROVE  SoleList'
<1>1. CASE UNCHANGED waypoints
  BY <1>1 DEF SoleList
<1>2. ASSUME NEW m \in Missions, NEW vs \in {{}} \cup {{v} : v \in Vehicles},
             NEW filled \in BOOLEAN, Create(s0, m, vs, filled)
      PROVE  SoleList'
  BY <1>2 DEF Create, SoleList, TypeOK
<1>3. CASE CommitEdit(s0)
  <2>1. sess[s0] # Idle /\ sess[s0].call.m \in Missions
    BY <1>3, IdleOrBusy, CallTypes DEF CommitEdit, Commit, Call
  <2>2. sess[s0].lists = waypoints[sess[s0].call.m]
    BY <2>1 DEF LoadedIsCurrent
  <2>3. ListsAfterEdit(s0) \subseteq {sess[s0].n}
    BY <2>2 DEF ListsAfterEdit
  <2>4. waypoints' = [waypoints EXCEPT ![sess[s0].call.m] = ListsAfterEdit(s0)]
    BY <1>3 DEF CommitEdit
  <2>5. QED
    BY <2>1, <2>3, <2>4 DEF SoleList, TypeOK
<1>4. CASE CommitDelete(s0)
  BY <1>4 DEF CommitDelete, SoleList, TypeOK
<1>5. QED
  BY ZenonT(40), <1>1, <1>2, <1>3, <1>4
     DEF Next, Step, vars, Load, Abort, FindReplaced, PickVehicle, FindUnassigned, FindReported,
         Publish, CommitAssign, CommitUnassign, CommitStatus, CommitUpload

\* With one request at a time an edit replaces the waypoints: a mission never
\* has two lists (update_mission, service.py:179-192).
THEOREM SerialEditsReplace ==
  ASSUME NEW s0, Sessions = {s0}
  PROVE  Spec => []OneWaypointList
<1>1. Init => SoleList
  BY DEF Init, SoleList
<1>2. TypeOK /\ LoadedIsCurrent /\ SoleList /\ [Next]_vars => SoleList'
  BY SoleListNext
<1>3. SoleList => OneWaypointList
  BY AtMostOne DEF SoleList, OneWaypointList
<1>4. QED
  BY <1>1, <1>2, <1>3, TypeCorrect, LoadedIsCurrentInvariant, PTL DEF Spec

\* With one request at a time a mission that left draft and ready keeps its
\* waypoints and is not deleted (service.py:174-175, 202-203).
THEOREM SerialActiveMissionKept ==
  ASSUME NEW s0, Sessions = {s0}
  PROVE  Spec => ActiveMissionKept
<1> DEFINE Kept == \A m \in Missions : Exists(m) /\ status[m] \notin Editable =>
                      waypoints'[m] = waypoints[m] /\ status'[m] # "deleted"
<1>1. ASSUME TypeOK, LoadedIsCurrent, [Next]_vars, NEW m \in Missions,
             Exists(m), status[m] \notin Editable
      PROVE  waypoints'[m] = waypoints[m] /\ status'[m] # "deleted"
  <2>0. status[m] # "deleted" /\ status[m] # "absent"
    BY <1>1 DEF Exists
  <2>1. CASE UNCHANGED <<status, waypoints>>
    BY <2>0, <2>1
  <2>2. ASSUME NEW k \in Missions, NEW vs \in {{}} \cup {{v} : v \in Vehicles},
               NEW filled \in BOOLEAN, Create(s0, k, vs, filled)
        PROVE  waypoints'[m] = waypoints[m] /\ status'[m] # "deleted"
    BY <1>1, <2>0, <2>2 DEF Create, TypeOK
  <2>3. CASE CommitEdit(s0) \/ CommitDelete(s0)
    <3>1. sess[s0] # Idle /\ sess[s0].call.op \in {"edit", "delete"}
      BY <1>1, <2>3, IdleOrBusy DEF CommitEdit, CommitDelete, Commit, Call
    <3>2. m # sess[s0].call.m
      BY <1>1, <3>1 DEF LoadedIsCurrent
    <3>3. QED
      BY <1>1, <2>0, <2>3, <3>2 DEF CommitEdit, CommitDelete, TypeOK
  <2>4. CASE CommitAssign(s0)
    BY <1>1, <2>0, <2>4 DEF CommitAssign, StatusAfterAssign, TypeOK
  <2>5. CASE CommitStatus(s0)
    <3>1. sess[s0] # Idle /\ sess[s0].call.st \in MissionStatus
      BY <1>1, <2>5, IdleOrBusy, CallTypes DEF CommitStatus, Commit, Call
    <3>2. sess[s0].call.st # "deleted"
      BY <3>1 DEF MissionStatus
    <3>3. QED
      BY <1>1, <2>0, <2>5, <3>2 DEF CommitStatus, TypeOK
  <2>6. CASE CommitUpload(s0)
    BY <1>1, <2>0, <2>6 DEF CommitUpload, TypeOK
  <2>7. QED
    BY ZenonT(40), <1>1, <2>1, <2>2, <2>3, <2>4, <2>5, <2>6
       DEF Next, Step, vars, Load, Abort, FindReplaced, PickVehicle, FindUnassigned, FindReported,
           Publish, CommitUnassign
<1>2. TypeOK /\ LoadedIsCurrent /\ [Next]_vars => [Kept]_vars
  BY <1>1
<1>3. QED
  BY <1>2, TypeCorrect, LoadedIsCurrentInvariant, PTL DEF Spec, ActiveMissionKept

LEMMA PickedAreFreeNext ==
  ASSUME NEW s0, Sessions = {s0}, TypeOK, PickedAreFree, [Next]_vars
  PROVE  PickedAreFree'
<1>1. CASE UNCHANGED vars
  BY <1>1 DEF vars, PickedAreFree
<1>2. CASE Step(s0)
  <2>1. CASE sess'[s0] = Idle
    BY <2>1 DEF PickedAreFree
  <2>2. CASE sess[s0] = Idle /\ sess'[s0] # Idle
    <3>1. PICK c \in Calls : Load(s0, c)
      BY <1>2, <2>2, BeginsWithLoad
    <3>2. sess'[s0].new = {}
      BY <3>1 DEF Load, TypeOK
    <3>3. QED
      BY <3>2 DEF PickedAreFree
  <2>3. CASE sess[s0] # Idle /\ sess'[s0] # Idle
    <3>1. /\ UNCHANGED assignments /\ sess'[s0].call = sess[s0].call
          /\ sess'[s0].pc # "loaded"
      BY <1>2, <2>3, SessKept
    <3>2. /\ sess[s0].pc = "loaded" => sess[s0].new = {}
          /\ \A v \in sess[s0].new : \A r \in assignments :
                r.m = sess[s0].call.m /\ r.v = v /\ r.active => r.id \in sess[s0].target
      BY <2>3 DEF PickedAreFree
    <3>3. CASE sess'[s0].new = sess[s0].new /\ sess'[s0].target = sess[s0].target
      BY <3>1, <3>2, <3>3 DEF PickedAreFree
    <3>4. CASE sess[s0].pc = "loaded" /\ sess'[s0].new = sess[s0].new
      BY <3>1, <3>2, <3>4 DEF PickedAreFree
    <3>5. ASSUME NEW v \in Vehicles, Existing(s0, v) = {}, sess'[s0].new = sess[s0].new \cup {v},
                 sess'[s0].target = sess[s0].target
          PROVE  PickedAreFree'
      <4>1. \A r \in assignments :
               r.m = sess[s0].call.m /\ r.v = v /\ r.active => r.id \in sess[s0].target
        BY <3>5 DEF Existing, ActiveRows
      <4>2. QED
        BY <3>1, <3>2, <3>5, <4>1 DEF PickedAreFree
    <3>6. QED
      BY <1>2, <2>3, <3>3, <3>4, <3>5, SessKept
  <2>4. QED
    BY <2>1, <2>2, <2>3
<1>3. QED
  BY <1>1, <1>2 DEF Next

\* Deactivating rows, whichever they are, leaves a vehicle its sole active one.
LEMMA DeactivatedSole ==
  ASSUME TypeOK, SoleRow, NEW ids
  PROVE  \A q, r \in Deactivated(assignments, ids) :
            q.m = r.m /\ q.v = r.v /\ q.active /\ r.active => q = r
<1> SUFFICES ASSUME NEW q \in Deactivated(assignments, ids),
                    NEW r \in Deactivated(assignments, ids),
                    q.m = r.m, q.v = r.v, q.active, r.active
             PROVE  q = r
  OBVIOUS
<1>0. assignments \in SUBSET Row
  BY DEF TypeOK
<1>1. PICK a \in assignments : /\ q.m = a.m /\ q.v = a.v /\ q.active = (a.active /\ a.id \notin ids)
                               /\ q = [a EXCEPT !.active = a.active /\ a.id \notin ids]
  BY <1>0, DeactivatedRows
<1>2. PICK b \in assignments : /\ r.m = b.m /\ r.v = b.v /\ r.active = (b.active /\ b.id \notin ids)
                               /\ r = [b EXCEPT !.active = b.active /\ b.id \notin ids]
  BY <1>0, DeactivatedRows
<1>3. a = b
  BY <1>1, <1>2 DEF SoleRow
<1>4. QED
  BY <1>1, <1>2, <1>3

LEMMA SoleRowNext ==
  ASSUME NEW s0, Sessions = {s0}, TypeOK, NoOrphans, PickedAreFree, SoleRow, [Next]_vars
  PROVE  SoleRow'
<1>0. assignments \in SUBSET Row
  BY DEF TypeOK
<1>1. CASE assignments' \subseteq assignments
  BY <1>1 DEF SoleRow
<1>2. ASSUME NEW m \in Missions, NEW vs \in {{}} \cup {{v} : v \in Vehicles},
             NEW filled \in BOOLEAN, Create(s0, m, vs, filled)
      PROVE  SoleRow'
  <2>1. \A r \in assignments : r.m # m
    BY <1>2 DEF NoOrphans, Exists, Create
  <2>2. assignments' = assignments \cup {NewRow(requests + 1, m, v) : v \in vs}
    BY <1>2 DEF Create
  <2>3. \A q, r \in {NewRow(requests + 1, m, v) : v \in vs} : q = r /\ q.m = m
    BY NewRowFields
  <2>4. QED
    BY <2>1, <2>2, <2>3 DEF SoleRow
<1>3. CASE CommitAssign(s0)
  <2> DEFINE b == sess[s0]
             Fresh == {NewRow(b.n, b.call.m, v) : v \in b.new}
  <2>1. sess[s0] # Idle
    BY <1>3, IdleOrBusy DEF CommitAssign, Commit, Call
  <2>2. assignments' = Deactivated(assignments, b.target) \cup Fresh
    BY <1>3 DEF CommitAssign
  <2>3. ASSUME NEW q \in Deactivated(assignments, b.target), NEW r \in Fresh,
               q.m = r.m, q.v = r.v, q.active
        PROVE  FALSE
    <3>1. PICK a \in assignments : q.m = a.m /\ q.v = a.v /\ q.active = (a.active /\ a.id \notin b.target)
      BY <1>0, DeactivatedRows
    <3>2. PICK v \in b.new : r = NewRow(b.n, b.call.m, v)
      OBVIOUS
    <3>3. r.m = b.call.m /\ r.v = v
      BY <3>2, NewRowFields
    <3>4. a.id \in b.target
      BY <2>1, <2>3, <3>1, <3>3 DEF PickedAreFree
    <3>5. QED
      BY <2>3, <3>1, <3>4
  <2>4. ASSUME NEW q \in Fresh, NEW r \in Fresh, q.v = r.v
        PROVE  q = r
    <3>1. PICK v \in b.new : q = NewRow(b.n, b.call.m, v)
      OBVIOUS
    <3>2. PICK w \in b.new : r = NewRow(b.n, b.call.m, w)
      OBVIOUS
    <3>3. QED
      BY <2>4, <3>1, <3>2, NewRowFields
  <2>5. QED
    <3>1. SUFFICES ASSUME NEW q \in assignments', NEW r \in assignments',
                          q.m = r.m, q.v = r.v, q.active, r.active
                   PROVE  q = r
      BY DEF SoleRow
    <3>2. CASE q \in Deactivated(assignments, b.target) /\ r \in Deactivated(assignments, b.target)
      BY <3>1, <3>2, DeactivatedSole
    <3>3. CASE q \in Fresh /\ r \in Fresh
      BY <2>4, <3>1, <3>3
    <3>4. QED
      BY <2>2, <2>3, <3>1, <3>2, <3>3
<1>4. CASE CommitUnassign(s0)
  BY <1>4, DeactivatedSole DEF CommitUnassign, SoleRow
<1>5. QED
  BY ZenonT(40), <1>1, <1>2, <1>3, <1>4
     DEF Next, Step, vars, Load, Abort, FindReplaced, PickVehicle, FindUnassigned, FindReported,
         Publish, CommitEdit, CommitDelete, CommitStatus, CommitUpload

\* With one request at a time a mission is assigned to a vehicle at most once:
\* the lookup of an existing row suffices without a constraint in the database
\* (assign_mission, service.py:228-257).
THEOREM SerialAssignsOnce ==
  ASSUME NEW s0, Sessions = {s0}
  PROVE  Spec => []NoDuplicateActive
<1>1. Init => SoleRow /\ PickedAreFree
  BY DEF Init, SoleRow, PickedAreFree
<1>2. TypeOK /\ NoOrphans /\ SoleRow /\ PickedAreFree /\ [Next]_vars
        => SoleRow' /\ PickedAreFree'
  BY SoleRowNext, PickedAreFreeNext
<1>3. SoleRow => NoDuplicateActive
  BY AtMostOne DEF SoleRow, NoDuplicateActive, ActiveRows
<1>4. QED
  BY <1>1, <1>2, <1>3, TypeCorrect, DeletedLeavesNothing, PTL DEF Spec

-----------------------------------------------------------------------------
(* Requests between their load and their commit.                           *)

\* The steps a request takes between the two.
LEMMA RunningStep ==
  ASSUME TypeOK, NEW s \in Sessions, Step(s), sess[s] # Idle, sess'[s] # Idle
  PROVE  /\ \/ FindReplaced(s) \/ FindUnassigned(s) \/ FindReported(s) \/ Publish(s)
            \/ \E v \in Vehicles : PickVehicle(s, v)
         /\ sess'[s].loaded = sess[s].loaded
<1>0. sess[s] \in Busy
  BY IdleOrBusy
<1>1. ASSUME NEW op, Commit(s, op)
      PROVE  FALSE
  BY <1>1 DEF Commit, TypeOK
<1>2. \/ FindReplaced(s) \/ FindUnassigned(s) \/ FindReported(s) \/ Publish(s)
      \/ \E v \in Vehicles : PickVehicle(s, v)
  BY <1>1 DEF Step, Create, Load, Abort, TypeOK, CommitEdit, CommitDelete, CommitAssign,
              CommitUnassign, CommitStatus, CommitUpload
<1>3. ASSUME NEW v \in Vehicles, PickVehicle(s, v)
      PROVE  sess'[s].loaded = sess[s].loaded
  BY <1>0, <1>3 DEF PickVehicle, TypeOK, Busy
<1>4. CASE FindReplaced(s)
  BY <1>0, <1>4 DEF FindReplaced, TypeOK, Busy
<1>5. CASE FindUnassigned(s) \/ FindReported(s) \/ Publish(s)
  BY <1>0, <1>5 DEF FindUnassigned, FindReported, Publish, TypeOK, Busy
<1>6. QED
  BY <1>2, <1>3, <1>4, <1>5

\* The rows a request loaded are its mission's and stay so: their numbers are
\* those of requests that have ended, so that no row inserted later has one.
\* When an unassignment is about to be written, it has selected those of them
\* that are still active.
LoadedRows(s) ==
  /\ \A i \in sess[s].loaded : /\ i[1] \in 1 .. requests
                               /\ \A t \in Sessions : sess[t] # Idle => i[1] # sess[t].n
  /\ \A r \in assignments : r.id \in sess[s].loaded => r.m = sess[s].call.m
  /\ Call(s, "unassign", "flushing") => \A r \in assignments :
       r.id \in sess[s].loaded /\ r.v \in sess[s].call.vs /\ r.active => r.id \in sess[s].target

RowsAreLoaded == \A s \in Sessions : sess[s] # Idle => LoadedRows(s)

\* A row that a step leaves is one that was there, or of a number that no
\* request that is in progress has loaded.
LEMMA RowsThatWere ==
  ASSUME TypeOK, RowsNamed, RowsAreLoaded, NEW s \in Sessions, Step(s),
         NEW t \in Sessions, sess[t] # Idle, NEW q \in assignments', q.id \in sess[t].loaded
  PROVE  \E a \in assignments : /\ q.id = a.id /\ q.m = a.m /\ q.v = a.v
                                /\ q.active => a.active
<1>1. PICK ids, m, vs :
         assignments' \subseteq Deactivated(assignments, ids)
                                  \cup {NewRow(Number(s), m, v) : v \in vs}
  BY RowsOfStep
<1>2. q.id[1] # Number(s)
  BY DEF RowsAreLoaded, LoadedRows, Number, TypeOK
<1>3. q \in Deactivated(assignments, ids)
  BY <1>1, <1>2, NewRowFields
<1>4. assignments \in SUBSET Row
  BY DEF TypeOK
<1>5. PICK a \in assignments : /\ q.id = a.id /\ q.m = a.m /\ q.v = a.v
                               /\ q.active = (a.active /\ a.id \notin ids)
  BY <1>3, <1>4, DeactivatedRows
<1>6. QED
  BY <1>5

LEMMA RowsAreLoadedNext == TypeOK /\ RowsNamed /\ RowsAreLoaded /\ [Next]_vars => RowsAreLoaded'
<1> SUFFICES ASSUME TypeOK, RowsNamed, RowsAreLoaded, [Next]_vars
             PROVE  RowsAreLoaded'
  OBVIOUS
<1>1. CASE UNCHANGED vars
  BY <1>1 DEF vars, RowsAreLoaded, LoadedRows, Call
<1>2. ASSUME NEW s \in Sessions, Step(s), NEW t \in Sessions, sess'[t] # Idle
      PROVE  LoadedRows(t)'
  <2>0. /\ requests \in Nat /\ requests' \in {requests, requests + 1}
        /\ \A u \in Sessions : u # s => sess'[u] = sess[u]
        /\ sess'[s] # Idle => sess'[s].n = IF sess[s] = Idle THEN requests + 1 ELSE sess[s].n
    BY <1>2, NumbersKept DEF TypeOK
  \* Whatever was loaded before keeps its numbers apart from those in progress.
  <2>1. ASSUME sess[t] # Idle, sess'[t].loaded = sess[t].loaded, NEW i \in sess[t].loaded
        PROVE  /\ i[1] \in 1 .. requests'
               /\ \A u \in Sessions : sess'[u] # Idle => i[1] # sess'[u].n
    <3>1. i[1] \in 1 .. requests /\ \A u \in Sessions : sess[u] # Idle => i[1] # sess[u].n
      BY <2>1 DEF RowsAreLoaded, LoadedRows
    <3>2. ASSUME NEW u \in Sessions, sess'[u] # Idle
          PROVE  i[1] # sess'[u].n
      BY <2>0, <3>1, <3>2
    <3>3. QED
      BY <2>0, <3>1, <3>2
  <2>2. CASE t # s
    <3>1. sess'[t] = sess[t]
      BY <2>0, <2>2
    <3>2. sess[t] # Idle /\ LoadedRows(t)
      BY <1>2, <3>1 DEF RowsAreLoaded
    <3>3. ASSUME NEW q \in assignments', q.id \in sess[t].loaded
          PROVE  /\ q.m = sess[t].call.m
                 /\ Call(t, "unassign", "flushing") /\ q.v \in sess[t].call.vs /\ q.active
                      => q.id \in sess[t].target
      BY <1>2, <3>2, <3>3, RowsThatWere DEF LoadedRows
    <3>4. QED
      BY <2>1, <3>1, <3>2, <3>3 DEF LoadedRows, Call
  <2>3. CASE t = s /\ sess[s] = Idle
    <3>1. PICK c \in Calls : Load(s, c)
      BY <1>2, <2>3, BeginsWithLoad
    <3>2. /\ sess'[s].call = c /\ sess'[s].n = requests + 1 /\ requests' = requests + 1
          /\ sess'[s].loaded = Ids({r \in assignments : r.m = c.m}) /\ UNCHANGED assignments
          /\ sess'[s].pc = "flushing" => c.op # "unassign"
      BY <3>1 DEF Load, TypeOK
    <3>3. ASSUME NEW i \in sess'[s].loaded
          PROVE  \E r \in assignments : r.id = i /\ r.m = c.m
      BY <3>2, <3>3 DEF Ids
    <3>4. ASSUME NEW i \in sess'[s].loaded
          PROVE  /\ i[1] \in 1 .. requests'
                 /\ \A u \in Sessions : sess'[u] # Idle => i[1] # sess'[u].n
      BY <2>0, <2>3, <3>2, <3>3 DEF RowsNamed
    <3>5. \A r \in assignments' : r.id \in sess'[s].loaded => r.m = sess'[s].call.m
      BY <3>2, <3>3 DEF RowsNamed
    <3>6. QED
      BY <2>3, <3>2, <3>4, <3>5 DEF LoadedRows, Call
  <2>4. CASE t = s /\ sess[s] # Idle
    <3>1. /\ UNCHANGED assignments /\ sess'[s].call = sess[s].call
          /\ sess'[s].loaded = sess[s].loaded
      BY <1>2, <2>4, SessKept, RunningStep
    <3>2. LoadedRows(s)
      BY <2>4 DEF RowsAreLoaded
    <3>3. ASSUME Call(s, "unassign", "flushing")', NEW r \in assignments,
                 r.id \in sess[s].loaded, r.v \in sess[s].call.vs, r.active
          PROVE  r.id \in sess'[s].target
      <4>1. sess[s].call.op = "unassign"
        BY <3>1, <3>3 DEF Call
      <4>2. FindUnassigned(s)
        BY <1>2, <2>4, <4>1, RunningStep
           DEF FindReplaced, FindReported, Publish, PickVehicle, Call
      <4>3. sess'[s].target = Ids(Unassigned(sess[s].call))
        <5>1. sess[s] \in Busy
          BY <2>4, IdleOrBusy
        <5>2. QED
          BY <4>2, <5>1 DEF FindUnassigned, TypeOK, Busy
      <4>4. r.m = sess[s].call.m
        BY <3>2, <3>3 DEF LoadedRows
      <4>5. r \in Unassigned(sess[s].call)
        BY <3>3, <4>4 DEF Unassigned, ActiveRows
      <4>6. QED
        BY <4>3, <4>5 DEF Ids
    <3>4. QED
      BY <2>1, <2>4, <3>1, <3>2, <3>3 DEF LoadedRows
  <2>5. QED
    BY <2>2, <2>3, <2>4
<1>3. QED
  BY <1>1, <1>2 DEF Next, RowsAreLoaded

LEMMA RowsAreLoadedInvariant == Spec => []RowsAreLoaded
<1>1. Init => RowsAreLoaded
  BY DEF Init, RowsAreLoaded
<1>2. QED
  BY <1>1, RowsAreLoadedNext, RowsNamedInvariant, TypeCorrect, PTL DEF Spec

\* An unassignment that is committed leaves none of the rows active that its
\* mission had for the vehicles when the request began, whatever other requests
\* assigned, replaced or deleted meanwhile (service.py:291-303).
THEOREM UnassignsAll == Spec => UnassignIsComplete
<1> DEFINE Complete == \A s \in Sessions : CommitUnassign(s) =>
                         \A r \in assignments' :
                           r.id \in sess[s].loaded /\ r.v \in sess[s].call.vs => ~r.active
<1>1. ASSUME TypeOK, RowsAreLoaded, NEW s \in Sessions, CommitUnassign(s),
             NEW r \in assignments', r.id \in sess[s].loaded, r.v \in sess[s].call.vs
      PROVE  ~r.active
  <2>1. Call(s, "unassign", "flushing") /\ sess[s] # Idle
    BY <1>1, IdleOrBusy DEF CommitUnassign, Commit, Call
  <2>2. PICK a \in assignments : /\ r.id = a.id /\ r.v = a.v
                                 /\ r.active = (a.active /\ a.id \notin sess[s].target)
    <3>1. assignments \in SUBSET Row /\ r \in Deactivated(assignments, sess[s].target)
      BY <1>1 DEF CommitUnassign, TypeOK
    <3>2. assignments \in SUBSET Row
      BY <3>1
    <3>3. \A q \in Deactivated(assignments, sess[s].target) : \E a \in assignments :
             /\ q.id = a.id /\ q.m = a.m /\ q.v = a.v
             /\ q.active = (a.active /\ a.id \notin sess[s].target)
             /\ q = [a EXCEPT !.active = a.active /\ a.id \notin sess[s].target]
      BY <3>2 DEF Deactivated, Row
    <3>4. QED
      BY <3>1, <3>3, Zenon
  <2>3. a.active => a.id \in sess[s].target
    BY <1>1, <2>1, <2>2 DEF RowsAreLoaded, LoadedRows
  <2>4. QED
    BY <2>2, <2>3
<1>2. TypeOK /\ RowsAreLoaded /\ [Next]_vars => [Complete]_vars
  BY <1>1
<1>3. QED
  BY <1>2, TypeCorrect, RowsAreLoadedInvariant, PTL DEF Spec, UnassignIsComplete

\* A request to assign with replace_existing has selected every active row of
\* its vehicles, and inserts one for each vehicle it has looked at.
ReplacesAll ==
  \A s \in Sessions :
    sess[s] # Idle /\ sess[s].call.op = "assign" /\ sess[s].call.replace /\ sess[s].pc # "loaded" =>
      /\ \A r \in assignments : r.v \in sess[s].call.vs /\ r.active => r.id \in sess[s].target
      /\ \A v \in sess[s].call.vs : v \in sess[s].todo \/ v \in sess[s].new
      /\ sess[s].pc = "flushing" => sess[s].todo = {}

LEMMA ReplacesAllNext ==
  ASSUME NEW s0, Sessions = {s0}, TypeOK, ReplacesAll, [Next]_vars
  PROVE  ReplacesAll'
<1>1. CASE UNCHANGED vars
  BY <1>1 DEF vars, ReplacesAll
<1>2. CASE Step(s0)
  <2>1. CASE sess'[s0] = Idle
    BY <2>1 DEF ReplacesAll
  <2>2. CASE sess[s0] = Idle /\ sess'[s0] # Idle
    <3>1. PICK c \in Calls : Load(s0, c)
      BY <1>2, <2>2, BeginsWithLoad
    <3>2. sess'[s0].call = c /\ (c.op = "assign" => sess'[s0].pc = "loaded")
      BY <3>1 DEF Load, TypeOK
    <3>3. QED
      BY <3>2 DEF ReplacesAll
  <2>3. CASE sess[s0] # Idle /\ sess'[s0] # Idle
    <3>1. UNCHANGED assignments /\ sess'[s0].call = sess[s0].call /\ sess[s0] \in Busy
      BY <1>2, <2>3, SessKept, IdleOrBusy
    <3>2. CASE FindReplaced(s0)
      <4>1. /\ sess'[s0].pc = "picking" /\ sess'[s0].todo = sess[s0].call.vs
            /\ sess'[s0].target = Ids(Replaced(sess[s0].call))
        BY <3>1, <3>2 DEF FindReplaced, TypeOK, Busy
      <4>2. ASSUME sess[s0].call.replace, NEW r \in assignments,
                   r.v \in sess[s0].call.vs, r.active
            PROVE  r.id \in sess'[s0].target
        BY <4>1, <4>2 DEF Replaced, Ids
      <4>3. QED
        BY <3>1, <4>1, <4>2 DEF ReplacesAll
    <3>3. ASSUME NEW v \in Vehicles, PickVehicle(s0, v)
          PROVE  ReplacesAll'
      <4>1. /\ sess'[s0].pc = IF sess[s0].todo = {v} THEN "flushing" ELSE "picking"
            /\ sess'[s0].todo = sess[s0].todo \ {v} /\ sess'[s0].target = sess[s0].target
            /\ sess'[s0].new = IF Existing(s0, v) = {} THEN sess[s0].new \cup {v} ELSE sess[s0].new
            /\ sess[s0].call.op = "assign" /\ sess[s0].pc = "picking" /\ v \in sess[s0].todo
        BY <3>1, <3>3 DEF PickVehicle, Call, TypeOK, Busy
      <4>2. CASE sess[s0].call.replace
        <5>1. /\ \A r \in assignments : r.v \in sess[s0].call.vs /\ r.active => r.id \in sess[s0].target
              /\ \A w \in sess[s0].call.vs : w \in sess[s0].todo \/ w \in sess[s0].new
          BY <2>3, <4>1, <4>2 DEF ReplacesAll
        <5>2. v \in sess[s0].call.vs => Existing(s0, v) = {}
          BY <5>1 DEF Existing, ActiveRows
        <5>3. \A w \in sess[s0].call.vs : w \in sess'[s0].todo \/ w \in sess'[s0].new
          BY <4>1, <5>1, <5>2
        <5>4. sess'[s0].pc = "flushing" => sess'[s0].todo = {}
          BY <4>1
        <5>5. QED
          BY <3>1, <4>1, <5>1, <5>3, <5>4 DEF ReplacesAll
      <4>3. CASE ~sess[s0].call.replace
        BY <3>1, <4>3 DEF ReplacesAll
      <4>4. QED
        BY <4>2, <4>3 DEF ReplacesAll
    <3>4. CASE FindUnassigned(s0) \/ FindReported(s0) \/ Publish(s0)
      BY <3>1, <3>4 DEF FindUnassigned, FindReported, Publish, Call, ReplacesAll
    <3>5. QED
      BY <1>2, <2>3, <3>2, <3>3, <3>4, RunningStep
  <2>4. QED
    BY <2>1, <2>2, <2>3
<1>3. QED
  BY <1>1, <1>2 DEF Next

\* With one request at a time, one to assign with replace_existing leaves each
\* of its vehicles with one active row of all, the mission's, also where the
\* vehicle had several (service.py:228-257).
THEOREM SerialAssignIsExclusive ==
  ASSUME NEW s0, Sessions = {s0}
  PROVE  Spec => AssignIsExclusive
<1> DEFINE Exclusive == \A s \in Sessions : CommitAssign(s) /\ sess[s].call.replace =>
             \A v \in sess[s].call.vs :
                \E r \in assignments' :
                   r.m = sess[s].call.m /\ {q \in assignments' : q.v = v /\ q.active} = {r}
<1>1. ASSUME TypeOK, ReplacesAll, NEW s \in Sessions, CommitAssign(s), sess[s].call.replace,
             NEW v \in sess[s].call.vs
      PROVE  \E r \in assignments' :
                r.m = sess[s].call.m /\ {q \in assignments' : q.v = v /\ q.active} = {r}
  <2> DEFINE b == sess[s]
             r == NewRow(b.n, b.call.m, v)
  <2>1. b # Idle /\ b.call.op = "assign" /\ b.pc = "flushing"
    BY <1>1, IdleOrBusy DEF CommitAssign, Commit, Call
  <2>2. assignments' = Deactivated(assignments, b.target)
                         \cup {NewRow(b.n, b.call.m, w) : w \in b.new}
    BY <1>1 DEF CommitAssign
  <2>3. /\ \A a \in assignments : a.v \in b.call.vs /\ a.active => a.id \in b.target
        /\ v \in b.new
    BY <1>1, <2>1 DEF ReplacesAll
  <2>4. r \in assignments' /\ r.m = b.call.m /\ r.v = v /\ r.active
    BY <2>2, <2>3, NewRowFields
  <2>5. ASSUME NEW q \in assignments', q.v = v, q.active
        PROVE  q = r
    <3>1. q \notin Deactivated(assignments, b.target)
      <4> SUFFICES ASSUME q \in Deactivated(assignments, b.target)
                   PROVE  FALSE
        OBVIOUS
      <4>1. PICK a \in assignments : q.v = a.v /\ q.active = (a.active /\ a.id \notin b.target)
        BY <1>1, DeactivatedRows DEF TypeOK
      <4>2. QED
        BY <1>1, <2>3, <2>5, <4>1
    <3>2. PICK w \in b.new : q = NewRow(b.n, b.call.m, w)
      BY <2>2, <3>1
    <3>3. w = v
      BY <2>5, <3>2, NewRowFields
    <3>4. QED
      BY <3>2, <3>3
  <2>6. {q \in assignments' : q.v = v /\ q.active} = {r}
    BY <2>4, <2>5
  <2>7. QED
    BY <2>4, <2>6
<1>2. TypeOK /\ ReplacesAll /\ [Next]_vars => [Exclusive]_vars
  BY <1>1
<1>3. Init => ReplacesAll
  BY DEF Init, ReplacesAll
<1>4. TypeOK /\ ReplacesAll /\ [Next]_vars => ReplacesAll'
  BY ReplacesAllNext
<1>5. QED
  BY <1>2, <1>3, <1>4, TypeCorrect, PTL DEF Spec, AssignIsExclusive

-----------------------------------------------------------------------------
(* What the vehicle was sent.                                              *)

\* An upload that is about to be committed has sent what it loaded.
UploadHasSent ==
  \A s \in Sessions : sess[s] # Idle /\ Call(s, "upload", "flushing") =>
     sent[sess[s].call.m] = sess[s].lists

LEMMA UploadHasSentNext ==
  ASSUME NEW s0, Sessions = {s0}, TypeOK, UploadHasSent, [Next]_vars
  PROVE  UploadHasSent'
<1>1. CASE UNCHANGED vars
  BY <1>1 DEF vars, UploadHasSent, Call
<1>2. CASE Step(s0)
  <2>1. CASE sess'[s0] = Idle
    BY <2>1 DEF UploadHasSent
  <2>2. CASE sess[s0] = Idle /\ sess'[s0] # Idle
    <3>1. PICK c \in Calls : Load(s0, c)
      BY <1>2, <2>2, BeginsWithLoad
    <3>2. sess'[s0].call = c /\ (c.op = "upload" => sess'[s0].pc = "loaded")
      BY <3>1 DEF Load, TypeOK
    <3>3. QED
      BY <3>2 DEF UploadHasSent, Call
  <2>3. CASE sess[s0] # Idle /\ sess'[s0] # Idle
    <3>1. /\ sess'[s0].call = sess[s0].call /\ sess'[s0].lists = sess[s0].lists
          /\ sess[s0] \in Busy /\ sess[s0].call.m \in Missions
      BY <1>2, <2>3, SessKept, IdleOrBusy, CallTypes
    <3>2. CASE Publish(s0)
      BY <3>1, <3>2 DEF Publish, UploadHasSent, TypeOK
    <3>3. CASE ~Publish(s0)
      <4>1. sess[s0].call.op # "upload"
        BY <1>2, <2>3, <3>3, RunningStep
           DEF FindReplaced, FindUnassigned, FindReported, PickVehicle, Call
      <4>2. QED
        BY <3>1, <4>1 DEF UploadHasSent, Call
    <3>4. QED
      BY <3>2, <3>3
  <2>4. QED
    BY <2>1, <2>2, <2>3
<1>3. QED
  BY <1>1, <1>2 DEF Next

\* With one request at a time, an upload that is committed has sent the vehicle what is
\* stored, whatever was published, rolled back, edited and reported before it
\* (service.py:373-401).
THEOREM SerialUploadSendsStored ==
  ASSUME NEW s0, Sessions = {s0}
  PROVE  Spec => UploadSendsStored
<1> DEFINE Sends == \A s \in Sessions : CommitUpload(s) =>
                      sent'[sess[s].call.m] = waypoints'[sess[s].call.m]
<1>1. Init => UploadHasSent
  BY DEF Init, UploadHasSent
<1>2. TypeOK /\ UploadHasSent /\ [Next]_vars => UploadHasSent'
  BY UploadHasSentNext
<1>3. ASSUME TypeOK, LoadedIsCurrent, UploadHasSent, NEW s \in Sessions, CommitUpload(s)
      PROVE  sent'[sess[s].call.m] = waypoints'[sess[s].call.m]
  <2>1. sess[s] # Idle /\ Call(s, "upload", "flushing")
    BY <1>3, IdleOrBusy DEF CommitUpload, Commit, Call
  <2>2. sess[s].lists = waypoints[sess[s].call.m]
    BY <1>3, <2>1 DEF LoadedIsCurrent
  <2>3. QED
    BY <1>3, <2>1, <2>2 DEF UploadHasSent, CommitUpload
<1>4. TypeOK /\ LoadedIsCurrent /\ UploadHasSent /\ [Next]_vars => [Sends]_vars
  BY <1>3
<1>5. QED
  BY <1>1, <1>2, <1>4, TypeCorrect, LoadedIsCurrentInvariant, PTL DEF Spec, UploadSendsStored
=============================================================================
