SPECIFICATION Spec
CONSTANTS
  m1 = m1
  m2 = m2
  v1 = v1
  v2 = v2
  s1 = s1
  s2 = s2
  Missions = {m1, m2}
  Vehicles = {v1, v2}
  Sessions = {s1}
  Calls <- CallsAll
  MaxRequests = 5
INVARIANTS TypeOK NoDuplicateActive OneWaypointList
PROPERTIES ActiveMissionKept AssignIsExclusive UploadSendsStored
SYMMETRY Symmetry
CHECK_DEADLOCK FALSE
