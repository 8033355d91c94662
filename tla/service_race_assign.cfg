SPECIFICATION Spec
CONSTANTS
  m1 = m1
  m2 = m2
  v1 = v1
  v2 = v2
  s1 = s1
  s2 = s2
  Missions = {m1}
  Vehicles = {v1}
  Sessions = {s1, s2}
  Calls <- CallsAssign
  MaxRequests = 4
INVARIANTS NoDuplicateActive
CHECK_DEADLOCK FALSE
