SPECIFICATION Spec
CONSTANTS
  m1 = m1
  m2 = m2
  v1 = v1
  v2 = v2
  s1 = s1
  s2 = s2
  Missions = {m1, m2}
  Vehicles = {v1, v2}
  Sessions = {s1, s2}
  Calls <- CallsAll
  MaxRequests = 4
INVARIANTS NoOrphans
PROPERTIES DeactivationFinal UnassignIsComplete
SYMMETRY Symmetry
CHECK_DEADLOCK FALSE
