SPECIFICATION FairSpec
CONSTANTS
  Requests = {"r1", "r2", "r3"}
PROPERTIES Settles
CHECK_DEADLOCK FALSE
