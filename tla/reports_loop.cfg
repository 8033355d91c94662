SPECIFICATION FairSpec
CONSTANTS
  MaxNews = 4
  Rollbacks = TRUE
INVARIANTS TypeOK OneCopy
PROPERTIES UnassignSilences
CHECK_DEADLOCK FALSE
