SPECIFICATION FairSpec
CONSTANTS
  MaxNews = 3
  Rollbacks = FALSE
PROPERTIES ReportsPersist
CHECK_DEADLOCK FALSE
