SPECIFICATION FairSpec
CONSTANTS
  Procs = {"p1"}
  Listeners = {"mission", "download"}
  MaxDrops = 2
  MaxMessages = 2
INVARIANTS TypeOK ReadyMeansSubscribed AtMostOnce
PROPERTIES QueueDrains AskedIsSubscribed
CHECK_DEADLOCK FALSE
