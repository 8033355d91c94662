SPECIFICATION FairSpec
CONSTANTS
  Procs = {"p1", "p2"}
  Listeners = {"mission"}
  MaxDrops = 0
  MaxMessages = 0
PROPERTIES Persistent
CHECK_DEADLOCK FALSE
