SPECIFICATION FairSpec
CONSTANTS
  Process = {"p", "q"}
  Threshold = 2
  MaxMetrics = 4
  World <- MCWorlds
INVARIANTS KeptInOrder
PROPERTIES HistoryKept Flushes
CHECK_DEADLOCK FALSE
