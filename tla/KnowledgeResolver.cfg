SPECIFICATION FairSpec
CONSTANTS
  Entry = {"e1", "e2", "e3"}
  Invalid = {"e3"}
  Loop = {"l1", "l2"}
  Ttl = 3
  Backoff = 1
  MaxBackoff = 2
  MaxTries = 2
  LastSend = 1
  MaxTime = 5
  World <- MCWorlds
INVARIANTS NothingLost TakenOnce
PROPERTIES ImplementsQueue Drains
CHECK_DEADLOCK FALSE
