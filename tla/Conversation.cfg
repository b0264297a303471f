SPECIFICATION Spec
CONSTANTS
  Session = {"s", "t"}
  Client = {"c", "d"}
  World <- MCWorlds
INVARIANTS NothingForgotten CacheIsCurrent HistoryTellsAll
CHECK_DEADLOCK FALSE
