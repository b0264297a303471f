SPECIFICATION FairSpec
CONSTANTS
  Loop = {"a", "b"}
  Code = {"good", "bad", "worse"}
  None = "none"
  Rounds = 2
  Verdict <- MCVerdict
  World <- MCWorlds
INVARIANTS TargetRestored PassIsTested CancelReachesAll
PROPERTIES QueryEnds
CHECK_DEADLOCK FALSE
