SPECIFICATION Spec
CONSTANTS
  Client = {c, d}
  Prompt = {"p", "q"}
  Slug = {"slug"}
  Content = {x, y}
  BuiltIn = builtIn
  MaxVersions = 3
  MaxScore = 2
  Threshold = 10
  World <- MCWorlds
SYMMETRY Symmetry
INVARIANTS VersionsCount AnswerIsKept CheckUndoes PlanIsBest
CHECK_DEADLOCK FALSE
