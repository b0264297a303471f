SPECIFICATION Spec
CONSTANTS
  Client = {p, q}
  Title = {t, u}
  MaxSaves = 2
  MaxCalls = 3
  MaxPolls = 1
SYMMETRY Symmetry
INVARIANTS TypeOK SavesAreHeld RecallFinds
CHECK_DEADLOCK FALSE
