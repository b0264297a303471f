SPECIFICATION FairSpec
CONSTANTS
  Source = {"f", "g", "x"}
  Skipped = {"x"}
  Content = {"A", "B", "D", "E", "F"}
  NoFile = "none"
  Body = {"a", "a2", "b", "c"}
  Blank = "blank"
  NoBody = "nobody"
  ChunksOf <- MCChunksOf
  Near <- MCNear
  MaxChunks = 2
  World <- MCWorlds
INVARIANTS StoredIsRecorded NoOrphans ListedIsStored
PROPERTIES ImplementsMirror UnreadKeepsChunks Converges
