SPECIFICATION Spec
CONSTANTS
  Memory = {"d1", "d2", "n1", "t1", "n2", "old1", "old2", "s"}
  Temporary = {"t1", "n2"}
  Legacy = {"old1", "old2"}
  Summary = {"s"}
  Noise = {"n1", "n2"}
  TestNoise = {"n1"}
  Protected = {}
  Reviewable = {"d1", "d2", "t1", "s"}
  Text <- MCText
  Topic <- MCTopic
  NoTopic = ""
  Worker = {"w1", "w2"}
  Ttl = 1
  MaxTemp = 1
  MaxTime = 2
  MaxCopies = 2
  World <- MCWorlds
INVARIANTS TypeOK NothingLost MigratesOnce SearchFresh
CHECK_DEADLOCK FALSE
