SPECIFICATION FairPipelineSpec
CONSTANTS
  Client = {"c1", "c2"}
  MaxTicks = 3
  MaxHistory = 2
  Doc = {"d1", "d2"}
  SyncDoc = {"s1"}
  IdOf <- MCIdOf
  Noise <- MCNoise
  Runs = 2
  Pipeline <- MCPipeline
  World <- MCWorlds
INVARIANTS StoredIsKept AnsweredIsStored OneRunAtATime
PROPERTIES NeverStuck
CHECK_DEADLOCK FALSE
