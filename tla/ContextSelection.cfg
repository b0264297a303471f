SPECIFICATION SelectionSpec
CONSTANTS
  Chunk <- MCChunk
  MaxPool = 5
  TokenBudgets = {6, 9, 40}
  MaxChunks = {2, 4, 6}
  MinScores = {35}
  RecallTokenBudgets = {1, 5}
  SourceTokenCaps <- MCCaps
  RequiredKinds <- MCKinds
INVARIANTS TokensAddUp WithinLimits Accounted CoverageHolds RoomForAll
