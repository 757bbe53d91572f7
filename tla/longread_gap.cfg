SPECIFICATION ReadSpec
CONSTANTS
  Passages <- MCPassages
  ChunkWords = 2
  Budgets = {2, 3}
  RefMax = 2
  Batch = 1
  MaxBatch = 2
  VoiceT = 2
  Gaps = {0, 1}
INVARIANT WordsAtIndex
