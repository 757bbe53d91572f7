SPECIFICATION MCSpec
CONSTANTS
  k1 = k1
  k2 = k2
  k3 = k3
  s1 = s1
  s2 = s2
  Keys = {k1, k2, k3}
  NoKey = NoKey
  CacheableOf <- MCCacheableOf
  Sigs = {s1, s2}
  Requests <- MCRequests
  Capacity = 2
  Stride = 2
  GrowStep = 4
  Budget = 3
  Slack = 1
  Floor = 4
  InitMayFail = TRUE
  Passages <- MCPassages
  ChunkWords = 2
  Budgets = {2, 3}
  RefMax = 2
  Batch = 1
  MaxBatch = 2
  VoiceT = 2
  Gaps = {0, 1}
INVARIANTS AttentionSound CachesAgree HistoryDescribed TimingsComplete
PROPERTY ReadEnds
