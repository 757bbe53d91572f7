SPECIFICATION MCSpec
CONSTANTS
  MaxRefs = 4
  v1 = v1
  v2 = v2
  Voices = {v1, v2}
  NoVoice = NoVoice
  RefFrames <- MCRefFrames
  Requests <- MCRequests
  Chunks = {1, 3}
  Stride = 4
  First = 4
  Keep = 8
  Ceiling = 12
  Slack = 1
INVARIANTS
  PartsAccounted
  CancelReaches
  ContextSound
  ReferenceIsContext
PROPERTY UnloadReleasesAll
