CONSTANTS
  Batch = 2
  First = 1
  MaxFrames = 7
SPECIFICATION FairSpec
INVARIANTS
  CallerIsAlone
PROPERTIES
  StreamSpec
  SynthEnds
