CONSTANTS
  Words = 2
  BigRequests = TRUE
  BigPartials = TRUE
  MaxStreams = 2
  MaxChunks = 3
  MaxSpawn = 2
SPECIFICATION FairSpec
INVARIANTS
  FinalCoversStream
  PartialsAreOwn
PROPERTIES
  NoRetraction
  RequestsEnd
