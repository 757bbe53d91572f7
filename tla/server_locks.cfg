CONSTANTS
  Handlers = {h1, h2}
  Lazy = FALSE
  NoHandler = nobody
  MaxRequests = 2
SPECIFICATION Spec
INVARIANTS
  CallsFindModel
  StreamsKeepOwn
PROPERTIES
  SynthUndisturbed
  RequestsEnd
  IdleFreesModel
CHECK_DEADLOCK FALSE
