CONSTANTS
  Handlers = {h1, h2}
  Lazy = FALSE
  NoHandler = nobody
  MaxRequests = 2
SPECIFICATION Spec
INVARIANTS
  LateCallsReadOwn
CHECK_DEADLOCK FALSE
