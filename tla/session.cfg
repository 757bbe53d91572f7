CONSTANTS
  Callers = {c1, c2}
  Cfgs = {cfgA, cfgB}
  NoCaller = none
  NoCfg = none
  Oversize = TRUE
  MaxReq = 3
  MaxSpawn = 3
  MaxChunks = 2
SPECIFICATION FairSpec
INVARIANTS
  RepliesBelongToCall
  IdleWorkerIsQuiet
  CancelHitsItsTarget
PROPERTIES
  ServiceSpec
  CallsReturn
