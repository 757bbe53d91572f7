SPECIFICATION Spec
CONSTANTS
  Requests = {"r1", "r2"}
  Wishes <- MCWishes
  Scenarios <- MCScenarios
  Frames = 1
INVARIANTS OneCutEach CallServed
