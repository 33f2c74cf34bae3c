CONSTANTS
  Transports <- Both
  MaxU8 = 3
  MaxUpdates = 3
  Setups <- TheSetups
SPECIFICATION FairSpec
INVARIANTS MainSlotComplete FailuresShow RunsComplete
PROPERTIES UpdateRuns
CHECK_DEADLOCK FALSE
