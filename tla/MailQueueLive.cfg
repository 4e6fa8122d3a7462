\* Two slots, a rate limit, transient and fatal failures, a shutdown that interrupts.
CONSTANTS
  j1 = j1
  j2 = j2
  NoKey = NoKey
  Jobs = {j1, j2}
  Priority <- MCPriority
  Key <- MCNoKey
  Concurrency = 2
  MaxRetries = 1
  Limit = 1
  Calls = {"pause", "shutdown"}
  MaxOrphans = 1
SPECIFICATION FairSpec
INVARIANTS
  DeliveredAtMostOnce
PROPERTIES
  EveryJobDecided
  TimedShutdownReturns
CHECK_DEADLOCK FALSE
