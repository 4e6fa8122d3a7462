\* Every control of the application, one slot, retries, timeouts.
CONSTANTS
  j1 = j1
  j2 = j2
  NoKey = NoKey
  Jobs = {j1, j2}
  Priority <- MCPriority
  Key <- MCNoKey
  Concurrency = 1
  MaxRetries = 1
  Limit = 1
  Calls = {"pause", "cancel", "interrupt", "abort", "timeout", "drain", "shutdown", "later"}
  MaxOrphans = 0
SPECIFICATION Spec
INVARIANTS
  EveryJobInOnePlace
  AttemptsWithinPolicy
  NothingForgotten
PROPERTIES
  KeepsContract
CHECK_DEADLOCK FALSE
