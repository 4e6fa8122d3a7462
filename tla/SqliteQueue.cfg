\* One job and two queues with three mishaps of any kind: safety and liveness.
CONSTANTS
  Queues = {q1, q2}
  Nobody = Nobody
  Gone = Gone
  Jobs = {j1}
  MaxRetries = 1
  Mishaps = {"crash", "stall", "replace", "unreadable", "shutdown",
             "cancel", "interrupt", "abort", "requeue", "clear"}
  MaxMishaps = 3
SPECIFICATION FairSpec
INVARIANTS
  MemoryMatchesRow
  OwnedRowsHeld
  AttemptsWithinPolicy
PROPERTIES
  EveryJobSettled
CHECK_DEADLOCK FALSE
