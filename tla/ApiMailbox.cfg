\* A call and a watcher share a token provider; one failure, one token that grows old.
CONSTANTS
  Users = {u1}
  Watcher = w
  Setups <- MCSetups
  PageSize = 2
  HistorySize = 1
  SeenLimit = 1
  MaxMail = 2
  MaxTicks = 2
  MaxFaults = 1
  MaxAges = 1
SPECIFICATION FairSpec
INVARIANTS ReportedOnce TokensInStep
PROPERTIES EveryMailReported
CHECK_DEADLOCK FALSE
