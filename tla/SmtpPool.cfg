\* Two callers, two connections, two messages per connection, every fault.
CONSTANTS
  Callers = {p1, p2}
  Nobody = Nobody
  Clients = {c1, c2, c3, c4}
  NoClient = NoClient
  MaxConnections = 2
  MaxMessages = 2
  Faults = {"connect", "error", "close", "abort"}
SPECIFICATION FairSpec
INVARIANTS
  LeasesExclusive
  PoolInOrder
PROPERTIES
  EveryCallReturns
CHECK_DEADLOCK FALSE
