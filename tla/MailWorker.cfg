\* The worker between a backend that redelivers and the send queue.
SPECIFICATION FairSpec
CONSTANTS
  m1 = m1
  m2 = m2
  k1 = k1
  NoKey = NoKey
  Messages = {m1, m2}
  KeyOf <- MCKeyOf
  Concurrency = 1
  Prefetch = 1
  MaxTries = 1
  Drivers <- MCDrivers
  MaxJobs = 3
  MaxExpiries = 1
  MaxFaults = 1
  MaxCalls = 3
INVARIANTS EachInItsPlace NeverSentTwice
PROPERTIES NobodyWaitsForEver
CHECK_DEADLOCK FALSE
