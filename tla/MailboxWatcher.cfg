\* A watcher with IDLE or polling, two drops or refusals.
CONSTANTS
  Idles = {TRUE, FALSE}
  MaxMail = 2
  MaxDrops = 2
  MaxMailboxes = 2
SPECIFICATION WatchSpec
INVARIANTS EachNewOnce
PROPERTIES EveryMailReported StopEnds
CHECK_DEADLOCK FALSE
