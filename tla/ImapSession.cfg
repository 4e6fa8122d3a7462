\* Two calls of one session.
CONSTANTS
  Tasks = 2
  Boxes = {"A", "B"}
  Null = Null
  MaxClients = 3
  MaxFaults = 1
  MaxProbes = 1
  MaxCalls = 1
  Configs <- MCConfigs
SPECIFICATION FairSpec
INVARIANTS ActsAsAsked ConnectionKept
PROPERTIES EveryCallSettles
CHECK_DEADLOCK FALSE
