\* Two recipients, two messages on one connection, every fault.
CONSTANTS
  Rcpts = 2
  Messages = 2
  Configs <- MCConfigs
  Faults = {"silence", "error", "close", "noise", "destroy"}
SPECIFICATION FairSpec
INVARIANTS
  DialogueInStep
  ResultTruthful
PROPERTIES
  CallReturns
CHECK_DEADLOCK FALSE
