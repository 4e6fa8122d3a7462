\* Messages of every shape on their way, one cut of the data, two answers; and the trap with its user.
SPECIFICATION Spec
CONSTANTS
  MaxDepth = 5
  MaxParts = 12
  MaxReferences = 2
  NoId = 0
  MaxMessages = 1
  MaxSize = 400
  Policy = "root"
  Starts <- MCStarts
INVARIANTS ArrivesWhole ReadAsWritten ThreadKept StoreSurvivesRestart PageInStep
