SPECIFICATION CoordinatorTwoWrites
CONSTANTS
  Voters <- TwoVoters
  Batches <- NoneOrTwo
  Write <- Writes
  Kind <- Kinds
  Target <- Targets
  Given = {}
  None = None
  Attempts = 2
  MaxChanges = 2
  MaxFaults = 1
CHECK_DEADLOCK FALSE
INVARIANTS
  AckedCommitted
  RealTimeOrder
  FailsInTroubleOnly
PROPERTIES
  WritesEnd
