SPECIFICATION CoordinatorTwoWrites
CONSTANTS
  Voters <- TwoVoters
  Batches <- NoneOrTwo
  Write <- Writes
  Kind <- Kinds
  Target <- Targets
  Given = {}
  None = None
  Attempts = 2
  MaxChanges = 0
  MaxFaults = 1
CHECK_DEADLOCK FALSE
INVARIANTS
  WrittenOnce
