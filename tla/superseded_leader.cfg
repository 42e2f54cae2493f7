SPECIFICATION SupersededLeader
CONSTANTS
  Node = {n1, n2, n3}
  Nil = Nil
  Command <- OneAdd
  MaxTerm = 2
  MaxLog = 2
  MaxCrashes = 0
  MaxOrphans = 0
  AutoAttempts = 1
  MaxRequests = 1
  Rebuilder <- OneVoter
SYMMETRY OtherVoters
CHECK_DEADLOCK FALSE
PROPERTIES
  SnapshotKeepsCommitted
