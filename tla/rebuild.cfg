SPECIFICATION FairRebuild
CONSTANTS
  Node = {n1, n2}
  Nil = Nil
  Command <- OneAdd
  MaxTerm = 2
  MaxLog = 2
  MaxCrashes = 1
  MaxOrphans = 0
  AutoAttempts = 1
  MaxRequests = 1
  Rebuilder <- OneVoter
CHECK_DEADLOCK FALSE
INVARIANTS
  DocumentsMatchLog
PROPERTIES
  InstallKeepsCommitted
  HealthyConfirmed
  RebuildsEnd
