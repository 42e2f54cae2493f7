SPECIFICATION FairOneCandidate
CONSTANTS
  Node = {n1, n2, n3}
  Nil = Nil
  Command <- OneAdd
  MaxTerm = 2
  MaxLog = 1
  MaxCrashes = 1
  MaxOrphans = 0
CHECK_DEADLOCK FALSE
PROPERTIES
  CatchUp
