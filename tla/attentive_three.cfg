SPECIFICATION CalmNoHeartbeats
CONSTANTS
  Node = {n1, n2, n3}
  Nil = Nil
  Command <- OneAdd
  MaxTerm = 2
  MaxLog = 2
  MaxCrashes = 1
  MaxOrphans = 0
SYMMETRY Symmetry
CHECK_DEADLOCK FALSE
INVARIANTS
  LeaderElected
  LeaderHintSound
  OnlyLeadersReplicate
  LogMatching
  StateMachineSafety
  AckedDurable
  LeaderCompleteness
