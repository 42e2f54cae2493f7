SPECIFICATION ElectionsOrWrites
CONSTANTS
  Node = {n1, n2, n3}
  Nil = Nil
  Command <- OneAdd
  MaxTerm = 2
  MaxLog = 0
  MaxCrashes = 0
  MaxOrphans = 0
SYMMETRY Symmetry
CHECK_DEADLOCK FALSE
INVARIANTS
  LeaderElected
