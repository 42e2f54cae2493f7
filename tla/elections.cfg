SPECIFICATION ElectionsOrWrites
CONSTANTS
  Node = {n1, n2, n3}
  Nil = Nil
  Command <- OneAdd
  MaxTerm = 2
  MaxLog = 1
  MaxCrashes = 1
  MaxOrphans = 1
SYMMETRY Symmetry
CHECK_DEADLOCK FALSE
INVARIANTS
  TypeOK
  VoteOnce
  CampaignSafety
  AnswersDurable
  CallsTracked
  SubmittedEntryStays
PROPERTIES
  DurableVoteForward
  ImplementsElections
