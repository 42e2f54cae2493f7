SPECIFICATION Services
CONSTANTS
  Node = {n1}
  Nil = Nil
  Command <- AddAndDelete
  MaxTerm = 3
  MaxLog = 3
  MaxCrashes = 2
  MaxOrphans = 0
  MaxLength = 3
  MaxEntryTerm = 2
  Member = {"n1", "n2"}
  AliveTimeout = 3
  Interval = 1
  MaxBackoff = 4
  MaxOutages = 3
  Placement <- TwoShards
  MaxFlaps = 2
  Source = "p"
  Replicas <- TwoReplicas
  Docs = {"a", "b"}
  Losses <- NoneOneOrAll
  Commands <- UpToTwoCommands
  MaxLost = 1
  Nodes <- TwoNodes
  NearestNodes <- NearOrNone
  NoNearest = "none"
  Tasks = {"t1", "t2"}
  NumRetries = 2
  CheckInterval = 1
  MaxDown = 2
  Names <- OddNames
  MaxCalls = 2
  MaxRetries = 1
  DocumentIds = {1, 2, 3}
  Contents <- Texts
  ShardOf <- ByParity
  Queries <- TwoQueries
  MaxScore = 3
  MaxPerPage = 2
  Letters = {"a", "b"}
  WordLength = 3
  MaxTypos = 2
  Processes <- TwoProcesses
  Hosts <- OneHost
  HostOf <- Together
  DataDirOf <- DefaultDir
  MaxScripts = 3
  MaxTrouble = 1
CHECK_DEADLOCK FALSE
INVARIANTS
  AckedDurable
  StoreFollowsLog
  LoopIsMerged
  BeatsKeepListed
  ReadsWhatStays
  HealthForetellsReads
  RepairRestores
  FailsOnlyWhenAllTried
  RequestsTellApart
  IndexFollowsDocuments
  SearchIsGlobal
  PagesCoverHits
  DistanceIsFewestEdits
  StopEndsLaunchers
PROPERTIES
  RegistersEventually
  RequestsEnd
