SPECIFICATION ConsumerSpecification
CONSTANTS
  EpochMax = 2
  Partitions <- TwoPartitions
  Brokers <- TwoBrokers
  Leaders <- SomeLeaders
  Logs <- SomeLogs
  Starts = {1}
  Commits <- OneCommitted
  Visibility = "CommittedOnly"
  PartitionMax = 2
  MaxGrowth = 1
  MaxDeletes = 1
  MaxMoves = 1
  MaxEvictions = 1
  MaxAborted = 1
  MaxOps = 2
  MaxCrashes = 1
  MaxFaults = 1
INVARIANTS
  NothingSkipped
  SessionAgrees
PROPERTIES
  InOrderOnce
  CatchesUp
CHECK_DEADLOCK FALSE
