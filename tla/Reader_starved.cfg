SPECIFICATION ReaderSpecification
CONSTANTS
  Partitions <- TwoPartitions
  Logs <- AnyAndPlain
  Grows <- OneRecord
  Timestamps <- Interleaved
  Scans <- SomeScans
  Tails <- SomeTails
  MinFirstStep = 2
  Rejected = {3}
  PartitionMax = 3
  FetchMax = 3
  MaxGrowth = 1
  MaxDeletes = 1
  MaxFailures = 1
INVARIANTS
  EveryRecordScanned
