SPECIFICATION FairSpec
CONSTANTS
  NumRecords = 2
  Partitions <- OnePartition
  PartitionOf <- SameTwo
  Size <- TwoUnits
  BatchSize = 1
  MaxRequest = 1
  BufferMemory = 1
  Idempotent = TRUE
  CommandQueue = 2
  MaxAttempts = 2
  Leaders = {1, 2}
  Flushes = {"f"}
  Unencodable = {}
  Cancels = {}
  Verdicts = {"Busy", "AfterAppend", "Fatal"}
  Failures = {"Timeout"}
  MaxLosses = 1
  MaxForgets = 1
  DeadlinesPass = TRUE
INVARIANTS
  OneBatchPerPartition
  NoDuplicate
  NoSequenceGap
PROPERTIES
  SendsEnd
