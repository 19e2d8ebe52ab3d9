SPECIFICATION Spec
CONSTANTS
  NumRecords = 3
  Partitions <- Topic
  PartitionOf <- TwoAndOne
  Size <- MixedSizes
  BatchSize = 3
  MaxRequest = 4
  BufferMemory = 5
  Idempotent = FALSE
  CommandQueue = 2
  MaxAttempts = 2
  Leaders = {1, 2}
  Flushes = {"f"}
  Unencodable = {2}
  Cancels = {2}
  Verdicts = {"Moved", "Fatal", "Unanswered"}
  Failures = {"Closed"}
  MaxLosses = 2
  MaxForgets = 0
  DeadlinesPass = TRUE
INVARIANTS
  AckedAtOffset
  AckedInOrder
  FailedMeansNotWritten
  BufferAccounted
  FlushCovers
