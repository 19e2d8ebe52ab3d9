SPECIFICATION Spec
CONSTANTS
  NumRecords = 2
  Partitions <- SharedIndex
  PartitionOf <- OneEach
  Size <- TwoUnits
  BatchSize = 2
  MaxRequest = 2
  BufferMemory = 2
  Idempotent = FALSE
  CommandQueue = 2
  MaxAttempts = 2
  Leaders = {1, 2}
  Flushes = {}
  Unencodable = {}
  Cancels = {}
  Verdicts = {"Fatal"}
  Failures = {}
  MaxLosses = 0
  MaxForgets = 0
  DeadlinesPass = FALSE
INVARIANTS
  AckedAtOffset
