\* The application may stop calling.
SPECIFICATION FairSpec
CONSTANTS
  Partitions <- TwoPartitions
  Offsets = "offsets"
  NumRecords = 3
  PartitionOf <- OneAndTwo
  Refusals = {1}
  MaxTxns = 2
  MaxRivals = 1
  MaxLosses = 1
  Bumps = {TRUE, FALSE}
INVARIANTS
  EnrolledFirst
  AllOrNothing
  WrittenInSequence
PROPERTIES
  CallsReturn
CHECK_DEADLOCK FALSE
