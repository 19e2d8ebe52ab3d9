SPECIFICATION ClusterSpecification
CONSTANTS
  Nodes = {1, 2}
  Bootstrap = {1}
  Callers = {"c1"}
  TargetsOf <- EveryTarget
  max_attempts = 3
  MaxReasks = 3
  COORDINATOR_CACHE_CAP = 1
  Cached = 2
  MaxMoves = 1
  MaxLost = 1
  MaxEvents = 2
INVARIANTS
  OneSocket
  Lands
PROPERTIES
  ComesToRest
CHECK_DEADLOCK FALSE
