SPECIFICATION NegotiatedSpecification
CONSTANTS
  Members = {1, 2}
  Sizes <- TwoTopics
  Subscribed <- OneShared
  Records = 1
  Assignor = {"range", "cooperative-sticky"}
  MaxRemovals = 1
  MaxLost = 1
  MaxCuts = 1
  MaxLeaves = 1
  MaxMishaps = 2
INVARIANTS
  ProgressKept
  RevokedFirst
  OneOwner
PROPERTIES
  Settles
CHECK_DEADLOCK FALSE
