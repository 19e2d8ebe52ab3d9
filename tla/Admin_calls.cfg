CONSTANTS
  Items = {1, 2}
  MaxReasks = 2
  MaxFaults = 2
  MaxOthers = 2
  Brokers = {1, 2}
  Parts = 2
  PageLimit = 1
  Listeners = {"a", "b"}
  Worlds <- PrincipalWorlds
SPECIFICATION Spec
INVARIANTS
  ScopeHolds
  OutcomesSound
  ResetSticks
  OnePicture
  VerdictSound
CHECK_DEADLOCK FALSE
