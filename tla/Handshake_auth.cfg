CONSTANTS
  Claims = {0, 200, 500}
  ASSUMED_LIFETIME = 200
  MAX_LIFETIME = 300
  refresh_margin = 10
  FetchTimeout = 1
  Conns = {1, 2}
  Worlds <- AllWorlds
  Timeout = 3
  Latency = 1
  ReauthFloor = 2
  MaxFaults = 1
  MaxTime = 260
  OnMax = 4
SPECIFICATION Spec
INVARIANTS
  CredentialsGuarded
  SessionSound
  ConnectSound
CHECK_DEADLOCK FALSE
