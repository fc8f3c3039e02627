SPECIFICATION FairSpec
CONSTANTS
  Projects = {p1}
  Calls = {c1, c2}
  Stops = {s1}
  Devices = {d1, d2}
  PerDevice = 2
  ChanSize = 1
  PoolQueue = 1
  Total = 2
  MaxPerDevice = 1
  HttpTimeouts = TRUE
  UserStatuses = {"Idle", "absent"}
  MaxOverrides = 1
  None = None
CHECK_DEADLOCK FALSE
INVARIANTS
  TypeOK
  ScanIsExclusive
  ResultIsComplete
PROPERTIES
  StopReachesItsScan
  ScansEnd
