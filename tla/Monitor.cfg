SPECIFICATION Spec
CONSTANTS
  Projects = {p1, p2}
  Calls = {c1, c2, c3}
  MaxSessions = 2
  Settings = {base, new}
  Base = base
  PoolSize = 1
  MaxEdits = 1
  MaxFaults = 1
  HttpTimeouts = TRUE
  UserStatuses = {"Idle", "absent"}
  MaxOverrides = 1
  None = None
SYMMETRY Symmetry
CHECK_DEADLOCK FALSE
INVARIANTS
  TypeOK
  MonitorUnderStatus
  NmHasItsSession
  RunningIsBacked
  StoppedIsQuiet
PROPERTIES
  MonitorReleasesItsOwn
