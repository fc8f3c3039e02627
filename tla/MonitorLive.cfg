SPECIFICATION FairSpec
CONSTANTS
  Projects = {p1}
  Calls = {c1, c2}
  MaxSessions = 2
  Settings = {base, new}
  Base = base
  PoolSize = 1
  MaxEdits = 2
  MaxFaults = 2
  HttpTimeouts = FALSE
  UserStatuses = {}
  MaxOverrides = 1
  None = None
CHECK_DEADLOCK FALSE
PROPERTIES
  CallsReturn
  GoroutinesEnd
  SettingsConverge
