SPECIFICATION FairSpec
CONSTANTS
  Projects = {p1, p2}
  Calls = {c1, c2}
  Modules = {"deploy", "topologymapping"}
  HttpTimeouts = TRUE
  UserStatuses = {"Idle", "absent"}
  MaxOverrides = 1
INVARIANTS
  TypeOK
  MutualExclusion
  EndIsAnswered
  StopIsAnswered
PROPERTIES
  ProjectsBecomeIdle
