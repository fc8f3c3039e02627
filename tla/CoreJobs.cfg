SPECIFICATION FairSpec
CONSTANTS
  Projects = {p1, p2}
  MaxStarts = 3
  Kinds = {"Computing", "Scanning", "DeviceConfiguring", "Monitoring"}
  GateStatuses = {"Idle", "Deploying"}
\* The server may stop for good: joining a monitor nobody stopped, or crashed
\* by a second monitor.
CHECK_DEADLOCK FALSE
INVARIANTS
  TypeOK
  NoJoinableThreadDropped
  DeletedProjectsHaveNoJob
  StatusHasAJob
PROPERTIES
  RequestsReturn
