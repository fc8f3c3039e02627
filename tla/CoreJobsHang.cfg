SPECIFICATION FairSpec
CONSTANTS
  Projects = {p1}
  MaxStarts = 2
  Kinds = {"DeviceConfiguring", "Monitoring"}
  GateStatuses = {}
CHECK_DEADLOCK FALSE
PROPERTIES
  StartBesideMonitorReturns
