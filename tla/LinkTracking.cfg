SPECIFICATION FairSpec
CONSTANTS
  Links <- McLinks
  Ports <- McPorts
  Devices <- McDevices
  From <- McFrom
  To <- McTo
  DeviceOf <- McDeviceOf
  Baseline <- McBaseline
  BaselineDevices <- McBaselineDevices
  MaxLinkChanges = 2
  MaxDeviceChanges = 2
  MaxFaults = 1
  None = None
INVARIANTS
  TypeOK
  InStep
PROPERTIES
  Converges
