SPECIFICATION FairSpec
CONSTANTS
  Links <- McLinks
  Ports <- McPorts
  Devices <- McDevices
  From <- McFrom
  To <- McTo
  DeviceOf <- McDeviceOf
  Baseline <- McBaseline
  BaselineDevices <- McBaselineDevices
  MaxLinkChanges = 1
  MaxDeviceChanges = 3
  MaxFaults = 0
  None = None
PROPERTIES
  NewLinksAreCreated
