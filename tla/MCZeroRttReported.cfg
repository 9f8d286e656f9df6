CONSTANTS
  Servers <- MCServers
  MaxFaults = 0
SPECIFICATION Spec
INVARIANT ZeroRttReported
