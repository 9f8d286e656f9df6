CONSTANTS
  Servers <- MCServers
  Deadlines = {10, 15}
  MaxFaults = 2
SPECIFICATION Spec
INVARIANTS
  VulnerableHasCause
  ClearedHasCause
  TimersFit
  AsScanAssumes
PROPERTIES
  ProbeEnds
