CONSTANTS
  Servers <- MCServers
  Deadlines = {10, 15}
  MaxFaults = 0
SPECIFICATION Spec
INVARIANTS
  ClassicOracleFound
