CONSTANTS
  Menu12 <- MCMenu12
  Menu13 <- MCMenu13
  Position <- MCPosition
  Budget12 = 4
  Budget13 = 3
  Pools <- MCPools
  MaxFaults = 2
SPECIFICATION Spec
INVARIANTS
  BetweenSomeAndAll
  FewHandshakes
  PreferenceIsTrue
  AsScanAssumes
PROPERTIES
  EnumerationsEnd
