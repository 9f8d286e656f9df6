CONSTANTS
  Servers <- MCServers
  MaxFaults = 2
SPECIFICATION Spec
INVARIANTS
  PassMeansTrusted
  NoInventedBreach
  CompleteScanTells
PROPERTIES
  ImplementsAssessment
