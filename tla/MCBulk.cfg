CONSTANTS
  MaxTargets = 5
  MaxConcurrency = 3
SPECIFICATION Spec
INVARIANTS
  Conservation
  InFlightBound
  SlotsUsed
PROPERTIES
  ImplementsBatch
