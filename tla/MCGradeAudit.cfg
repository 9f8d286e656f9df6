CONSTANTS
  Protos <- MCProtos
  GradedCerts <- MCGradedCerts
  Buckets <- MCBuckets
  Ids <- MCIds
  MaxFindings = 2
SPECIFICATION Spec
INVARIANT PassIsSoundThroughout
PROPERTY MoreFindingsNeverHelp
CHECK_DEADLOCK FALSE
