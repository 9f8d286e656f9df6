SPECIFICATION ExecutorSpec
CONSTANTS
  s1 = s1
  s2 = s2
  s3 = s3
  Cap = 2
  Limit = 2
  MaxWrite = 1
  Scans <- MCScans
  Program <- MCProgram
  Never <- MCNever
  Latencies <- MCLatencies
INVARIANTS
  NobodyForgotten
  BoundedLateness
PROPERTIES
  TimeoutHasCause
  ScansEnd
CHECK_DEADLOCK FALSE
