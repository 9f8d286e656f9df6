SPECIFICATION Spec
CONSTANTS
  empty = empty
  one = one
  two = two
  r1 = r1
  r2 = r2
  Nothing = Nothing
  Posts <- MCPosts
  Targets <- MCTargets
  Readers <- MCReaders
INVARIANTS
  AnswerIsVisible
  HistoryInOrder
PROPERTIES
  ImplementsLog
  NobodyStarves
