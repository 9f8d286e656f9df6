CONSTANTS
  StartsWith <- MCStartsWith
  EndsWith <- MCEndsWith
  SshPeers <- MCSshPeers
  WebPeers <- MCWebPeers
  Algorithms <- MCAlgorithms
  MaxOffers = 2
  Tokens <- MCTokens
  Directives <- MCDirectives
  Entries <- MCEntries
SPECIFICATION MCSpec
INVARIANTS
  CleanIsReviewed
  PreloadAnswers
  FoundIsTrue
PROPERTIES
  OfferingMoreNeverHelps
  AllowingMoreNeverHelps
CHECK_DEADLOCK FALSE
