SPECIFICATION FairSpec
CONSTANTS
  Requests <- ThreeRequests
  MaxVersion = 3
INVARIANTS
  StatusTellsTruth
  FreshSinceInvalidation
PROPERTIES
  DataMovesForward
  SharesUntilAborted
  LoadingEnds
\* No call is left to start, and nothing is left to happen.
CHECK_DEADLOCK FALSE
