\* Every reader over small arrays, whole and damaged
SPECIFICATION Spec
CHECK_DEADLOCK FALSE
CONSTANTS
  CacheSize = 2
  CacheElements = 6
  Sources <- AllSources
  Reused <- Again
  MaxVisits = 2
INVARIANTS
  VisitedExactly
  RowsBeforeError
PROPERTIES
  CallsFollowProtocol
  VisitsEnd
