SPECIFICATION Spec
CONSTANTS
  PageCap = 2
  MaxOpen = 2
  MaxIgnored = 3
  MaxBatches = 3
  MaxRequests = 3
  MaxKicks = 1
INVARIANTS
  AnswerIsMatched
  NothingLeaks
PROPERTIES
  PendingResolves
CHECK_DEADLOCK FALSE
