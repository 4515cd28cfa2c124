SPECIFICATION FairSpec
CONSTANTS
  MaxEpoch = 2
  MaxWrites = 2
  MaxWork = 4
PROPERTY NothingHangs
CHECK_DEADLOCK FALSE
