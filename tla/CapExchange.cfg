SPECIFICATION ExchangeSpec
CONSTANTS
  Rows <- MCRows
  MechanismLists <- MCMechanismLists
  MaxAnnouncements = 3
  Credentials = TRUE
INVARIANTS
  OneSpelling
  LedgerAgrees
CHECK_DEADLOCK FALSE
