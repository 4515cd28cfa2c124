SPECIFICATION MCSpec
CONSTANTS
  Channels = {"c", "d"}
  Nicks = {"a", "b", "x"}
  MyNick = "a"
  PeerNick = "b"
  Budgets <- MCBudgets
  Instances <- MCInstances
INVARIANTS
  RosterIsTrue
  LeftIsLeft
  AwayIsTrue
  RowsInOrder
  ClearedStaysCleared
  CaughtUp
CHECK_DEADLOCK FALSE
