SPECIFICATION MCSpec
CONSTANTS
  Networks = {"n1", "n2"}
  MaxAhead = 3
  MaxLaunches = 1
  Masks = {"m", "n"}
  MaxLists = 4
  MaxTrouble = 2
  Nicks = {"x", "y", "z"}
  Limits = {1, 2, 3}
  MaxCommands = 5
  MaxComings = 2
  MaxWelcomes = 2
  Launches = {p1, p2, p3}
  Sends = {k1}
  MaxClients = 1
  MaxTime = 4
INVARIANTS
  LedgerIsTrue
  ManualIsKept
  ListIsOwn
  WatchIsTrue
  OneWindow
  ExitIsHonest
CHECK_DEADLOCK FALSE
