SPECIFICATION MCSpec
CONSTANTS
  Pids = {d1, d2}
  Values = {a}
  Tries = 2
  Backups = 2
  MaxInodes = 4
  MaxCrashes = 1
  Clients = {c1, c2}
  Hosts = {h1, h2}
  Ports = {1}
  Durations = {1, 2}
  Damages = {"readonly", "unreadable", "malformed", "deleted"}
  MaxTime = 2
  MaxCalls = 3
INVARIANTS
  NeverTorn
  DamageIsKept
  NeverForgets
PROPERTIES
  OthersAreLeftAlone
CHECK_DEADLOCK FALSE
