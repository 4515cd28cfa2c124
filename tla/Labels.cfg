SPECIFICATION Spec
CONSTANTS
  Destinations = {"a", "b"}
  Timeout = 1
  MaxCommands = 2
  MaxTime = 3
  MaxDrops = 1
INVARIANTS
  ReplyGoesHome
PROPERTIES
  LabelFinishes
CHECK_DEADLOCK FALSE
