SPECIFICATION Spec
CONSTANTS
  MaxLines = 2
  MaxOther = 1
  MaxFaults = 1
  MaxDrops = 1
  MaxMoves = 2
  MaxTurns = 4
INVARIANTS
  OnlySeenIsRead
PROPERTIES
  ReadIsPublished
CHECK_DEADLOCK FALSE
