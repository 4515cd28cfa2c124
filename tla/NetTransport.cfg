SPECIFICATION Spec
CONSTANTS
  MaxEpoch = 3
  MaxWrites = 2
  MaxWork = 4
INVARIANTS
  WireCarriesItsOwnFrames
  OwnEventsFit
  NoOrphan
  GoodbyeMeansDrained
PROPERTIES
  ImplementsTransport
CHECK_DEADLOCK FALSE
