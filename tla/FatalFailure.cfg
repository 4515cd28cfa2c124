SPECIFICATION Spec
CONSTANTS
  Configs <- MCOneConfig
  Rows <- MCBatch
  SaslValues <- MCNoValue
  StsPorts <- MCNone
  StsDurations <- MCNone
  MaxFrames = 2
  BackoffSteps = 1
INVARIANT FatalFailureStops
