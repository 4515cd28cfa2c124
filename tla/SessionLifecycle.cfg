SPECIFICATION Spec
CONSTANTS
  Configs <- MCPlainConfigs
  Rows <- MCBatch
  SaslValues <- MCNoValue
  StsPorts <- MCPorts
  StsDurations <- MCDurations
  MaxFrames = 2
  BackoffSteps = 1
INVARIANTS
  StateIsBacked
  StopOutranksReconnect
  SilenceIsTimed
  ConnectIsNeverIgnored
  LivePolicyForbidsPlaintext
PROPERTIES
  FailedStaysDown
