SPECIFICATION FairSpec
CONSTANTS
  Configs <- MCSaslConfigs
  Rows <- MCSasl
  SaslValues <- MCMechanisms
  StsPorts <- MCPorts
  StsDurations <- MCNone
  MaxFrames = 1
  BackoffSteps = 1
INVARIANTS
  SecretIsSafe
PROPERTIES
  HandshakeResolves
  ReconnectHappens
