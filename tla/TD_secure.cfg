CONSTANTS
  EnableDualstack = FALSE
  Protocols <- MCGrpcOnly
  MaxFaults = 1
  MaxRestarts = 1
  Callable <- SecureChain
  Flavor = "secure"

SPECIFICATION Spec

INVARIANT TypeOK
INVARIANT CleanupOrderRespectsReferences
INVARIANT ForceCleanupComplete
PROPERTY ProjectSpec
