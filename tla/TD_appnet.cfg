CONSTANTS
  EnableDualstack = FALSE
  Protocols <- MCGrpcOnly
  MaxFaults = 1
  MaxRestarts = 1
  Callable <- AppNetChain
  Flavor = "appnet"

SPECIFICATION Spec

INVARIANT TypeOK
INVARIANT CleanupOrderRespectsReferences
INVARIANT ForceCleanupComplete
