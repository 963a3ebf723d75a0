CONSTANTS
  EnableDualstack = FALSE
  Protocols <- MCProtocols
  MaxFaults = 1
  MaxRestarts = 1
  Callable <- AltChain
  Flavor = "base"

SPECIFICATION Spec

INVARIANT TypeOK
INVARIANT CleanupOrderRespectsReferences
INVARIANT ForceCleanupComplete
PROPERTY ProjectSpec
