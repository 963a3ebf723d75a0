CONSTANTS
  EnableDualstack = TRUE
  Protocols <- MCProtocols
  MaxFaults = 1
  MaxRestarts = 1
  Callable <- MainChain
  Flavor = "base"

SPECIFICATION Spec

INVARIANT TypeOK
INVARIANT CleanupOrderRespectsReferences
INVARIANT ForceCleanupComplete
