CONSTANTS
  EnableDualstack = TRUE
  Protocols <- MCGrpcOnly
  MaxFaults = 0
  MaxRestarts = 0
  Callable <- AltUrlMap
  Flavor = "base"

SPECIFICATION Spec

INVARIANT CleanupSucceedsWithoutFaults
