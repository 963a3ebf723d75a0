CONSTANTS
  EnableDualstack = TRUE
  Protocols <- MCProtocols
  MaxFaults = 0
  MaxRestarts = 0
  Callable <- ProxyRecreate
  Flavor = "base"

SPECIFICATION Spec

PROPERTY TrackedNeverReplaced
