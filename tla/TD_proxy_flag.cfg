CONSTANTS
  EnableDualstack = FALSE
  Protocols <- MCProtocols
  MaxFaults = 1
  MaxRestarts = 0
  Callable <- ProxyRecreate
  Flavor = "base"

SPECIFICATION Spec

INVARIANT ProxyKindTracked
