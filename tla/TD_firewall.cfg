CONSTANTS
  EnableDualstack = TRUE
  Protocols <- MCProtocols
  MaxFaults = 1
  MaxRestarts = 0
  Callable <- Firewall
  Flavor = "base"

SPECIFICATION Spec

INVARIANT FirewallRetryPossible
