\* Two failures in a window of two units; two ports to be assigned.
SPECIFICATION FairSpec
CONSTANTS
  Null = Null
  AnyPort = AnyPort
  Addresses = {a1, a2}
  BIND_ADDRESS = AnyPort
  MAX_RESTARTS = 2
  MAX_RESTART_TIME = 2
INVARIANTS AddressesAgree RestartIntensity DrainOrder
PROPERTIES ShutdownCompletes
CHECK_DEADLOCK FALSE
