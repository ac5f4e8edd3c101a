\* The instance of Relay.cfg, in which the circle closes.
SPECIFICATION FairSpec
CONSTANTS
  Null = Null
  Correlations = {k1, k2}
  k1 = k1
  k2 = k2
  Requests <- MCRequests
  MAX_CONNECTION_REQUESTS = 2
  OUTPUT_QUEUE_CAPACITY = 1
  RELAY_QUEUE_CAPACITY = 1
  PIPE_CAPACITY = 1
  MAX_EVENTS = 4
PROPERTIES ConnectionReleased
CHECK_DEADLOCK FALSE
