\* Four streams, two tasks at a time, identifiers that are used again, and enough
\* events to close the circle of pipes and queues.
SPECIFICATION FairSpec
CONSTANTS
  Null = Null
  Correlations = {k1, k2}
  k1 = k1
  k2 = k2
  Requests <- MCRequests
  MAX_CONNECTION_REQUESTS = 2
  OUTPUT_QUEUE_CAPACITY = 1
  RELAY_QUEUE_CAPACITY = 1
  PIPE_CAPACITY = 1
  MAX_EVENTS = 4
INVARIANTS RoutedToRequester AckBeforeEvents
PROPERTIES SettlesUnlessWedged
CHECK_DEADLOCK FALSE
