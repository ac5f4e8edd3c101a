\* Two connections, two subscriptions, queues of one.
SPECIFICATION Spec
CONSTANTS
  doc = doc
  root = root
  Connections = {n1, n2}
  SubscriptionIds = {s1, s2}
  Documents = {doc}
  Capabilities = {root, leaf}
  Updates = {u1, u2}
  Gates = {1, 2}
  Null = Null
  DocumentOf <- MCDocumentOf
  Descendants <- MCDescendants
  UPDATE_NOTIFICATION_QUEUE_CAPACITY = 1
  CONNECTION_EVENT_QUEUE_CAPACITY = 1
  MAX_UPDATE_SUBSCRIPTIONS = 2
  MAX_UPDATE_SUBSCRIPTIONS_PER_CHANNEL = 2
  MAX_UPDATE_SUBSCRIPTIONS_PER_DOCUMENT = 1
  MAX_CONTROL_WAITERS_PER_DOCUMENT = 1
SYMMETRY Symmetry
INVARIANTS TypeOK EmissionAuthorized OneGatePerDocument NoSilentLoss QuietAfterEnd
CHECK_DEADLOCK FALSE
