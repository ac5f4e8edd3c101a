\* One connection with two subscriptions: the loop and its tasks wait for each other.
SPECIFICATION FairSpec
CONSTANTS
  doc = doc
  root = root
  Connections = {n1}
  SubscriptionIds = {s1, s2}
  Documents = {doc}
  Capabilities = {root}
  Updates = {u1, u2}
  Gates = {1, 2}
  Null = Null
  DocumentOf <- MCDocumentOf
  Descendants <- MCDescendants
  UPDATE_NOTIFICATION_QUEUE_CAPACITY = 1
  CONNECTION_EVENT_QUEUE_CAPACITY = 1
  MAX_UPDATE_SUBSCRIPTIONS = 2
  MAX_UPDATE_SUBSCRIPTIONS_PER_CHANNEL = 2
  MAX_UPDATE_SUBSCRIPTIONS_PER_DOCUMENT = 2
  MAX_CONTROL_WAITERS_PER_DOCUMENT = 1
PROPERTIES EndIsReported CancellationEnds
CHECK_DEADLOCK FALSE
