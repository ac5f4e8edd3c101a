\* Two connections, one subscription: revocations compete with notifications.
SPECIFICATION FairSpec
CONSTANTS
  doc = doc
  root = root
  Connections = {n1, n2}
  SubscriptionIds = {s1}
  Documents = {doc}
  Capabilities = {root}
  Updates = {u1, u2}
  Gates = {1, 2}
  Null = Null
  DocumentOf <- MCDocumentOf
  Descendants <- MCDescendants
  UPDATE_NOTIFICATION_QUEUE_CAPACITY = 1
  CONNECTION_EVENT_QUEUE_CAPACITY = 1
  MAX_UPDATE_SUBSCRIPTIONS = 2
  MAX_UPDATE_SUBSCRIPTIONS_PER_CHANNEL = 2
  MAX_UPDATE_SUBSCRIPTIONS_PER_DOCUMENT = 2
  MAX_CONTROL_WAITERS_PER_DOCUMENT = 2
PROPERTIES ControlProceeds
CHECK_DEADLOCK FALSE
