\* Pages of at most two updates, three tokens, tables of two passes.
SPECIFICATION Spec
CONSTANTS
  root = root
  leaf = leaf
  n1 = n1
  n2 = n2
  p1 = p1
  p2 = p2
  p3 = p3
  Documents = {doc}
  UpdateIds = {u1, u2, u3, u4}
  Peers = {p1, p2, p3}
  Capabilities = {root, leaf}
  Channels = {n1, n2}
  Null = Null
  Records <- MCRecords
  Versions <- MCVersions
  Descendants <- MCDescendants
  Queries <- MCQueries
  MAX_SEQUENCE = 4
  MAX_LORO_PEERS = 2
  MAX_LORO_COUNTER = 2
  MAX_UPDATE_OPERATIONS = 3
  MAX_APPLICATION_PAYLOAD_LENGTH = 131
  MAX_ENUMERATION_SCAN_RECORDS = 2
  MAX_VECTOR_SCAN_RECORDS = 2
  MAX_PASSES = 2
  MAX_PASSES_PER_CHANNEL = 2
  MAX_PASSES_PER_DOCUMENT = 2
  MAX_PASSES_PER_AUTHORITY = 1
  MAX_TOKENS = 3
SYMMETRY Symmetry
INVARIANTS TypeOK UpdateRecovery OracleAnswers EnumerationExact BackfillExact TokenAnswers PassAnswers RestartAdmitted
PROPERTIES OracleUpdates
CHECK_DEADLOCK FALSE
