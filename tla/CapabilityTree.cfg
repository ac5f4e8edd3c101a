\* One document: a delegation tree that reaches every depth and fan-out bound.
SPECIFICATION Spec
CONSTANTS
  Documents = {d1}
  CapabilityIds = {c1, c2, c3, c4}
  RequestIds = {q1, q2}
  CreateAuthorities = {a1}
  Authenticators = {s1}
  Operations = {"grant", "revoke"}
  Null = Null
  MAX_CAPABILITY_DEPTH = 3
  MAX_DIRECT_CAPABILITY_CHILDREN = 2
  MAX_CAPABILITIES_PER_DOCUMENT = 4
  MAX_CONTROL_RECEIPTS_PER_DOCUMENT = 5
  MAX_GLOBAL_CAPABILITIES = 4
  MAX_GLOBAL_CONTROL_RECEIPTS = 5
  MAX_DOCUMENTS_PER_CREATE_AUTHORITY = 1
  MAX_GLOBAL_DOCUMENTS = 1
  MAX_GLOBAL_CREATE_RECEIPTS = 1
  MAX_REVISION = 7
SYMMETRY Symmetry
INVARIANTS TypeOK RecoveryAccepts GrantsAccounted ExactRetry AuthorityConfined SubtreeIsWalk OracleAuthorizes
PROPERTIES AuthorityNeverReturns RevocationConfined
