\* Chains that stay below the depth limit, which the other limits reach first.
SPECIFICATION Spec
CONSTANTS
  Documents = {d1}
  CapabilityIds = {c1, c2, c3}
  RequestIds = {q1, q2}
  CreateAuthorities = {a1}
  Authenticators = {s1, s2}
  Operations = {"grant", "revoke"}
  Null = Null
  MAX_CAPABILITY_DEPTH = 4
  MAX_DIRECT_CAPABILITY_CHILDREN = 2
  MAX_CAPABILITIES_PER_DOCUMENT = 3
  MAX_CONTROL_RECEIPTS_PER_DOCUMENT = 3
  MAX_GLOBAL_CAPABILITIES = 3
  MAX_GLOBAL_CONTROL_RECEIPTS = 3
  MAX_DOCUMENTS_PER_CREATE_AUTHORITY = 1
  MAX_GLOBAL_DOCUMENTS = 1
  MAX_GLOBAL_CREATE_RECEIPTS = 1
  MAX_REVISION = 5
SYMMETRY Symmetry
INVARIANTS OracleGrantOutcome OracleRevokeOutcome
PROPERTIES OracleSpec
