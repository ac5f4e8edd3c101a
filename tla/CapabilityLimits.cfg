\* Two documents, secrets and create authorities: global limits, denials,
\* conflicting requests and provisioning.
SPECIFICATION Spec
CONSTANTS
  Documents = {d1, d2}
  CapabilityIds = {c1, c2}
  RequestIds = {q1, q2}
  CreateAuthorities = {a1, a2}
  Authenticators = {s1, s2}
  Operations = {"grant", "revoke"}
  Null = Null
  MAX_CAPABILITY_DEPTH = 2
  MAX_DIRECT_CAPABILITY_CHILDREN = 1
  MAX_CAPABILITIES_PER_DOCUMENT = 2
  MAX_CONTROL_RECEIPTS_PER_DOCUMENT = 2
  MAX_GLOBAL_CAPABILITIES = 3
  MAX_GLOBAL_CONTROL_RECEIPTS = 2
  MAX_DOCUMENTS_PER_CREATE_AUTHORITY = 1
  MAX_GLOBAL_DOCUMENTS = 2
  MAX_GLOBAL_CREATE_RECEIPTS = 2
  MAX_REVISION = 4
SYMMETRY Symmetry
INVARIANTS RecoveryAccepts
