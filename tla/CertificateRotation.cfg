\* Three rotations, with crashes and a short time without a gateway.
SPECIFICATION Spec
CONSTANTS
  Null = Null
  CERTIFICATE_LIFETIME = 8
  CERTIFICATE_EPOCH_STEP = 4
  CLOCK_SKEW_ALLOWANCE = 1
  MAX_EPOCH = 4
  MAX_DOWNTIME = 1
  MAX_CLOCK = 14
  MAX_LEAVES = 6
INVARIANTS ManifestAccepted ServesValid
PROPERTIES ServesAdvertised
CHECK_DEADLOCK FALSE
