\* A gateway that is down for longer than an epoch step.
SPECIFICATION Spec
CONSTANTS
  Null = Null
  CERTIFICATE_LIFETIME = 8
  CERTIFICATE_EPOCH_STEP = 4
  CLOCK_SKEW_ALLOWANCE = 1
  MAX_EPOCH = 4
  MAX_DOWNTIME = 5
  MAX_CLOCK = 12
  MAX_LEAVES = 4
INVARIANTS ManifestAccepted
CHECK_DEADLOCK FALSE
