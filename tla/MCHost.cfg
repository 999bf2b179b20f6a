CONSTANTS
  Null = Null
  Unknown = Unknown
  MaxConfigs = 2
  MaxForeign = 1
  MaxFaults = 1
CHECK_DEADLOCK FALSE
SPECIFICATION Spec
INVARIANTS TypeOK Settled Effective
PROPERTIES Kept Gone Harmless
