CONSTANTS
  Null = Null
  MaxConfigs = 2
  MaxForeign = 0
  MaxFaults = 1
  Cap = 0
  MaxWrites = 1
CHECK_DEADLOCK FALSE
SPECIFICATION Spec
INVARIANTS GroupKilled
PROPERTIES Truthful Returns
