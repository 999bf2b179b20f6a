CONSTANTS
  Configs <- MCConfigs
  UserAreas <- MCUserAreas
  Priorities = {1, 2}
  MkswapUuid = TRUE
  Kernel = Kernel
  Missing = Missing
  Odd = Odd
  Null = Null
  MaxForeign = 2
  MaxConfigs = 3
  MaxFaults = 1
CHECK_DEADLOCK FALSE
SPECIFICATION Spec
INVARIANTS Settled Recorded
PROPERTIES DataKept EnabledBeforeEntered
