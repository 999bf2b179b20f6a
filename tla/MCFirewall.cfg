CONSTANTS
  web = web
  ssh = ssh
  b1 = b1
  b2 = b2
  Resources = {web, ssh}
  Bodies = {b1, b2}
  Configs <- MCConfigs
  Other = Other
  Null = Null
  MaxForeign = 1
  MaxConfigs = 3
  MaxFaults = 1
CHECK_DEADLOCK FALSE
SPECIFICATION Spec
INVARIANTS Settled NoGap
PROPERTIES OthersKept PlaceKept
