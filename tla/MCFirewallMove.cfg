CONSTANTS
  web = web
  ssh = ssh
  b1 = b1
  b2 = b2
  Resources = {web, ssh}
  Bodies = {b1, b2}
  Configs <- MCConfigs
  Other = Other
  Null = Null
  MaxForeign = 0
  MaxConfigs = 2
  MaxFaults = 1
CHECK_DEADLOCK FALSE
SPECIFICATION Spec
INVARIANT NeverBlocked
