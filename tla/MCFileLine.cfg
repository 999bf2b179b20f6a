CONSTANTS
  Blank = ""
  Missing = Missing
  Refused = Refused
  Null = Null
  r1 = r1
  r2 = r2
  Resources = {r1, r2}
  Configs <- MCConfigs
  InitialTexts <- MCInitialTexts
  Strays = {"x","port0"}
  BodyStrays = {"z"}
  MaxForeign = 1
  MaxConfigs = 3
  MaxKills = 1
CHECK_DEADLOCK FALSE
SPECIFICATION Spec
INVARIANTS Settled
PROPERTIES OthersKept
