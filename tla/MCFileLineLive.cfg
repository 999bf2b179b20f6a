CONSTANTS
  Blank = ""
  Missing = Missing
  Refused = Refused
  Null = Null
  r1 = r1
  r2 = r2
  Resources = {r1, r2}
  Configs <- FewConfigs
  InitialTexts <- MCInitialTexts
  Strays = {"x","port0"}
  BodyStrays = {"z"}
  MaxForeign = 1
  MaxConfigs = 2
  MaxKills = 1
CHECK_DEADLOCK FALSE
SPECIFICATION FairSpec
PROPERTIES Converges
