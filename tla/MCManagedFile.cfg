CONSTANTS
  Editors = {e1}
  Foreign = {f1}
  Inodes = {i1, i2, i3}
  Modes = {m0, m1}
  Acls = {none, acl}
  NewMode = m0
  NoAcl = none
  Private = private
  None = None
  Sites <- TwoSites
  NoReplace = TRUE
  DirExists = FALSE
  Coarse = TRUE
  MaxForeign = 2
  MaxFaults = 2
  MaxOutages = 2

SPECIFICATION Spec

SYMMETRY Symmetry

INVARIANTS
  NoTrace
  NeverPartial
  ChangesSurvive

PROPERTIES
  OnlyReadIsReplaced
  AttrsKept
