CONSTANTS
  e1 = e1
  e2 = e2
  e3 = e3
  direct = direct
  link = link
  Editors = {e1, e2, e3}
  Spelling <- Three
  Keys = {direct, link}
  Canon = direct
  Foreign = {}
  Inodes = {i1, i2, i3, i4}
  Modes = {m0}
  Acls = {none}
  NewMode = m0
  NoAcl = none
  Private = private
  None = None
  Sites <- OneSite
  NoReplace = TRUE
  DirExists = TRUE
  Coarse = FALSE
  MaxForeign = 0
  MaxFaults = 2
  MaxOutages = 0

SPECIFICATION SharedSpec

SYMMETRY Symmetry

INVARIANTS
  EditsSerialised

PROPERTY ImplementsAtomicEdits
