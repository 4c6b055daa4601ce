SPECIFICATION Spec
CONSTANTS
  Worlds = {w1, w2}
  Lists = {l1, l2}
  Hooks = {h1, h2}
  MaxReports = 4
  MaxKills = 1
  NoWorld = NoWorld
  NoList = NoList
SYMMETRY Symmetry
INVARIANTS TypeOK ReportsKept
CHECK_DEADLOCK FALSE
