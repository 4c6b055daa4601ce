SPECIFICATION Spec
CONSTANTS
  Runs = {r1, r2}
  Branches = {main, dev}
  Main = main
  NoBranch = NoBranch
SYMMETRY Symmetry
INVARIANTS TypeOK AgentsIsolated DeletedIsGone PortsGrow
PROPERTY UserBranchesKept
CHECK_DEADLOCK FALSE
