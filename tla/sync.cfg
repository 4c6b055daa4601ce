SPECIFICATION Spec
CONSTANTS
  Worlds = {w1, w2}
  Files <- MCFiles
  Lines = 2
  MaxHunks = 2
  MaxCommits = 1
INVARIANTS
  TypeOK
CHECK_DEADLOCK FALSE
