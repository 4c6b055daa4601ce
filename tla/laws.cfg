SPECIFICATION Spec
CONSTANTS
  Worlds = {w1, w2}
  Branches = {dev}
  Trunk = trunk
  NoName = NoName
INVARIANTS
  NamesOwnWorld
CHECK_DEADLOCK FALSE
