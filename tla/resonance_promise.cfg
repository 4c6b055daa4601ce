SPECIFICATION FairSpec
CONSTANTS
  Worlds = {w1, w2}
  Files = {f1}
  Conns = {c1, c2}
  WindowSize = 3
  MaxAge = 2
  MaxFiles = 1
  MaxEvents = 3
  MaxUpsets = 0
  NoWorld = NoWorld
  NoFile = NoFile
  NoConflict = NoConflict
  Protocol = Protocol
PROPERTY PromiseKept
CHECK_DEADLOCK FALSE
