SPECIFICATION Spec
CONSTANTS
  Worlds = {w1, w2}
  Files = {f1, f2}
  Conns = {c1, c2}
  WindowSize = 2
  MaxAge = 1
  MaxFiles = 2
  MaxEvents = 3
  MaxUpsets = 1
  NoWorld = NoWorld
  NoFile = NoFile
  NoConflict = NoConflict
  Protocol = Protocol
SYMMETRY Symmetry
INVARIANTS TypeOK NoConflictMissed WarningsGrounded SomeoneWarned RulesKept
PROPERTY PromiseSafety
CHECK_DEADLOCK FALSE
