SPECIFICATION Spec
CONSTANTS
  Worlds = {w1, w2}
  NoWorld = NoWorld
  Events = {}
  Capacity = 2
  InboxBound = 1
  MaxTyped = 1
  MaxAsked = 1
SYMMETRY Symmetry
INVARIANTS TypeOK CursorOnWorld
PROPERTIES KeysMeanWhatIsDrawn
CHECK_DEADLOCK FALSE
