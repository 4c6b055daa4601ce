SPECIFICATION Spec
CONSTANTS
  Daemons = {d1, d2}
  Pids = {p1, p2}
  Subdirs = {"sub"}
  MaxChanges = 3
INVARIANTS
  TypeOK
  KnownHasWorld
PROPERTY
  AgentGetsWorld
CHECK_DEADLOCK FALSE
