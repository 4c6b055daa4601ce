SPECIFICATION LifeSpec
CONSTANTS
  Daemons = {d1, d2, d3}
  NoDaemon = NoDaemon
  Stops = {c1, c2}
INVARIANTS
  LifeTypeOK
  OneDaemon
CHECK_DEADLOCK FALSE
