SPECIFICATION Spec
CONSTANTS
  Sessions = {s1, s2}
  NoSession = NoSession
  Models = {m1}
  NoModel = NoModel
  LastPort = 2
  MaxTools = 1
INVARIANTS
  TypeOK
  KeptIsKnown
  UsesWholeModel
PROPERTY
  SessionsLaunch
CHECK_DEADLOCK FALSE
