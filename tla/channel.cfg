SPECIFICATION FairSpec
CONSTANTS
  Clients = {c1}
  Capacity = 2
  MaxSent = 4
INVARIANTS TypeOK LossIsLag
PROPERTIES DeliversInOrder NewestArrives DeadTasksEnd
CHECK_DEADLOCK FALSE
