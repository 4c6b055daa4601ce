SPECIFICATION FairSpec
CONSTANTS
  Worlds = {w1}
  NoWorld = NoWorld
  Events = {e1}
  Capacity = 2
  InboxBound = 1
  MaxTyped = 1
  MaxAsked = 1
 
PROPERTIES ListConverges ConfirmedIsDeleted
CHECK_DEADLOCK FALSE
