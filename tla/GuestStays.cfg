SPECIFICATION Spec
CONSTANTS
  Player = {ana, beto}
  Types = {"TRADE", "ALLIANCE"}
  InboxSize = 1
  MaxFailures = 0
  MaxOrders = 2
\* The environment has done all that its bounds allow.
CHECK_DEADLOCK FALSE
INVARIANT NobodyLeftInside
