SPECIFICATION Spec
CONSTANTS
  Player = {ana, beto}
  Types = {"TRADE", "ALLIANCE"}
  InboxSize = 1
  MaxFailures = 1
  MaxOrders = 4
INVARIANTS PairInOrder RestartChangesNothing GuestsLeave
PROPERTY OffersFall
\* The proposals the players may make are spent.
CHECK_DEADLOCK FALSE
