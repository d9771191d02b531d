SPECIFICATION Spec
CONSTANTS
  Site = {t1}
  Villager = {11, 12}
  Settlers = {11}
  VillageCap = 1
  TownCap = 2
  Bonus = 1
  QueueSize = 2
  InboxSize = 1
  MaxFailures = 2
  MaxOrders = 5
INVARIANTS DatabaseAddsUp SiteFree RestartChangesNothing
PROPERTY RuinsEnd
\* The orders the player may give are spent.
CHECK_DEADLOCK FALSE
