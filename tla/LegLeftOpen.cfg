SPECIFICATION Spec
CONSTANTS
  Unit = {u1}
  Depot = depot
  Forest = {f1, f2}
  City = {home, ally}
  Own = home
  Loads = 1
  QueueSize = 2
  InboxSize = 1
  MaxFailures = 1
  MaxOrders = 2
  MaxExpulsions = 1
INVARIANT ClosingsRetried
SYMMETRY Tiles
