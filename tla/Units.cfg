SPECIFICATION Spec
CONSTANTS
  Unit = {u1}
  Depot = depot
  Forest = {f1}
  City = {home, ally}
  Own = home
  Loads = 1
  QueueSize = 2
  InboxSize = 1
  MaxFailures = 2
  MaxOrders = 2
  MaxExpulsions = 1
INVARIANTS OneStory RestartChangesNothing NeverTakenTwice EntryAwaited
