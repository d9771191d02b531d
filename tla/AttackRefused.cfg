SPECIFICATION Spec
CONSTANTS
  Unit = {1, 2, 3}
  Warrior = {1, 2}
  SideOf <- Owners
  Start <- Starts
  Side <- Sides
  Center <- Centers
  Depot <- Depots
  House <- Houses
  Safe = {}
  LastTile = 7
  HP = 2
  Interval = 2
  MaxPath = 5
  MaxChase = 5
  Leash = 3
  GuardRadius = 2
  Repath = 1
  Wood = 3
  Floor = 1
  PerHit = 1
  Carry = 2
  MaxOrders = 3
INVARIANT AttackingSomething
\* The orders the players may give are spent, or their units are dead.
CHECK_DEADLOCK FALSE
