SPECIFICATION Spec
CONSTANTS
    p1 = p1  p2 = p2  p3 = p3  u1 = u1  u2 = u2  None = None
    Player = {p1, p2}  Unit = {u1, u2}  UnitOwner <- MCUnitOwner
    NumTerritories = 2  Home <- MCHome  Settled = {p1}  Owner0 <- FreeLand
    QueueCap = 2  InboxCap = 2
    MaxClaims = 1  MaxFailed = 2  MaxCrash = 0
INVARIANT NoOrphanRow
