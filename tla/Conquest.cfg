SPECIFICATION Spec
CONSTANTS
    p1 = p1  p2 = p2  p3 = p3  u1 = u1  u2 = u2  None = None
    Player = {p1, p2, p3}  Unit = {u1, u2}  UnitOwner <- MCUnitOwner
    NumTerritories = 1  Home <- MCHomeOfThird  Settled = {p1, p2}  Owner0 <- FreeLand
    QueueCap = 1  InboxCap = 1
    MaxClaims = 2  MaxFailed = 1  MaxCrash = 1
INVARIANTS BaseAgrees LimitsAgree NothingForgotten
PROPERTY CapitalKept
