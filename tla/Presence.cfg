SPECIFICATION FairSpec
CONSTANTS
    p1 = p1  p2 = p2  s1 = s1  s2 = s2  s3 = s3
    Player = {p1}  Session = {s1, s2}  Owner <- MCOwner  Founded = {}
    Grace = 1  Cooldown = 1  Horizon = 2
    CommandCap = 2  InboxCap = 1  QueueCap = 1  TickBudget = 1
    MaxFailed = 1  MaxCrash = 1
INVARIANTS SessionsCounted ProtectionEarned DatabaseFollows
PROPERTY AbsentIsProtected
