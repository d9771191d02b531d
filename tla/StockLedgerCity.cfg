SPECIFICATION FairSpec
CONSTANTS
    c1 = c1  c2 = c2  wood = wood  stone = stone
    build = build  train = train  advance = advance  pillage = pillage  trade = trade
    City = {c1}  Resource = {wood, stone}
    Order = {advance, pillage}  ByVersion = {pillage}
    Flush = Flush
    Pays <- MCPays  Gets <- MCGets  Initial <- MCInitial
    QueueCap = 2  InboxCap = 2
    MaxDeposit <- MCDeposits  MaxUnacked = 1  MaxDropped = 1  MaxCrash = 1
INVARIANTS Accounting NoStaleWrite ConfirmedIsWritten DatabaseExplained
PROPERTY Converges
\* The environment's bounds run out and the model stops; the server does not.
CHECK_DEADLOCK FALSE
