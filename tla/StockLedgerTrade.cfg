SPECIFICATION Spec
CONSTANTS
    c1 = c1  c2 = c2  wood = wood  stone = stone
    build = build  train = train  advance = advance  pillage = pillage  trade = trade
    City = {c1, c2}  Resource = {wood, stone}
    Order = {trade, build}  ByVersion = {}
    Flush = Flush
    Pays <- MCPays  Gets <- MCGets  Initial <- MCInitial
    QueueCap = 2  InboxCap = 3
    MaxDeposit <- MCTradeDeposits  MaxUnacked = 1  MaxDropped = 1  MaxCrash = 1
INVARIANT DatabaseExplained
\* The environment's bounds run out and the model stops; the server does not.
CHECK_DEADLOCK FALSE
