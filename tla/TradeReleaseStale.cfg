SPECIFICATION Spec
CONSTANTS
    c1 = c1  c2 = c2  wood = wood  stone = stone
    build = build  train = train  advance = advance  pillage = pillage  trade = trade
    City = {c1, c2}  Resource = {wood, stone}
    Order = {trade}  ByVersion = {}
    Flush = Flush
    Pays <- MCPays  Gets <- MCGets  Initial <- MCInitial
    QueueCap = 3  InboxCap = 3
    MaxDeposit <- MCTradeDeposits  MaxUnacked = 0  MaxDropped = 0  MaxCrash = 0
INVARIANT NoStaleWrite
\* The environment's bounds run out and the model stops; the server does not.
CHECK_DEADLOCK FALSE
