SPECIFICATION FairSpec
CONSTANTS
    s1 = s1  s2 = s2  Loop = Loop  None = None
    Session = {s1}  Chunk = {1, 2}  Area <- MCArea  HomeArea <- MCHomeArea
    OutCap = 2  MaxEvents = 0  MaxNotices = 1  MaxViews = 0  MaxFull = 0
PROPERTY SnapshotArrives
\* A session that is over is not opened again.
CHECK_DEADLOCK FALSE
