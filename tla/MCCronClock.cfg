CONSTANTS
    often = often
    seldom = seldom
    Crons = {often, seldom}
    Minute = 2
    Prev <- MCPrev
    Early = 1
    MaxTime = 11
    MaxRestarts = 2
    Absent = Absent
    Nothing = Nothing
SPECIFICATION FairSpec
CHECK_DEADLOCK FALSE
INVARIANTS OneAtATime LatestIsKept
PROPERTIES FiresInOrder SlotsAreFired
