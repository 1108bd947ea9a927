CONSTANTS
    Runs = {r1, r2}
    MaxTime = 2
    MaxFails = 1
    ParkDelay = 1
    None = None
SPECIFICATION FairSpec
CHECK_DEADLOCK FALSE
INVARIANTS SleepsUntilDue QueuedIsCovered
PROPERTIES CoveredIsWoken
