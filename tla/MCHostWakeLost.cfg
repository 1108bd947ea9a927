CONSTANTS
    Runs = {r1, r2}
    MaxTime = 1
    MaxFails = 0
    ParkDelay = 1
    None = None
SPECIFICATION Spec
CHECK_DEADLOCK FALSE
INVARIANTS CommitWakesQueue
