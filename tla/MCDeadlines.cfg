CONSTANTS
    Keys = {k1, k2}
    MaxTime = 3
    RetryDelay = 1
    MaxCallbacks = 2
    None = None
SPECIFICATION FairSpec
INVARIANTS Armed LaneNeverIdle
PROPERTIES WakesNeverOverlap AnnouncementSurvivesWake RetiredLaneIsFenced DueIsWoken
