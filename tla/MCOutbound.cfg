CONSTANTS
    Messages = {1, 2, 3, 4}
    ConvOf <- MCConvOf
    Deduped = {2}
    Synced = {2}
    Foreign = {3}
    Personal = {4}
    Fibers = {run, call}
    Runner = run
    Replies = {r1}
    OnThread <- MCThread
    Quoted <- MCQuoted
    Kinds = {"bounced"}
    MaxAttempts = 2
    Lease = 1
    Backoff = 1
    Parked = 2
    Quiet = 1
    Horizon = 2
    MaxCalls = 1
    MaxEvents = 1
SPECIFICATION Spec
INVARIANTS TypeOK AtMostOnce ForeignStays WakeKept
PROPERTIES InOrder ReportsStay HandoverLife
CHECK_DEADLOCK FALSE
