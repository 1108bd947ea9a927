CONSTANTS
    hello = hello
    report = report
    Msgs = {hello, report}
    Notes = {report}
    MaxTrouble = 1
SPECIFICATION FairSpec
CHECK_DEADLOCK FALSE
INVARIANTS TypeOK MessageIsCovered ConsumedIsCarried
PROPERTIES FinishAfterWork QueuedIsHeard
