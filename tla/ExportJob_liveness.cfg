SPECIFICATION FairSpec
CONSTANTS
    j1 = j1
    j2 = j2
    w1 = w1
    w2 = w2
    r1 = r1
    r2 = r2
    NoJob = NoJob
    Jobs <- TwoJobs
    Workers <- OneWorker
    Requests <- TwoRequests
    MaxSecond = 3
    MaxRedeliveries = 1
    Events <- CrashEvents
INVARIANTS UnfinishedIsOwned
PROPERTIES EveryJobEnds
CHECK_DEADLOCK FALSE
