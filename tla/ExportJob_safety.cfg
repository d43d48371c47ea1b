SPECIFICATION Spec
CONSTANTS
    j1 = j1
    j2 = j2
    w1 = w1
    w2 = w2
    r1 = r1
    r2 = r2
    NoJob = NoJob
    Jobs <- TwoJobs
    Workers <- TwoWorkers
    Requests <- OneRequest
    MaxSecond = 3
    MaxRedeliveries = 1
    Events <- DistinctNames
INVARIANTS TypeOK DownloadIsOwnArchive
PROPERTIES KeepsContract CancelLostOnlyToOldCopy
SYMMETRY Interchangeable
CHECK_DEADLOCK FALSE
