SPECIFICATION Spec
CONSTANTS
    j1 = j1
    j2 = j2
    w1 = w1
    w2 = w2
    r1 = r1
    r2 = r2
    NoJob = NoJob
    Jobs <- TwoJobs
    Workers <- TwoWorkers
    Requests <- TwoRequests
    MaxSecond = 2
    MaxRedeliveries = 0
    Events <- UserEvents
INVARIANTS EveryArchiveAccounted
SYMMETRY Interchangeable
CHECK_DEADLOCK FALSE
