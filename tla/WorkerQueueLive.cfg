SPECIFICATION LiveSpec
CONSTANTS
    w1 = w1
    w2 = w2
    j1 = j1
    j2 = j2
    NoWorker = NoWorker
    Workers <- TwoWorkers
    Jobs <- OneJob
    MaxAttempts <- TwoAttempts
    Batch = 1
    Lifecycle <- None
    Dependent <- OneJob
    Expiring <- OneJob
    MaxRevivals = 0
    Requests = {"request"}
    Faults = {"crash", "renewal"}
CHECK_DEADLOCK FALSE
PROPERTIES
    AcceptedWorkEnds
