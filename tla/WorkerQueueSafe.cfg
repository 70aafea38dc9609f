SPECIFICATION PartsSpec
CONSTANTS
    w1 = w1
    w2 = w2
    j1 = j1
    j2 = j2
    NoWorker = NoWorker
    Workers <- TwoWorkers
    Jobs <- TwoJobs
    MaxAttempts <- OtherTwice
    Batch = 2
    Lifecycle <- OneJob
    Dependent <- OtherJob
    Expiring <- None
    MaxRevivals = 1
    Requests = {"request", "account", "erase"}
    Faults = {"crash", "database", "renewal"}
SYMMETRY WorkerSymmetry
CHECK_DEADLOCK FALSE
INVARIANTS
    PayloadLifetime
    CancellationHolds
    AttemptBudget
PROPERTIES
    OnlyLeaseHolderActs
    KeepsLedger
    SuccessIsFinal
