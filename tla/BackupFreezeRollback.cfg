SPECIFICATION Spec
CONSTANTS
    r1 = r1
    r2 = r2
    q1 = q1
    q2 = q2
    None = None
    Backups <- NoBackup
    Restores <- TwoRestores
    Requests <- TwoRequests
    Traffic = FALSE
    SlowWork = FALSE
    MaxFails = 1
CHECK_DEADLOCK FALSE
INVARIANTS
    SafeMeansWhole
