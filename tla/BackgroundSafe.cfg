SPECIFICATION BackgroundSpec
CONSTANTS
    Schedulers = {s1, s2}
    Runners = {w1, w2}
    LastSlot = 3
    MaxEdits = 1
    MaxFailures = 1
    MaxLosses = 1
    MaxMishaps = 1
    Backups = {b1, b2}
    Restores = {r1}
    Requests = {q1, q2}
    MaxFails = 2
    BusyIdle = {b2}
    Reader = q1
    MaxLines = 1
    MaxPublished = 2
    MaxTries = 1
    MaxItems = 1
    Events = {e1, e2}
    ActorEvents = {e1}
    Workers = {w1, w2}
    Erasers = {x1, x2}
    MaxDeletes = 2
    MaxCrashes = 1
    None = None
    Messages = {m1, m2}
    Senders = {s1, s2}
    NoSender = NoSender
    NoMessage = NoMessage
    MaxAttempts <- Attempts
    Batch = 2
    Expiring = {m2}
    OneTime = {m1}
    Owned = {m1}
    Faults = {"crash", "database", "provider"}
    Parts = {"prompt", "late", "busy", "calm", "audit", "mail"}
CHECK_DEADLOCK FALSE
INVARIANTS
    TypesOK
    BackupsHold
    ErasureHolds
    OneConversation
PROPERTIES
    EachSlotOnce
    KeepsLedger
