SPECIFICATION FairBackgroundSpec
CONSTANTS
    Schedulers = {s1, s2}
    Runners = {w1}
    LastSlot = 1
    MaxEdits = 0
    MaxFailures = 1
    MaxLosses = 1
    MaxMishaps = 1
    Backups = {b1, b2}
    Restores = {r1}
    Requests = {q1, q2}
    MaxFails = 2
    BusyIdle = {}
    Reader = q1
    MaxLines = 1
    MaxPublished = 2
    MaxTries = 1
    MaxItems = 1
    Events = {e1, e2}
    ActorEvents = {e1}
    Workers = {w1, w2}
    Erasers = {x1, x2}
    MaxDeletes = 1
    MaxCrashes = 1
    None = None
    Messages = {m1}
    Senders = {s1, s2}
    NoSender = NoSender
    NoMessage = NoMessage
    MaxAttempts <- TwoAttempts
    Batch = 2
    Expiring = {m1}
    OneTime = {m1}
    Owned = {m1}
    Faults = {"crash", "database", "provider"}
    Parts = {"late", "audit", "mail", "redis", "provider"}
CHECK_DEADLOCK FALSE
PROPERTIES
    BackgroundSettles
    StreamsLeave
