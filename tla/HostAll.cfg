SPECIFICATION HostSpec
CONSTANTS
    daemon = daemon
    c1 = c1
    l1 = l1
    l2 = l2
    Services = {fastapi, worker}
    Fastapi = fastapi
    Latest = 3
    Channels = {stable, beta}
    MaxOps = 5
    MaxTime = 5
    MaxEdits = 2
    MaxCrashes = 1
    None = None
    Daemon = daemon
    Commands <- TwoCommands
    Calls <- TwoCalls
CHECK_DEADLOCK FALSE
INVARIANTS
    TypesOK
    OverlapNeedsMishap
    NoOldImageOnNewSchema
    ScheduleIsKept
PROPERTIES
    StepsInOrder
    LocksEnd
