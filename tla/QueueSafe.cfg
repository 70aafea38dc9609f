SPECIFICATION QueuesSpec
CONSTANTS
    MaxMessages = 3
    MaxTurns = 5
    MaxReaders = 6
    Existing = {7, 8}
    Budget = 4
    Plans <- ManyPlans
CHECK_DEADLOCK FALSE
INVARIANTS
    TypesOK
    MessagesKept
    SentOnce
    TurnsApart
PROPERTIES
    BreaksHold
