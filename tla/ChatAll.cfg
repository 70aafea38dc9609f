SPECIFICATION ChatSpec
CONSTANTS
    g1 = g1
    g2 = g2
    c1 = c1
    c2 = c2
    t1 = t1
    a1 = a1
    NoGeneration = NoGeneration
    NoChat = NoChat
    Generations = {g1, g2}
    Chats = {c1, c2}
    Subscribers = {t1, a1}
    Async = {a1}
    Closing = {a1}
    MaxLines = 2
    MaxSeq = 3
    MaxLives = 2
    MaxPublished = 4
    MaxFails = 2
    MaxStreams = 2
    MaxItems = 2
    QueueMax = 1
    Parts = {"memory", "redis", "provider"}
CHECK_DEADLOCK FALSE
INVARIANTS
    ContiguousLines
    FollowedStreamStays
    WokenForNews
    ChatNamesItsStream
    RedisLinesHold
PROPERTIES
    EndsComplete
    CancelHolds
