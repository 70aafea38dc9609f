SPECIFICATION Spec
CONSTANTS
    s1 = s1
    s2 = s2
    m1 = m1
    NoSender = NoSender
    NoMessage = NoMessage
    Senders = {s1, s2}
    Messages = {m1}
    MaxAttempts <- OneAttempt
    Batch = 1
    Expiring = {}
    OneTime = {m1}
    Owned = {}
    Faults = {}
SYMMETRY SenderSymmetry
CHECK_DEADLOCK FALSE
PROPERTIES
    SupersededNotSent
