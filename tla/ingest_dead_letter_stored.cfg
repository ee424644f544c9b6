SPECIFICATION Spec
CONSTANTS
    m1 = m1
    m2 = m2
    e1 = e1
    NoData = NoData
    BadPayload = BadPayload
    None = None
    Messages <- OneMessage
    Events <- OneEvent
    MaxAttempts = 2
INVARIANT DeadLetteredNotStored
CHECK_DEADLOCK FALSE
