SPECIFICATION FairSpec
CONSTANTS
    m1 = m1
    m2 = m2
    e1 = e1
    NoData = NoData
    BadPayload = BadPayload
    None = None
    Messages <- TwoMessages
    Events <- OneEvent
    MaxAttempts = 2
INVARIANTS TypeOK AckedMeansStored
PROPERTIES FirstPayloadStays ValidEventStoredOrGivenUp ImplementsContract
CHECK_DEADLOCK FALSE
