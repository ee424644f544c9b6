SPECIFICATION PlatformSpec
CONSTANTS
    m1 = m1
    m2 = m2
    j1 = j1
    NoData = NoData
    BadPayload = BadPayload
    None = None
    Messages <- TwoMessages
    Events <- TwoEvents
    Carries <- OneEventEach
    MaxAttempts = 1
    Jobs <- OneExecution
    BatchLimit = 2
    MaxClock = 2
INVARIANTS PlatformTypeOK CopyHasNoGap CopiedWasPublished
PROPERTIES ImplementsAppend OrderedUntilOvertaken QuietRunHasDelivered
    AckedReachesBigQuery
