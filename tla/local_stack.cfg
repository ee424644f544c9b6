SPECIFICATION Spec
CONSTANTS
    BTC = BTC
    ETH = ETH
    consumer = consumer
    dbt = dbt
    Rejected = Rejected
    Undecodable = Undecodable
    Events <- ThreeEvents
    SymbolOf <- Symbols
    TimeOf <- Times
    Width = 2
    Lookback = 1
    FullRefreshes <- OneConsumer
    DbtRuns <- OneDbt
    ConsumerRefresh = consumer
    Topic <- Messages
    Interval = 2
    Limits <- SomeLimits
    MaxLimit = 2
INVARIANTS StackTypeOK NothingSkipped SilverLag UncountedInReach ReaderMissesNothing
PROPERTIES CountsNeverFall WriterCatchesUp
