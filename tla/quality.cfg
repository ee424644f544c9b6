SPECIFICATION QualitySpec
CONSTANTS
    w1 = w1
    w2 = w2
    j1 = j1
    j2 = j2
    Events <- TwoRows
    Writers <- OneSession
    Jobs <- TwoExecutions
    BatchLimit = 2
    MaxTxnRows = 1
    MaxClock = 1
    OtherTypes <- SecondRow
    MinRowCount = 1
INVARIANT QualityTypeOK
PROPERTIES QuietMeansClean StagingAlarmIsTrue RowCountNeverFalls FlawIsAlarmed
