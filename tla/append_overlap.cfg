SPECIFICATION OSpec
CONSTANTS
    w1 = w1
    w2 = w2
    j1 = j1
    j2 = j2
    Events <- TwoRows
    Writers <- TwoSessions
    Jobs <- TwoExecutions
    BatchLimit = 2
    MaxTxnRows = 2
    MaxClock = 2
SYMMETRY Interchangeable
INVARIANTS OnlyCommittedRows AloneDelivers
PROPERTY AloneAddsNoDuplicate
