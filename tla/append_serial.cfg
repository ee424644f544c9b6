SPECIFICATION FairSpec
CONSTANTS
    w1 = w1
    w2 = w2
    j1 = j1
    j2 = j2
    Events <- FourRows
    Writers <- OneSession
    Jobs <- OneExecution
    BatchLimit = 3
    MaxTxnRows = 2
    MaxClock = 3
INVARIANTS TypeOK NoDuplicateIds SuccessMeansAppended NoGaps
PROPERTIES NoNewRowsMeansCaughtUp EveryRowAppended ImplementsOrderedAppend
