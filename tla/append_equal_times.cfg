SPECIFICATION Spec
CONSTANTS
    w1 = w1
    w2 = w2
    j1 = j1
    j2 = j2
    Events <- ThreeRows
    Writers <- OneSession
    Jobs <- OneExecution
    BatchLimit = 2
    MaxTxnRows = 2
    MaxClock = 3
PROPERTY NoNewRowsMeansCaughtUp
