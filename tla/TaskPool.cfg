CONSTANTS
    Workers = 2
    First = 3
    Last = 7
    ChanFactor = 2
    NumTx <- MCNumTx
    MayFail = {3, 5}
SPECIFICATION FairSpec
INVARIANTS
    PoolInv
    NilMeansAllRan
    BlockConserved
    EnoughStopTokens
    TotalsAreFinal
    RoomAfterError
PROPERTIES
    ImplementsBlockRange
    Returns
CHECK_DEADLOCK FALSE
