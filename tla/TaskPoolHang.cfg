CONSTANTS
    Workers = 1
    First = 1
    Last = 12
    ChanFactor = 10
    NumTx <- MCNumTx
    MayFail = {1}
SPECIFICATION FairSpec
PROPERTY ErrorIsReturned
CHECK_DEADLOCK FALSE
