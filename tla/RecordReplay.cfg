CONSTANTS
    a1 = a1
    k1 = k1
    None = None
    Addr = {a1}
    Key = {k1}
    MaxVal = 2
    MaxBal = 1
    MaxObj = 2
    MaxRev = 2
    MaxTx = 2
SPECIFICATION RSpec
INVARIANTS
    ReplayInv
    InputIsPreState
    OutputCompletesInput
    ReplayIsFaithful
CHECK_DEADLOCK FALSE
