CONSTANTS
    Tx <- MCTx
    PriceBump = 10
    Account = {"a", "b"}
    High = 2
    Low = 1
    Settings <- MCSettings
SPECIFICATION Spec
INVARIANTS
    PoolInternals
    ExecutablePending
    PendingAnnounced
PROPERTIES
    LocalsStay
    LimitsHold
CHECK_DEADLOCK FALSE
