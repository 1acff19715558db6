CONSTANTS
    User = {r, a, b, c}
    Root = r
    Block = 1
    MaxPairs = 4
    MaxCommon = 1
    Relations <- MCRelations
    Commons <- MCCommons
    Flows <- MCFlows
SPECIFICATION Spec
INVARIANTS
    GroupInv
    GroupIsLeast
    VerdictIsGroupRate
PROPERTY Terminates
CHECK_DEADLOCK FALSE
