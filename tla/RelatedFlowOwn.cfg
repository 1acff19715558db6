CONSTANTS
    User = {r, a, b}
    Root = r
    Block = 1
    MaxPairs = 4
    MaxCommon = 1
    Relations <- MCRelations
    Commons <- MCCommons
    Flows <- MCFlows
SPECIFICATION Spec
INVARIANT OwnFlowCountsOnce
CHECK_DEADLOCK FALSE
