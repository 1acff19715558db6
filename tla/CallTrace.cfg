CONSTANTS
    MaxCalls = 4
    MaxEvents = 3
    CallCreateDepth = 2
SPECIFICATION Spec
INVARIANTS
    TraceInv
    StaticIsReadOnly
    TreeIsCallTree
    EventsAreLogs
CHECK_DEADLOCK FALSE
