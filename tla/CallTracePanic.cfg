CONSTANTS
    MaxCalls = 4
    MaxEvents = 3
    CallCreateDepth = 2
SPECIFICATION Spec
INVARIANT NoPanic
CHECK_DEADLOCK FALSE
