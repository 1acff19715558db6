CONSTANTS
    Addr = {"e", "c"}
    Key = {"k", "l"}
    Val = {0, 1}
    None = None
    Settings <- MCSettings
SPECIFICATION Spec
INVARIANTS
    SnapIsTrie
    CodeStored
PROPERTIES
    ImplementsWorld
CHECK_DEADLOCK FALSE
