CONSTANTS
    Genesis = "g"
    None = None
    Settings <- MCSettings
SPECIFICATION Spec
INVARIANTS
    ReadsAreTrue
    OneDiskLayer
    DiskIsTrue
CHECK_DEADLOCK FALSE
