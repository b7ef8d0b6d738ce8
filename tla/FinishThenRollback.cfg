SPECIFICATION Spec
CONSTANTS
    NFiles = 3
    NDirs = 2
    Parent <- NestedParent
    DirOf <- RootAndInner
    MaxRestores = 1
    MaxFaults = 2
    OperatorMaySwitch = TRUE
    UnsyncedMarkers = {}
INVARIANT RollbackPutsOriginalsBack
CHECK_DEADLOCK FALSE
