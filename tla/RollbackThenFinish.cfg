SPECIFICATION Spec
CONSTANTS
    NFiles = 3
    NDirs = 2
    Parent <- NestedParent
    DirOf <- RootAndInner
    MaxRestores = 1
    MaxFaults = 2
    OperatorMaySwitch = FALSE
    UnsyncedMarkers = {}
INVARIANT SwappingCanFinish
CHECK_DEADLOCK FALSE
