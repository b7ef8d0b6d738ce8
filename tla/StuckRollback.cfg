SPECIFICATION FairSpec
CONSTANTS
    NFiles = 2
    NDirs = 2
    Parent <- NestedParent
    DirOf <- AllAtRoot
    MaxRestores = 1
    MaxFaults = 2
    OperatorMaySwitch = FALSE
    UnsyncedMarkers = {}
PROPERTY Settles
CHECK_DEADLOCK FALSE
