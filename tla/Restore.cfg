SPECIFICATION FairSpec
CONSTANTS
    NFiles = 3
    NDirs = 2
    Parent <- NestedParent
    DirOf <- RootAndInner
    MaxRestores = 2
    MaxFaults = 4
    OperatorMaySwitch = FALSE
    UnsyncedMarkers = {"staging", "rolling_back"}
INVARIANTS TypeOK OldOrNew OriginalsKept WholeConfig ReplyIsTrue FinishStillPossible IInv
PROPERTIES RollingBackOnlyPutsBack RefinesAtomic FilesSettle
CHECK_DEADLOCK FALSE
