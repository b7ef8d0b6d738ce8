SPECIFICATION Spec
CONSTANTS
    Keys = {"store", "schedule"}
    Values = {"main", "other", "daily", "weekly"}
    daily = "daily"
    weekly = "weekly"
    Unset = Unset
    NoJob = NoJob
    Store = "main"
    MinFree = 10
    Ids = {j1, j2}
    j1 = j1
    j2 = j2
    Groups = {g1, g2}
    Requests <- MCRequests
    Edits <- MCEdits
    DefaultKeep = 2
    NoKeep = NoKeep
    NoOffset = NoOffset
    Depth = 2
    MaxSnaps = 4
    MaxLines = 2
    MaxCalls = 2
    MaxChanges = 2
INVARIANTS TypeOK OkMeansAsAsked HealthIsTrue StoppedComesWithWholeLog
PROPERTIES OverwritesOnlyWhatItRead PrunesAsConfirmed
CHECK_DEADLOCK FALSE
SYMMETRY Symmetry
