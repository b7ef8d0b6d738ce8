SPECIFICATION Spec
CONSTANTS
    NTargets = 1
    a = a
    b = b
    Groups = {a, b}
    TargetOf <- Together
    Namespaces = {1}
    MaxTime = 4
    MaxCalls = 2
INVARIANT ActsOnWhatWasShown
CHECK_DEADLOCK FALSE
