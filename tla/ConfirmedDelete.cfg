SPECIFICATION Spec
CONSTANTS
    NTargets = 2
    a = a
    b = b
    Groups = {a, b}
    TargetOf <- EachItsOwn
    Namespaces = {2}
    MaxTime = 3
    MaxCalls = 3
INVARIANTS TypeOK ActsOnWhatWasShown OnlyConfirmedIsLost ReplyIsTrue
CHECK_DEADLOCK FALSE
