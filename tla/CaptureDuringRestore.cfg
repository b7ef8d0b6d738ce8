SPECIFICATION Spec
CONSTANTS
    NFiles = 2
    NLocks = 2
    Required = {1}
    token = token
    restore = restore
    Attempts = 2
    MaxCaptures = 1
    Writers = {token, restore}
    LocksOf <- TheLocks
    Rewrites <- TheRewrites
INVARIANT ViewIsWhole
CHECK_DEADLOCK FALSE
