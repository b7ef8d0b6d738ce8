SPECIFICATION FairSpec
CONSTANTS
    NFiles = 2
    NLocks = 2
    Required = {1}
    token = token
    restore = restore
    Attempts = 2
    MaxCaptures = 1
    Writers = {token, restore}
    LocksOf <- TheLocks
    Rewrites <- TheRewrites
INVARIANTS TypeOK ConsistentCut WholeRewrites NoWaitCycle
PROPERTIES WritersProceed
CHECK_DEADLOCK FALSE
