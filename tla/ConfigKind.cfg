SPECIFICATION Spec
CONSTANTS
    Files = {users, tokens}
    users = users
    tokens = tokens
    Required = {users}
    Containers = {server, other}
    server = server
    other = other
    Mounts <- MCMounts
    Names = {acme, lock}
    acme = acme
    lock = lock
    Transient = {lock}
    Empty = Empty
    Dot = Dot
    DotDot = DotDot
    FILE_CAP = 4
    TOTAL_CAP = 5
    MAX_DEPTH = 2
    None = None
    Rot = Rot
    MaxCalls = 2
    MaxEvents = 4
INVARIANTS TypeOK NobodyRunsOnAMix
PROPERTIES RestoredIsWhatWasCaptured
CHECK_DEADLOCK FALSE
