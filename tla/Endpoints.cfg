SPECIFICATION Spec
CONSTANTS
    Names = {n1}
    n1 = n1
    Ids = {i1, i2}
    i1 = i1
    i2 = i2
    Secrets = {s1, s2}
    Certs = {k1, k2}
    k1 = k1
    k2 = k2
    Trusted = {k1}
    None = None
    Keep = Keep
    Insecure = Insecure
    Verify = Verify
    Procs = {p1, p2}
    Requests <- MCRequests
    MaxCalls = 4
    MaxFaults = 1
INVARIANTS TypeOK AsReported
PROPERTIES ConnectsAsTold NewIdFindsItsSecret StagedUntilStored
CHECK_DEADLOCK FALSE
SYMMETRY Symmetry
