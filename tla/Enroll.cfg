SPECIFICATION Spec
CONSTANTS
    Calls = {c1, c2}
    Wanted = {u, t}
    OfToken = {t}
    u = u
    t = t
    Elsewhere = {}
    OutOfScope = {x}
    x = x
    c1 = c1
    c2 = c2
    Foreign = {}
    None = None
    Keys = {1, 2, 3, 4, 5, 6, 7}
    MaxMishaps = 1
INVARIANTS TypeOK Converges EnrolledIsLeftAlone RevokeLeavesNothing AclsAsPlanned
PROPERTIES RegeneratesOnlyUseless RemovesOnlyUseless
CHECK_DEADLOCK FALSE
SYMMETRY Symmetry
