SPECIFICATION Spec
CONSTANTS
    r1 = r1
    r2 = r2
    r3 = r3
    Requests = {r1, r2, r3}
    k1 = k1
    k2 = k2
    NoKey = NoKey
    Keys = {k1, k2}
    MaxUploads = 2
    MaxTime = 2
SYMMETRY Interchangeable
CHECK_DEADLOCK FALSE
INVARIANTS
    HandedOnce
