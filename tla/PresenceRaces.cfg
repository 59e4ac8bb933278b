SPECIFICATION FairSpec
CONSTANTS
    n1 = n1
    n2 = n2
    s1 = s1
    s2 = s2
    s3 = s3
    o1 = o1
    Nodes = {n1, n2}
    Sockets = {s1, s3}
    Logouts = {o1}
    NodeOf <- Placement
    MaxInFlight = 2
    MaxFaults = 1
CHECK_DEADLOCK FALSE
INVARIANTS
    AgreeWhenCalm
    SteadyKept
PROPERTIES
    BeatsRepair
