SPECIFICATION FairSpec
CONSTANTS
    n1 = n1
    n2 = n2
    h1 = h1
    h2 = h2
    alice = alice
    bob = bob
    NoNode = NoNode
    Users = {alice, bob}
    Callers = {alice}
    Nodes = {n1, n2}
    Handlers = {h1, h2}
    MaxCalls = 1
    MaxFaults = 1
CHECK_DEADLOCK FALSE
INVARIANTS
    RecordConsistent
    Attended
    LoggedAfterTold
PROPERTIES
    ImplementsLifecycle
    CallerLearns
