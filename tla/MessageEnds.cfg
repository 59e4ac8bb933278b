SPECIFICATION FairSpec
CONSTANTS
    alice = alice
    bob = bob
    Users = {alice, bob}
    Author = alice
    Staff = {bob}
    MaxRequests = 3
    MaxFaults = 1
CHECK_DEADLOCK FALSE
INVARIANTS
    TogglesCount
    ClearedUnlessRacing
    Announced
PROPERTIES
    Disappears
