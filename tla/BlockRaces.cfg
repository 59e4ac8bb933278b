SPECIFICATION Spec
CONSTANTS
    alice = alice
    bob = bob
    Users = {alice, bob}
    MaxRequests = 4
    MaxInFlight = 2
    MaxFaults = 1
SYMMETRY Interchangeable
CHECK_DEADLOCK FALSE
INVARIANTS
    BlockLasts
    BlockStops
    BlockEndsContact
    DoublesOverlap
