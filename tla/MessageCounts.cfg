SPECIFICATION Spec
CONSTANTS
    alice = alice
    bob = bob
    carol = carol
    NoUser = NoUser
    Users = {alice, bob, carol}
    Staff = {alice}
    MaxRequests = 3
    MaxFaults = 1
SYMMETRY Interchangeable
CHECK_DEADLOCK FALSE
INVARIANTS
    CountersExact
    LastNotOvertaken
PROPERTIES
    ImplementsInbox
