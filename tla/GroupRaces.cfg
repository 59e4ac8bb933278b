SPECIFICATION Spec
CONSTANTS
    alice = alice
    bob = bob
    carol = carol
    NoUser = NoUser
    Users = {alice, bob, carol}
    Creator = alice
    MaxRequests = 3
    MaxInFlight = 3
SYMMETRY Interchangeable
CHECK_DEADLOCK FALSE
PROPERTIES
    OnlyAdditionsAdmit
    CreatorProtected
    AtomicWhenAlone
