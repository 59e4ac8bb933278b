SPECIFICATION Spec
CONSTANTS
    alice = alice
    bob = bob
    Users = {alice, bob}
    Offers <- FourOffers
    MaxRequests = 3
    MaxStories = 2
    MaxInFlight = 2
    MaxEvents = 1
SYMMETRY Interchangeable
CHECK_DEADLOCK FALSE
INVARIANTS
    MediaMatchesRow
    KeptForItsDay
    ToldIsShown
    FeedInStep
