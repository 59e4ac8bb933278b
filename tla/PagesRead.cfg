SPECIFICATION PagingSpec
CONSTANTS
    MaxRows = 4
    MaxTime = 4
    MaxChanges = 2
    Limit = 2
    PrivateSets = {{}, {1}, {2}}
    DoubleSets = {{}, {1, 2}, {1, 3}}
CHECK_DEADLOCK FALSE
INVARIANTS
    PagingTypeOK
    NothingSkipped
    NothingTwice
