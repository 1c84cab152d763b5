SPECIFICATION Spec
CONSTANTS
    DayLength = 6
    Specs <- AllSpecs
    RetryTime = 1
    RoundTime = 2
    LastDay = 8
INVARIANTS
    TypeOK
    OpenAsListed
    NoOpeningMissed
    WakesToOpen
