SPECIFICATION FairSpec
CONSTANTS
    Entries = {1, 2, 3}
    PageMax = 2
    MaxOffset = 4
    MaxListChanges = 2
    MaxTurns = 2
INVARIANTS
    MissedOnlyIfShifted
PROPERTIES
    ListingEnds
CHECK_DEADLOCK FALSE
