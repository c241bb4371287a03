SPECIFICATION FairSpec
CONSTANTS
    Attempts = 2
    Chunks = 2
    MaxRevs = 2
    MaxConns = 2
    MaxOps = 1
    MaxFaults = 1
    Files = {"main", "comp"}
INVARIANTS
    LanReleased
PROPERTIES
    QuietAfterCancel
    AppearsWhole
    CancelStops
    LostEnds
CHECK_DEADLOCK FALSE
