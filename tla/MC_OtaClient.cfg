SPECIFICATION FairSpec
CONSTANTS
    Size = 6
    BlockLen = 2
    Chunk = 1
    SnMax = 99
    Retries = 3
    MaxPolls = 2
    MaxAsks = 2
INVARIANTS
    DoneIsComplete
PROPERTIES
    PassedIsStored
    UpgradeEnds
CHECK_DEADLOCK FALSE
