SPECIFICATION Spec
CONSTANTS
    MaxCalls = 3
    MaxTriggers = 2
    MaxDepth = 2
    MaxOutside = 2
INVARIANTS
    OtaExclusive
    PhotoAttribution
    NoOrphanStream
    NeverStuck
CHECK_DEADLOCK FALSE
