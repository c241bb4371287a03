SPECIFICATION Spec
CONSTANTS
    SnMod = 16
    Sections = 3
    SnStep = 3
    MaxFiles = 2
    MaxPackages = 4
    MaxFaults = 2
INVARIANTS
    LossCounted
    FileWithRecording
PROPERTIES
    TailKept
CHECK_DEADLOCK FALSE
