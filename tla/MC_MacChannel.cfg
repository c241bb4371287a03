SPECIFICATION FairSpec
CONSTANTS
    PipeMax = 2
    Retries = 1
    MaxBytes = 3
    MaxWrites = 2
    MaxOpens = 2
INVARIANTS
    AllBeforeEnd
PROPERTIES
    ImplementsChannel
    AckIsOwn
    OneWorker
    CallsEnd
CHECK_DEADLOCK FALSE
