SPECIFICATION Spec
CONSTANTS
    c1 = c1
    c2 = c2
    HELLO = HELLO
    PHOTO = PHOTO
    Callers <- MCCallers
    Commands <- MCCommands
    SeqMod = 2
    DeviceStatuses = {"OK", "BAD", "SHORT"}
    MaxCalls = 2
    MaxEvents = 1
    MaxStarts = 2
INVARIANTS
    TypeOK
    NoStaleEntry
    OwnsItsEntry
    EventsBeforeAnswer
    OpenHasReader
PROPERTIES
    ImplementsRpc
CHECK_DEADLOCK FALSE
