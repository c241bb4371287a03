SPECIFICATION FairSpec
CONSTANTS
    c1 = c1
    c2 = c2
    HELLO = HELLO
    PHOTO = PHOTO
    Callers <- MCCaller
    Commands <- MCCommands
    SeqMod = 2
    DeviceStatuses = {"OK"}
    MaxCalls = 3
    MaxEvents = 0
    MaxStarts = 1
INVARIANTS
    CrossedOnlyAfterWrap
    AnswerTypeMatches
PROPERTIES
    CallsEnd
    CloseCompletes
CHECK_DEADLOCK FALSE
