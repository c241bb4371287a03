SPECIFICATION Spec
CONSTANTS
    MaxCalls = 2
    MaxTriggers = 1
    MaxDepth = 1
    MaxOutside = 1
INVARIANTS
    RetakePossible
CHECK_DEADLOCK FALSE
