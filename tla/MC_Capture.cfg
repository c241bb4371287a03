SPECIFICATION Spec
CONSTANTS
    MaxOps = 2
    MaxConns = 2
    MaxChanges = 1
    MaxFaults = 1
    Profiles = {p1, p2}
SYMMETRY ProfileSymmetry
PROPERTIES
    ClosedQuiet
    ConfigIsOwn
CHECK_DEADLOCK FALSE
