SPECIFICATION FairSpec
CONSTANTS
    Groups = 2
    Bodies <- MCBodies
    MaxAir = 3
    MaxStarts = 2
    MaxNames = 2
INVARIANTS
    SplicedOnlyAfterWrap
    NoOverwrite
PROPERTIES
    WholeArrives
CHECK_DEADLOCK FALSE
