SPECIFICATION FairSpec
CONSTANTS
    Hangs = TRUE
    MaxBoots = 2
INVARIANTS
    TypeOK
    GoneIsRecorded
PROPERTIES
    ExpiryIsFenced
    FreeOrphanEnds
CHECK_DEADLOCK FALSE
