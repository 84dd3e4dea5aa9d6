SPECIFICATION Spec
CONSTANTS
    B = 3
    Settings <- TwoSettings
    MaxVersion = 3
    Paced = TRUE
    MayBreak = TRUE
INVARIANTS
    TypeOK
    OneBridgePerId
    ListedOnly
    SharedHasMain
PROPERTIES
    
    AddedStarts
CHECK_DEADLOCK FALSE
