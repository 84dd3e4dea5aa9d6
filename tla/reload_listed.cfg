SPECIFICATION Spec
CONSTANTS
    B = 2
    Settings <- ThreeSettings
    MaxVersion = 2
    Paced = TRUE
    MayBreak = FALSE
INVARIANT
    ListedIsThere
CHECK_DEADLOCK FALSE
