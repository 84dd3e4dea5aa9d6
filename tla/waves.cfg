SPECIFICATION Spec
CONSTANTS
    Files <- Contents
    FirstFile <- Two
    MaxEdits = 1
    MaxCmds = 1
    NO = 2
    NR = 3
INVARIANTS
    AtMostPar
    SettingsReach

    
CHECK_DEADLOCK FALSE
