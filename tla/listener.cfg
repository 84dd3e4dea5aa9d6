SPECIFICATION ListenerSpec
CONSTANTS
    Files <- Contents
    FirstFile <- On
    MaxEdits = 2
    NL = 3
    NR = 3
    NC = 2
INVARIANTS
    OwnRecord
    NeverDeaf
PROPERTIES
    QuitEnds
    ListenerStops
CHECK_DEADLOCK FALSE
