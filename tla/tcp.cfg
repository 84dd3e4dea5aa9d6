SPECIFICATION Spec
CONSTANTS
    M = 2
    Curl <- NoCurl
    MaxOut = 1
INVARIANTS
    TypeOK
    NeverStuck
PROPERTIES
    Reconnects
    AttemptCompletes
CHECK_DEADLOCK FALSE
