SPECIFICATION Spec
CONSTANTS
    SEM_VALUE_MAX = 2
    MaxFilled = 2
    MaxStored = 2
PROPERTY ShutdownHandshakeEnds
CHECK_DEADLOCK FALSE
