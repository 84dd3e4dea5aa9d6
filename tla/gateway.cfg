SPECIFICATION Spec
CONSTANTS
    SEM_VALUE_MAX = 2
    MaxFilled = 2
    MaxStored = 2
INVARIANTS
    TypeOK
    WakeupNotLost
    StoppedAfterDischarger
    ExitShutsGate
PROPERTIES
    StoredIsServed
    SenderEnds
CHECK_DEADLOCK FALSE
