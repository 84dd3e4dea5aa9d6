SPECIFICATION Spec
CONSTANTS
    NB = 2
    Kind <- OneOfEach
    NU = 1
    RingCap = 1
    MaxPackets <- Packets
INVARIANTS
    CaptureTornDownQuiet
    NoWorkAtExit
PROPERTIES
    Quits
CHECK_DEADLOCK FALSE
