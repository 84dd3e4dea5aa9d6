SPECIFICATION Spec
CONSTANTS
    N = 3
    SegCap = 2
    MaxStride = 2
    MaxSkip = 1
    PostEnter <- NoPostEnter
    StoreMayFail = TRUE
INVARIANTS
    TypeOK
    NoSilentLoss
    AtMostOnce
    OneCopyToSend
PROPERTY KeepsPromise
CHECK_DEADLOCK FALSE
