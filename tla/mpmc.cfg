SPECIFICATION Spec
CONSTANTS
    Cap = 2
    NP = 2
    Consumers = {c1, c2}
    PerProducer = 2
INVARIANTS
    TypeOK
    SlotExclusive
PROPERTIES
    IsFifo
    Terminates
CHECK_DEADLOCK FALSE
