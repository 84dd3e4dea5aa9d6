SPECIFICATION Spec
CONSTANTS
    Datagrams = {"a", "b", "e"}
    Ids = {1, 2}
    IdOf <- SharedIds
    PartsOf <- Mixed
    MaxFragments = 3
    RingCap = 5
INVARIANTS
    Aligned
    OwnPayload
    ForwardedOnce
PROPERTIES
    KeepsUp
CHECK_DEADLOCK FALSE
