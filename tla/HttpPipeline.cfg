SPECIFICATION Spec
CONSTANTS
    None = None
    Slots = {1, 2}
    Ids = {s1, s2}
    MaxNotes = 1
    Offered <- SmallOffered
    Configs <- SmallConfigs
INVARIANTS
    Authorized
    Settled
    Unambiguous
PROPERTY
    Served
CHECK_DEADLOCK FALSE
