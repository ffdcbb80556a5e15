CONSTANTS
    Conns = {c1, c2, c3}
    Streams <- SmallStreams
    Connections = 0
    ReadTimeout = 0
    IdleTimeout = 0
    Backlog = 1
    MaxHead = 2
    MaxBlank = 1
    MaxBody = 1
    MaxTrailers = 1
SPECIFICATION Http1FairSpec
INVARIANTS
    InSync
    SlotsExact
PROPERTY
    RequestEnds
CHECK_DEADLOCK FALSE
