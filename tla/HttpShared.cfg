CONSTANTS
    Requests = {q1, q2, q3, q4}
    Ids = {s1, s2}
    None = None
    RequireInit = FALSE
    MaxSessions = 1
    Levels = {"info", "debug"}
    DefaultLevel = "info"
    Capabilities = {"sampling"}
SYMMETRY Symmetry
SPECIFICATION SessionsSpec
INVARIANT
    TableSound
PROPERTY
    HandshakeKept
CHECK_DEADLOCK FALSE
