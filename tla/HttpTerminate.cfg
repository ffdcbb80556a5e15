CONSTANTS
    Requests = {q1, q2, q3}
    Ids = {s1, s2}
    None = None
    RequireInit = TRUE
    MaxSessions = 1
    Levels = {"info", "debug"}
    DefaultLevel = "info"
    Capabilities = {"sampling"}
SPECIFICATION SessionsSpec
INVARIANT
    TerminatedStaysGone
CHECK_DEADLOCK FALSE
