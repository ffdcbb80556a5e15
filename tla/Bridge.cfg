CONSTANTS
    MaxLines = 2
    DaemonGarbage = TRUE
    Breaks = TRUE
SPECIFICATION ProxyFairSpec
INVARIANTS
    Faithful
    CleanEnd
PROPERTY
    RunReturns
CHECK_DEADLOCK FALSE
