CONSTANTS
    unix = unix
    tcp = tcp
    Listeners <- TwoListeners
    Primary = unix
    BoundTo <- Addresses
    Clients = {c1, c2}
    Knock = Knock
    Unset = Unset
    DefaultMaxConnections = 2
    Launches <- SomeLaunches
    MaxArrivals = 1
    ThreadsFail = TRUE
SPECIFICATION DaemonFairSpec
INVARIANTS
    ActiveExact
    QuietBeforeCleanup
PROPERTIES
    IdleDecision
    DaemonEnds
CHECK_DEADLOCK FALSE
