CONSTANTS
    unix = unix
    tcp = tcp
    Listeners <- TwoListeners
    Primary = unix
    BoundTo <- Addresses
    Clients = {c1, c2}
    Knock = Knock
    Unset = Unset
    DefaultMaxConnections = 2
    Launches <- SomeLaunches
    MaxArrivals = 1
    ThreadsFail = TRUE
SPECIFICATION DaemonSpec
PROPERTY
    IdleExitIsIdle
CHECK_DEADLOCK FALSE
