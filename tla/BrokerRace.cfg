CONSTANTS
    Workers = {w1}
    MaxRequests = 1
    MaxParked = 1
    MaxAbandoned = 4
    Deadlines = TRUE
    Rogue = FALSE
    Garbage = FALSE
SPECIFICATION Spec
INVARIANT
    ParkedHasWaiter
CHECK_DEADLOCK FALSE
