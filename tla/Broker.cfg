CONSTANTS
    Workers = {w1, w2}
    MaxRequests = 2
    MaxParked = 1
    MaxAbandoned = 1
    Deadlines = TRUE
    Rogue = TRUE
    Garbage = TRUE
SYMMETRY Symmetry
SPECIFICATION Spec
INVARIANT
    Routed
CHECK_DEADLOCK FALSE
