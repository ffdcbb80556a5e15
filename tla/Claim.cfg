CONSTANTS
    d1 = d1
    Daemons = {d1, d2, d3, d4}
    ByHand = {d2}
    Publishers = {d1, d3, d4}
    Shims = {s1, s2}
    None = None
    Leftovers <- AfterCrash
    Weathers <- CalmAndStorm
SPECIFICATION ClaimFairSpec
INVARIANTS
    NeverOrphaned
    ClaimHeld
PROPERTY
    Converges
CHECK_DEADLOCK FALSE
