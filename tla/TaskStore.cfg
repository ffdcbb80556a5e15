CONSTANTS
    TaskIds = {1, 2}
    Requestors = {r1, r2}
    MaxConcurrent = 1
    MaxRecords = 1
    DefaultTtl = 1
    MaxTtl = 1
    RequestedTtls = {NoTtl}
    NoTtl = NoTtl
    Blocking = {r2}
    Patience = TRUE
    Horizon = 1
SPECIFICATION FairSpec
INVARIANTS
    ResultsAgree
    Isolation
    PurgeIsFinal
PROPERTIES
    CapacityKept
    AwaitReturns
    ImplementsLifecycle
CHECK_DEADLOCK FALSE
