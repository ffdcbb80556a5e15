CONSTANTS
    Tasks = {t1}
    NoTask = NoTask
    MaxRequests = 4
    MaxDeferred = 1
    Configs <- TimedAndPatient
    Kinds = {"initialize", "ping", "list", "ask", "task", "cancel", "result"}
SPECIFICATION FairSpec
INVARIANTS
    Accounted
    InOrder
PROPERTY
    EventuallyAnswered
CHECK_DEADLOCK FALSE
