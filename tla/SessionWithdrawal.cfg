CONSTANTS
    Tasks = {t1}
    NoTask = NoTask
    MaxRequests = 4
    MaxDeferred = 1
    Configs <- Undisturbed
    Kinds = {"initialize", "ping", "list", "ask", "task", "cancel", "result"}
SPECIFICATION Spec
INVARIANT
    WithdrawalHeard
CHECK_DEADLOCK FALSE
