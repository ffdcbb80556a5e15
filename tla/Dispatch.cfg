SPECIFICATION Spec
CONSTANTS
    RequestIds = {"7"}
    Absent = Absent
    MaxTasks = 3
    Configs <- SmallConfigs
INVARIANTS
    Attributable
    Honoured
    TaskAgrees
    SpokenSoundly
    WalkCovers
CHECK_DEADLOCK FALSE
