SPECIFICATION Spec
CONSTANTS
    Dispatchers = {task, operator}
    Task = task
    early = early
    late = late
    Phases = {early}
    Due <- DueAt
    Grace <- GraceOf
    MaxAttempts = 2
    ChildTimeout = 1
    StaleAfter = 3
    Slack = 1
    LastTick = 4
    Manual = {}
    Legacy = {old}
    NoLock = NoLock
    MaxFaults = 1
INVARIANTS TypeOK PassedIsCaptured ChainHolds LiveAttemptsStand CleanExitIsCovered
CHECK_DEADLOCK FALSE
