SPECIFICATION FairSpec
CONSTANTS
    Dispatchers = {task}
    Task = task
    early = early
    late = late
    Phases = {early, late}
    Due <- DueAt
    Grace <- GraceOf
    MaxAttempts = 1
    ChildTimeout = 1
    StaleAfter = 3
    Slack = 1
    LastTick = 5
    Manual = {hand}
    Legacy = {}
    NoLock = NoLock
    MaxFaults = 1
PROPERTIES StartedIsSettled InvocationsEnd
CHECK_DEADLOCK FALSE
