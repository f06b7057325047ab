SPECIFICATION Spec
CONSTANTS
    s1 = s1
    s2 = s2
    Sectors = {s1, s2}
    LastDay = 2
    Window = 1
    PermanentAfter = 2
    GroupSize <- MCGroupSize
    Covers = {s2}
    Dated = {}
    Stamped = {s1, s2}
    Strict = {s1}
    Weekly = {s1}
    WeekStarts = {1}
    Froms = {0}
    OperatorDays = {}
    Nobody = Nobody
    MaxFaults = 2
CHECK_DEADLOCK FALSE
INVARIANTS GapsAreGivenUp AcceptedOnTarget
