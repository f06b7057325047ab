SPECIFICATION FairSpec
CONSTANTS
    s1 = s1
    s2 = s2
    Sectors = {s1}
    LastDay = 3
    Window = 1
    PermanentAfter = 2
    GroupSize <- MCOne
    Covers = {}
    Dated = {s1}
    Stamped = {}
    Strict = {s1}
    Weekly = {}
    WeekStarts = {1}
    Froms = {0, 1}
    OperatorDays = {1}
    Nobody = Nobody
    MaxFaults = 1
CHECK_DEADLOCK FALSE
INVARIANTS TypeOK CleanPassClosesGaps
PROPERTIES OperatorMarksStand GapsAreSettled
