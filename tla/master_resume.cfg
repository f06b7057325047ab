SPECIFICATION Spec
CONSTANTS
    a = a
    b = b
    c = c
    p = p
    g1 = g1
    g2 = g2
    MainLane = main
    MaxRuns = 2
    Sectors = {a, c}
    Jobs = {}
    Groups = {g1, g2}
    Lane <- MCLane2
    Rank <- MCRank2
    Required = {a, c}
    Network = {a, c}
    NetLanes = 1
    Posts = {}
    CommandLines <- MCResume
    Published = {"v1"}
    Probed = {}
    MaxAttempts = 1
    MaxFaults = 2
CHECK_DEADLOCK FALSE
PROPERTIES RecordKept SkipIsSound ResumeRecovers
