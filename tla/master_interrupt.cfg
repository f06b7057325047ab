SPECIFICATION Spec
CONSTANTS
    a = a
    b = b
    c = c
    p = p
    g1 = g1
    g2 = g2
    MainLane = main
    MaxRuns = 1
    Sectors = {a, b, c}
    Jobs = {p}
    Groups = {g1, g2}
    Lane <- MCLane
    Rank <- MCRank
    Required = {a, c, p}
    Network = {a, c}
    NetLanes = 1
    Posts = {a}
    CommandLines <- MCLines
    Published = {"v1", "bad"}
    Probed = {c}
    MaxAttempts = 2
    MaxFaults = 1
CHECK_DEADLOCK FALSE
PROPERTY CheckpointsSurviveInterrupts
