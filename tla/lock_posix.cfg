SPECIFICATION FairSpec
CONSTANTS
    m1 = m1
    m2 = m2
    m3 = m3
    Masters = {m1, m2, m3}
    Activations = {}
    Directs = {}
    Parents = {m1}
    Slots = {1}
    NoProc = NoProc
    UnlinkOpen = TRUE
    ProbeMayFail = FALSE
CHECK_DEADLOCK FALSE
PROPERTIES RecoveryNeverUndone ContendersSettle StaleLockIsRecovered
