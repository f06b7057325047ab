SPECIFICATION Spec
CONSTANTS
    m1 = m1
    m2 = m2
    a1 = a1
    d1 = d1
    Masters = {m1, m2}
    Activations = {a1}
    Directs = {d1}
    Parents = {a1}
    Slots = {1}
    NoProc = NoProc
    UnlinkOpen = FALSE
    ProbeMayFail = TRUE
SYMMETRY Symmetry
CHECK_DEADLOCK FALSE
INVARIANTS TypeOK KeepersExclusive
PROPERTIES BorrowedFromTheOnlyOwner OverrideJustified
