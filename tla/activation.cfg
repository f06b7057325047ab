SPECIFICATION Spec
CONSTANTS
    Transactions = {t1, t2, t3}
    None = None
    MaxFaults = 2
SYMMETRY Symmetry
INVARIANTS TypeOK ReaderAgrees ConfigIsRecoverable
PROPERTY VerdictIsTrue
CHECK_DEADLOCK FALSE
