SPECIFICATION Spec
CONSTANTS
    Nightlies = {task, hand}
    Operators = {operator}
    NoLock = NoLock
    MaxFaults = 2
INVARIANTS TypeOK PassIsOwn MasterRanAnyway DeadNightliesAreClosed MissingLedgerIsReported
SYMMETRY Symmetry
CHECK_DEADLOCK FALSE
