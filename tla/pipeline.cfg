CONSTANTS
    Requests <- All
    Cadences <- Both
    MaxRuns = 3
    MaxFaults = 2
SPECIFICATION Spec
INVARIANT TypeOK
INVARIANT AcceptedIsCurrent
INVARIANT ReportIsCurrent
INVARIANT PassCoversPlan
INVARIANT ResumeCompletes
CHECK_DEADLOCK FALSE
