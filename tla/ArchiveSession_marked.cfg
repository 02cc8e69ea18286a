SPECIFICATION Spec
CONSTANTS
    e1 = e1
    e2 = e2
    e3 = e3
    NoEntry = none
    Entries <- TwoEntries
    MaxFiles = 1
    MaxSessions = 2
    Faults <- CopyFaults
INVARIANT MarkedMeansArchived
CHECK_DEADLOCK FALSE
