\* The wait for idle, with polls that come late by up to two intervals.
SPECIFICATION FairSpec
CONSTANTS
    Timeout = 9
    MaxGap = 3
    Faults <- AllFaults
INVARIANTS TypeOK IdleMeansQuiet
PROPERTIES QuietReturns
