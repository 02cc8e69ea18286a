SPECIFICATION FairSpec
CONSTANTS
    MaxFailures = 2
    MaxFaults = 3
INVARIANTS
    TypeOK
    RebootJustified
    PresentsFormatted
    LoadedIsCurrent
PROPERTIES
    DaemonStaysUp
    HomeInTheEnd
CHECK_DEADLOCK FALSE
