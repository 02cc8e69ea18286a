SPECIFICATION Spec
CONSTANTS
    e1 = e1
    e2 = e2
    e3 = e3
    NoEntry = none
    Entries <- ThreeEntries
    MaxFiles = 2
    MaxSessions = 3
    Faults <- AllFaults
SYMMETRY Symmetry
INVARIANTS
    TypeOK
    CompletedSessionDelivers
    LossBounded
    RunningMeansInFlight
PROPERTY SentOnce
CHECK_DEADLOCK FALSE
