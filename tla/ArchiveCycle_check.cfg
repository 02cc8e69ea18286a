SPECIFICATION CycleFairSpec
CONSTANTS
    e1 = e1
    NoEntry = none
    Entries <- OneEntry
    MaxFiles = 1
    MaxSessions = 1
    Faults <- CycleFaults
    Systems <- AllSystems
    Enabled <- Music
    MaxCreds = 1
    MaxMounts = 1
INVARIANTS
    CycleTypeOK
    NothingHeld
    ArchivesAwake
CHECK_DEADLOCK FALSE
PROPERTIES
    CycleEnds
    ImplementsParts
