SPECIFICATION FairSpec
CONSTANTS
    MaxFailures = 1
    MaxFaults = 0
PROPERTIES
    JoinsUnattended
CHECK_DEADLOCK FALSE
