SPECIFICATION FairSpec
CONSTANTS
    MaxRaw = 1
    MaxCalls = 1
PROPERTIES
    TerminateAlwaysEnds
CHECK_DEADLOCK FALSE
