SPECIFICATION FairSpec
CONSTANTS
    MaxRaw = 1
    MaxCalls = 1
PROPERTIES
    Reconnects
CHECK_DEADLOCK FALSE
