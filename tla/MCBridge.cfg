SPECIFICATION FairSpec
CONSTANTS
    MaxRaw = 3
    MaxCalls = 2
INVARIANTS
    TypeOK
    Finished
    Heeded
PROPERTIES
    TerminateEnds
CHECK_DEADLOCK FALSE
