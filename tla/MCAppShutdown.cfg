SPECIFICATION FairSpec
CONSTANTS
    MaxRetries = 2
    MaxUser = 3
INVARIANTS
    ShutdownTypeOK
    SyncNotCutByClose
    ExportedBeforeStop
PROPERTIES
    AppSettles
CHECK_DEADLOCK FALSE
