SPECIFICATION FairSpec
CONSTANTS
    v1 = v1
    v2 = v2
    Videos = {v1, v2}
    NoVideo = NoVideo
    NoWindow = NoWindow
    MaxWindows = 9
    MaxUser = 2
    MaxFaults = 2
INVARIANTS
    TypeOK
    QuietAfterDisconnect
    ChatWindowIsLive
PROPERTIES
    SessionHeals
CHECK_DEADLOCK FALSE
