SPECIFICATION FairSpec
CONSTANTS
    s1 = s1
    s2 = s2
    NoScene = NoScene
    Scenes = {s1, s2}
    MaxResets = 2
    MaxCrashes = 2
    MaxLocked = 2
INVARIANTS
    ResetTypeOK
    OnlyAskedIsLost
    BegunResetIsFinished
    SettingsKept
PROPERTIES
    MigrationsFinish
CHECK_DEADLOCK FALSE
