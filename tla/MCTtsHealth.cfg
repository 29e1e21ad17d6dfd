SPECIFICATION FairHealthSpec
CONSTANTS
    voicevox = voicevox
    bouyomi = bouyomi
    builtin = builtin
    t1 = t1
    t2 = t2
    Externals = {voicevox, bouyomi}
    BuiltinVoice = builtin
    Tasks = {t1, t2}
    MaxTurns = 4
    MaxUiChecks = 1
INVARIANTS
    HealthTypeOK
    CheckingMeansProbing
PROPERTIES
    PollerRecovers
CHECK_DEADLOCK FALSE
