SPECIFICATION FairSpec
CONSTANTS
    c1 = c1
    c2 = c2
    voicevox = voicevox
    builtin = builtin
    Comments = {c1, c2}
    Notifying = {c1}
    Providers = {voicevox}
    Builtin = builtin
    MaxOps = 2
INVARIANTS
    TypeOK
    NoLostWakeup
    CountNotInflated
PROPERTIES
    JobsServed
CHECK_DEADLOCK FALSE
