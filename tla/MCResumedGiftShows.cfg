CONSTANTS
    Kinds = {"screen"}
    MaxEffects = 2
    EngineQueue = 2
    OverlayLimit = 2
    PageQueue = 2
    MaxFires = 3
    MaxPauses = 2
    MaxUpsets = 0
SPECIFICATION Spec
INVARIANT ResumedGiftShows
CHECK_DEADLOCK FALSE
