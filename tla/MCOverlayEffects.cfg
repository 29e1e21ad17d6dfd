CONSTANTS
    Kinds = {"fixed", "overlapping", "ticker", "bubble", "screen"}
    MaxEffects = 2
    EngineQueue = 2
    OverlayLimit = 2
    PageQueue = 2
    MaxFires = 3
    MaxPauses = 2
    MaxUpsets = 1
SPECIFICATION Spec
INVARIANTS EffectsTypeOK ExclusiveAlone QueuesAwake GiftsKept
CHECK_DEADLOCK FALSE
