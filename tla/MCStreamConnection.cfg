SPECIFICATION Spec
CONSTANTS
    v1 = v1
    v2 = v2
    own = own
    guest = guest
    Videos = {v1, v2}
    Channels = {own, guest}
    OwnerOf <- MCOwnerOf
    NoVideo = NoVideo
    NoOwner = NoOwner
    NoPending = NoPending
    SaveChoices <- MCSaves
    MaxInbox = 3
    MaxFetch = 1
    MaxTurns = 5
INVARIANTS
    TypeOK
    OwnerMatchesVideo
PROPERTIES
    ImplementsHub
CHECK_DEADLOCK FALSE
