SPECIFICATION IngestSpec
CONSTANTS
    v1 = v1
    v2 = v2
    own = own
    guest = guest
    c1 = c1
    c2 = c2
    u1 = u1
    t1 = t1
    t2 = t2
    Videos = {v1, v2}
    Channels = {own}
    OwnerOf <- BothOwn
    NoVideo = NoVideo
    NoOwner = NoOwner
    NoPending = NoPending
    SaveChoices <- SaveNothing
    MaxInbox = 2
    MaxFetch = 1
    MaxTurns = 2
    Comments = {c1, c2}
    Listeners = {u1}
    Author <- MCAuthor
    Origin <- MCOrigin
    Threads = {t1}
    NoComment = NoComment
    MaxSeenIds = 1
    TimelineCap = 1
    StoreCap = 1
    MaxPushes = 3
INVARIANTS
    IngestTypeOK
    OncePerStream
    ReplayAgreesWithTimeline
    FirstTimeOnce
CHECK_DEADLOCK FALSE
