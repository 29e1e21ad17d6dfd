SPECIFICATION FairSpec
CONSTANTS
    MaxComments = 2
    MaxSent = 3
    MaxUpsets = 1
    ResetOnVisible = TRUE
INVARIANTS
    ListTypeOK
    CardsAccounted
    ListInOrder
PROPERTIES
    CardsRest
CHECK_DEADLOCK FALSE
