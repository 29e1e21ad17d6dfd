SPECIFICATION Spec
CONSTANTS
  i1 = i1  i2 = i2  i3 = i3  i4 = i4
  fan = fan  troll = troll  s1 = s1
  none = none  nobody = nobody
  Ids <- FourIds
  Authors <- MCAuthors
  AuthorOf <- MCAuthorOf
  HiddenAuthors <- MCHidden
  Nobody = nobody
  Streams <- MCStreams
  NoStream = none
  ChanCap = 1
  Capacity = 3
  MinFit = 3
  MAX_PUSHED = 4
  MAX_CONN = 1
  MAX_REACT = 1
INVARIANTS FeedTypeOK DeliveredInOrder NoLossWithoutLag DeletedNotShown CaughtUpAtRest
SYMMETRY SameAuthor
CHECK_DEADLOCK FALSE
