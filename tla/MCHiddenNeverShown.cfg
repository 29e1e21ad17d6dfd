SPECIFICATION Spec
CONSTANTS
  i1 = i1  i2 = i2  i3 = i3  i4 = i4
  fan = fan  troll = troll  s1 = s1
  none = none  nobody = nobody
  Ids <- TwoIds
  Authors <- MCAuthors
  AuthorOf <- MCAuthorOf
  HiddenAuthors <- MCHidden
  Nobody = nobody
  Streams <- MCStreams
  NoStream = none
  ChanCap = 2
  Capacity = 4
  MinFit = 4
  MAX_PUSHED = 2
  MAX_CONN = 1
  MAX_REACT = 0
INVARIANTS HiddenNeverShown

CHECK_DEADLOCK FALSE
