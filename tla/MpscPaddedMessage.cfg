CONSTANTS
  Producers = {p1}
  TryOnly = {}
  MayCrash = {}
  BufferSize = 6
  Messages <- LongMessages
  InterestedType = 1
  MaxSends = 3
  Word = 1000
SPECIFICATION FairSpec
PROPERTY SendReturns
CHECK_DEADLOCK FALSE
