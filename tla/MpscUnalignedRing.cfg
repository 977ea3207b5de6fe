CONSTANTS
  Producers = {p1}
  TryOnly = {}
  MayCrash = {}
  BufferSize = 7
  Messages <- ShortMessages
  InterestedType = 1
  MaxSends = 4
  Word = 1000
SPECIFICATION FairSpec
INVARIANT DeliversExactly
CHECK_DEADLOCK FALSE
