CONSTANTS
  Producers = {p1, p2}
  TryOnly = {}
  MayCrash = {}
  BufferSize = 6
  Messages <- RingMessages
  InterestedType = 2
  MaxSends = 2
  Word = 1000
SPECIFICATION FairSpec
INVARIANT DeliversExactly
CHECK_DEADLOCK FALSE
