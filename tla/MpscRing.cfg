CONSTANTS
  Producers = {p1, p2}
  TryOnly = {p2}
  MayCrash = {p2}
  BufferSize = 6
  Messages <- RingMessages
  InterestedType = 2
  MaxSends = 2
  Word = 1000
SPECIFICATION FairSpec
INVARIANT TypeOK
INVARIANT PositionsOrdered
INVARIANT WritersApart
INVARIANT DeliversUntilWrap
PROPERTY SendReturns
PROPERTY PublishedIsRead
CHECK_DEADLOCK FALSE
