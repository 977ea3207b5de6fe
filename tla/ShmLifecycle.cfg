CONSTANTS
  Producers = {p1, p2}
  Consumers = {c1, c2}
  HeaderSize = 1
  UsualSize = 2
  OtherSizes = {1, 3}
  MayDiffer = {p2}
  MayCrash = {p2}
  MaxObjects = 2
  MaxStarts = 4
SPECIFICATION FairSpec
INVARIANT TypeOK
INVARIANT ReadyBeforeUse
INVARIANT CountsMatch
INVARIANT SameQueue
PROPERTY WaitEnds
CHECK_DEADLOCK FALSE
