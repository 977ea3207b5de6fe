CONSTANTS
  Senders = {s1, s2}
  Receivers = {r1, r2}
  Closers = {c1}
  Size = 2
  CopyMayThrow = {s2}
  MaxSends = 2
SPECIFICATION FairSpec
INVARIANT TypeOK
INVARIANT NulloptIsFinal
INVARIANT NoLostWakeup
PROPERTY ImplementsChannel
PROPERTY CloseReleasesAll
PROPERTY BlockedCallProceeds
CHECK_DEADLOCK FALSE
