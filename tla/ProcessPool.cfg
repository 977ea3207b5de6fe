CONSTANTS
  Clients = {c1, c2}
  N = 2
  Kinds = {"value", "throws"}
  MayDie = {2}
  HostMayDie = TRUE
  SpawnMayFail = TRUE
  SigpipeIgnored = TRUE
  MaxTasks = 2
SPECIFICATION FairSpec
INVARIANT TypeOK
INVARIANT ResultMatches
INVARIANT ShutdownLeavesNothing
PROPERTY CompletedOnce
PROPERTY FutureCompletes
PROPERTY ShutdownReturns
PROPERTY OrphansLeave
CHECK_DEADLOCK FALSE
