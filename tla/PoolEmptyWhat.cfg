CONSTANTS
  Clients = {c1}
  N = 1
  Kinds = {"void", "muteVoid"}
  MayDie = {}
  HostMayDie = FALSE
  SpawnMayFail = FALSE
  SigpipeIgnored = TRUE
  MaxTasks = 1
SPECIFICATION FairSpec
INVARIANT ResultMatches
CHECK_DEADLOCK FALSE
