CONSTANTS
  Clients = {c1}
  N = 1
  Kinds = {"void"}
  MayDie = {}
  HostMayDie = FALSE
  SpawnMayFail = FALSE
  SigpipeIgnored = FALSE
  MaxTasks = 1
SPECIFICATION FairSpec
INVARIANT ParentSurvives
CHECK_DEADLOCK FALSE
