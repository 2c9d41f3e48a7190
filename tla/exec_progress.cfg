SPECIFICATION FairSpec
CONSTANTS
  Clients = {c1, c2}
  Calls = {"Submit", "Cancel", "CtxDone"}
  Kinds <- OneShotKinds
  Outcomes = {"nil"}
  Concurrency = 1
  QueueCapacity = 1
  Limits = {}
  MaxTasks = 2
  MaxTime = 2
  MaxCtxGo = 2
PROPERTIES AcceptedRuns ShutdownTerminates
CHECK_DEADLOCK FALSE
