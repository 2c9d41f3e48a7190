SPECIFICATION FairSpec
CONSTANTS
  Clients = {c1}
  Calls = {"Submit"}
  Kinds <- DelayedKind
  Outcomes = {"nil"}
  Concurrency = 1
  QueueCapacity = 2
  Limits = {}
  MaxTasks = 2
  MaxTime = 2
  MaxCtxGo = 0
PROPERTIES ScheduledRuns
CHECK_DEADLOCK FALSE
