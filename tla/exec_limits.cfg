SPECIFICATION Spec
SYMMETRY ClientSymmetry
CONSTANTS
  Clients = {c1, c2}
  Calls = {"Submit", "TaskCancel", "SetConcurrency", "SetQueueCapacity"}
  Kinds <- ReadyKind
  Outcomes = {"nil"}
  Concurrency = 1
  QueueCapacity = 1
  Limits = {0, 1}
  MaxTasks = 4
  MaxTime = 0
  MaxCtxGo = 0
 
PROPERTIES ConcurrencyRespected
CHECK_DEADLOCK FALSE
