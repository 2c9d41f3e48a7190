SPECIFICATION Spec
SYMMETRY ClientSymmetry
CONSTANTS
  Clients = {c1, c2}
  Calls = {"Submit", "TaskCancel", "Cancel", "CancelNow"}
  Kinds <- LifecycleKinds
  Outcomes = {"nil", "Failed"}
  Concurrency = 1
  QueueCapacity = 1
  Limits = {}
  MaxTasks = 2
  MaxTime = 2
  MaxCtxGo = 0
INVARIANTS RunningCount TerminatedIsIdle NoLostTask
PROPERTIES CanceledNeverStarts NotBeforeDue
CHECK_DEADLOCK FALSE
