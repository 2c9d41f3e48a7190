SPECIFICATION Spec
CONSTANTS
  Procs = {p1, p2}
  None = None
  TTL = 2
  MaxDelay = 0
  MaxLag = 1
  MaxWatchers = 2
SYMMETRY ProcSymmetry
INVARIANTS OneLiveWorker LiveContextIsWatched 
PROPERTIES ImplementsLease
CHECK_DEADLOCK FALSE
