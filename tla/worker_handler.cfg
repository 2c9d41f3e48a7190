SPECIFICATION FairSpec
CONSTANTS
  Workers = {w1, w2}
INVARIANTS StopWaitsForWorkers ErrorExitHasCause
PROPERTIES EndStopsApp 
CHECK_DEADLOCK FALSE
