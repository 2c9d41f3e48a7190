SPECIFICATION FairSpec
CONSTANTS
  Callers = {c1, c2}
  Loop = Loop
  Runner = Runner
  MaxCalls = 2
INVARIANTS ClosedOnceWhenDone OneCancelWins
PROPERTIES FollowsLifecycle EarlyAwaitWakes
CHECK_DEADLOCK FALSE
