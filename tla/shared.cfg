SPECIFICATION Spec
CONSTANTS
  Procs = {p1, p2, p3}
  Requests = {p1, p2}
  Errs = {e1, e2}
  None = None
  MaxArgs = 2
  Keys = {"/health", "/api/a"}
  Base = {"/api/a"}
  LogPath = "/log"
  MaxGone = 2
  Values = {TRUE, FALSE}
INVARIANTS OncePerKey EntryIsShared HiddenWhileFormatting OrderedCallsDoNotDeadlock
PROPERTIES RequireReturns
CHECK_DEADLOCK FALSE
