SPECIFICATION Spec
CONSTANTS
  Procs = {p1, p2}
  Keys = {k1, k2}
  Ranged = {k2}
  Own = {t1, t2}
  Prefixed = {t3}
  Foreign = {t4}
  MaxCalls = 0
  MaxSends = 2
  Top = {"name"}
  Nested = {"database.pass"}
  Depth = 2
  Segments = {"a"}
  Metas = {"m1", "m2"}
  MaxGroups = 1
  MaxRoutes = 0
  Codes = {"A", "B"}
  MaxLen = 0
INVARIANT DocNestedSecret
CHECK_DEADLOCK FALSE
