SPECIFICATION Spec
CONSTANTS
  Procs = {p1, p2}
  Keys = {k1, k2}
  Ranged = {k2}
  Own = {t1, t2}
  Prefixed = {t3}
  Foreign = {t4}
  MaxCalls = 3
  MaxSends = 2
  Top = {"name"}
  Nested = {"database.pass"}
  Depth = 2
  Segments = {"a"}
  Metas = {"m1", "m2"}
  MaxGroups = 3
  MaxRoutes = 2
  Codes = {"A", "B"}
  MaxLen = 5
      
PROPERTIES FinderEnds
CHECK_DEADLOCK FALSE
