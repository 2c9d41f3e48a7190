SPECIFICATION Spec
CONSTANTS
  Queues = {q1}
  Priorities = {1, 2}
  MaxPushes = 6
INVARIANTS HeapIsIntact
 
CHECK_DEADLOCK FALSE
