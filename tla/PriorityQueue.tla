--------------------------- MODULE PriorityQueue ---------------------------
(* queue.PriorityQueue (queue/priority_queue.go, priority_queue_heap.go): an *)
(* array heap over Go's container/heap (external), whose elements remember   *)
(* their index so that Remove finds them.  Each queue is used by a goroutine *)
(* of its own, as the event loops of two executors do; what they share is    *)
(* the package variable sequence, which Push increments without a lock.      *)
EXTENDS Integers, Sequences, FiniteSets

CONSTANTS Queues, Priorities,
          MaxPushes       \* bound: elements ever pushed

ASSUME PriorityQueueAssumption ==
  IsFiniteSet(Queues) /\ Priorities \subseteq Int /\ MaxPushes \in Nat

Elements == 1 .. MaxPushes     \* named in the order of their insertion
NoHeap   == "nil"              \* a nil Element.heap

VARIABLES sequence,  \* the package variable
          heap,      \* the slice of each queue, index 0 first
          elem,      \* the fields of Element
          pushes,    \* elements inserted
          pushing,   \* where the goroutine of each queue is in Push
          last       \* the last operation on each queue, with its result

vars == <<sequence, heap, elem, pushes, pushing, last>>

NoPush == [step |-> "none", priority |-> 0, loaded |-> 0]

Init ==
  /\ sequence = 0
  /\ heap = [q \in Queues |-> <<>>]
  /\ elem = [x \in Elements |-> [priority |-> 0, seq |-> 0, index |-> -1, heap |-> NoHeap]]
  /\ pushes = 0
  /\ pushing = [q \in Queues |-> NoPush]
  /\ last = [q \in Queues |-> [op |-> "none", id |-> 0, ok |-> TRUE]]

-----------------------------------------------------------------------------
(* _Heap: the five methods of heap.Interface, on m = [h, elem].              *)

\* Mutant: the sequence numbers are not compared.
Less_NoSeq(m, i, j) == m.elem[m.h[i + 1]].priority < m.elem[m.h[j + 1]].priority

Less(m, i, j) ==
  LET a == m.elem[m.h[i + 1]]
      b == m.elem[m.h[j + 1]]
  IN  a.priority < b.priority \/ (a.priority = b.priority /\ a.seq < b.seq)

\* Mutant: the indices of the two elements are not exchanged.
Swap_OneIndex(m, i, j) ==
  LET x == m.h[i + 1]
      y == m.h[j + 1]
  IN  [h |-> [m.h EXCEPT ![i + 1] = y, ![j + 1] = x], elem |-> [m.elem EXCEPT ![y].index = i]]

Swap(m, i, j) ==
  LET x == m.h[i + 1]
      y == m.h[j + 1]
  IN  [h    |-> [m.h EXCEPT ![i + 1] = y, ![j + 1] = x],
       elem |-> [m.elem EXCEPT ![y].index = i, ![x].index = j]]

HeapPush(m, x, q) ==
  [h    |-> Append(m.h, x),
   elem |-> [m.elem EXCEPT ![x] = [@ EXCEPT !.index = Len(m.h), !.heap = q]]]

HeapPop(m) ==
  LET n == Len(m.h)
  IN  [h    |-> SubSeq(m.h, 1, n - 1),
       elem |-> [m.elem EXCEPT ![m.h[n]] = [@ EXCEPT !.index = -1, !.heap = NoHeap]]]

-----------------------------------------------------------------------------
(* container/heap (external: standard library).                              *)

RECURSIVE up(_, _)
up(m, j) ==
  LET i == IF j = 0 THEN 0 ELSE (j - 1) \div 2     \* parent
  IN  IF i = j \/ ~Less(m, j, i) THEN m ELSE up(Swap(m, i, j), i)

RECURSIVE down(_, _, _)
down(m, i, n) ==
  LET j1 == 2 * i + 1
      j  == IF j1 + 1 < n /\ Less(m, j1 + 1, j1) THEN j1 + 1 ELSE j1
  IN  IF j1 >= n \/ ~Less(m, j, i) THEN m ELSE down(Swap(m, i, j), j, n)

ContainerPush(m, x, q) == up(HeapPush(m, x, q), Len(m.h))

ContainerPop(m) ==
  LET n == Len(m.h) - 1 IN HeapPop(down(Swap(m, 0, n), 0, n))

\* down reports whether it moved the element; if not, it may have to move up.
ContainerRemove(m, i) ==
  LET n == Len(m.h) - 1
      s == Swap(m, i, n)
      d == down(s, i, n)
  IN  HeapPop(IF n = i THEN m ELSE IF d = s THEN up(s, i) ELSE d)

-----------------------------------------------------------------------------
(* The operations.  Pop and Peek panic on an empty queue; the executor asks  *)
(* Len() first.                                                              *)

Memory(q) == [h |-> heap[q], elem |-> elem]

Becomes(q, m, op, x, ok) ==
  /\ heap' = [heap EXCEPT ![q] = m.h]
  /\ elem' = m.elem
  /\ last' = [last EXCEPT ![q] = [op |-> op, id |-> x, ok |-> ok]]

\* sequence += 1, a load and a store that other goroutines may come between.
PushLoad(q, p) ==
  /\ pushing[q] = NoPush
  /\ pushes + Cardinality({r \in Queues : pushing[r] # NoPush}) < MaxPushes
  /\ pushing' = [pushing EXCEPT ![q] = [step |-> "store", priority |-> p, loaded |-> sequence]]
  /\ UNCHANGED <<sequence, heap, elem, pushes, last>>

PushStore(q) ==
  /\ pushing[q].step = "store"
  /\ sequence' = pushing[q].loaded + 1
  /\ pushing' = [pushing EXCEPT ![q].step = "insert"]
  /\ UNCHANGED <<heap, elem, pushes, last>>

\* The seq of the element: sequence is read again, or kept from the increment.
PushElement(q) ==
  LET x == pushes + 1
      c == pushing[q]
  IN  /\ c.step = "insert"
      /\ \E s \in {c.loaded + 1, sequence} :
           LET m == [Memory(q) EXCEPT !.elem[x] = [@ EXCEPT !.priority = c.priority, !.seq = s]]
           IN  Becomes(q, ContainerPush(m, x, q), "Push", x, TRUE)
      /\ pushes' = x
      /\ pushing' = [pushing EXCEPT ![q] = NoPush]
      /\ UNCHANGED sequence

Pop(q) ==
  /\ pushing[q] = NoPush
  /\ heap[q] # <<>>
  /\ Becomes(q, ContainerPop(Memory(q)), "Pop", heap[q][1], TRUE)
  /\ UNCHANGED <<sequence, pushes, pushing>>

\* The element may have been popped or removed before.
Remove(q, x) ==
  LET ok == elem[x].heap = q /\ elem[x].index # -1
  IN  /\ pushing[q] = NoPush
      /\ x <= pushes
      /\ Becomes(q, IF ok THEN ContainerRemove(Memory(q), elem[x].index) ELSE Memory(q),
                 "Remove", x, ok)
      /\ UNCHANGED <<sequence, pushes, pushing>>

Next ==
  \E q \in Queues :
    \/ \E p \in Priorities : PushLoad(q, p)
    \/ PushStore(q) \/ PushElement(q)
    \/ Pop(q)
    \/ \E x \in Elements : Remove(q, x)

Spec == Init /\ [][Next]_vars

-----------------------------------------------------------------------------
(* Properties.                                                               *)

\* Every variable has its type; the index of an element lies within the slice of
\* its queue, and is -1 outside of queues.
TypeOK ==
  /\ sequence \in 0 .. MaxPushes
  /\ heap \in [Queues -> Seq(Elements)]
  /\ elem \in [Elements -> [priority : Priorities \cup {0}, seq : 0 .. MaxPushes,
                            index : Int, heap : Queues \cup {NoHeap}]]
  /\ \A x \in Elements : IF elem[x].heap = NoHeap THEN elem[x].index = -1
                         ELSE elem[x].index + 1 \in DOMAIN heap[elem[x].heap]
  /\ pushes \in 0 .. MaxPushes
  /\ pushing \in [Queues -> [step : {"none", "store", "insert"},
                             priority : Priorities \cup {0}, loaded : 0 .. MaxPushes]]

In(q) == {heap[q][i] : i \in DOMAIN heap[q]}

\* Through all the swaps of container/heap, the index and the heap an element
\* remembers are its place: Remove relies on them instead of searching.
ElementsKnowTheirPlace ==
  \A q \in Queues, x \in Elements :
    /\ x \in In(q) <=> elem[x].heap = q
    /\ elem[x].heap = q => heap[q][elem[x].index + 1] = x

\* No element is Less than its parent after any Push, Pop or Remove, which may
\* fill a gap with an element from another branch: so Peek, which the executor
\* arms its timer with, returns the most urgent element.
HeapOrdered ==
  \A q \in Queues : \A i \in 1 .. Len(heap[q]) - 1 : ~Less(Memory(q), i, (i - 1) \div 2)

\* Between any two operations the heap is what container/heap and Remove rely on:
\* within its types, indexed and ordered.
HeapIsIntact == TypeOK /\ ElementsKnowTheirPlace /\ HeapOrdered

\* The elements of a queue by priority, equal ones in the order of insertion.
Before(x, y) ==
  \/ elem[x].priority < elem[y].priority
  \/ elem[x].priority = elem[y].priority /\ x < y

Order(q) ==
  LET Place(x) == 1 + Cardinality({y \in In(q) : Before(y, x)})
  IN  [i \in 1 .. Cardinality(In(q)) |->
         LET x == CHOOSE y \in In(q) : Place(y) = i
         IN  [id |-> x, priority |-> elem[x].priority]]

\* "Two elements with the same priority are ordered by insertion order with the
\* first element inserted being the first returned by Pop" (priority_queue.go):
\* Push, Pop and Remove of every queue are those of a StableQueue.
Stable(q) == INSTANCE StableQueue WITH queue <- Order(q), last <- last[q]

ImplementsStableQueue ==
  /\ \A q \in Queues : Stable(q)!Init
  /\ [][\A q \in Queues : [Stable(q)!Next]_<<Order(q), last[q]>>]_vars
=============================================================================
