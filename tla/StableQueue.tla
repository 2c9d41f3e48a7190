---------------------------- MODULE StableQueue ----------------------------
(* What queue.PriorityQueue promises: a queue ordered by priority, the       *)
(* smallest first, in which elements of equal priority keep the order of     *)
(* their insertion.  Module PriorityQueue implements it with a heap, and     *)
(* module Executor relies on it for its scheduled tasks.                     *)
EXTENDS Integers, Sequences, FiniteSets

CONSTANTS Elements, Priorities

VARIABLES queue,    \* the elements as [id, priority], in the order of Pop
          last      \* the last operation, its element and its result

Init == queue = <<>> /\ last = [op |-> "none", id |-> 0, ok |-> TRUE]

\* After every element that is not less urgent.
Insert(s, e) ==
  LET i == Cardinality({j \in DOMAIN s : s[j].priority <= e.priority})
  IN  SubSeq(s, 1, i) \o <<e>> \o SubSeq(s, i + 1, Len(s))

Did(op, x, ok) == last' = [op |-> op, id |-> x, ok |-> ok]

Holds(x) == \E i \in DOMAIN queue : queue[i].id = x

Push(x, p) ==
  /\ Did("Push", x, TRUE)
  /\ ~Holds(x)
  /\ queue' = Insert(queue, [id |-> x, priority |-> p])

Pop ==
  /\ queue # <<>>
  /\ Did("Pop", Head(queue).id, TRUE)
  /\ queue' = Tail(queue)

Remove(x) ==
  /\ Did("Remove", x, Holds(x))
  /\ queue' = SelectSeq(queue, LAMBDA e : e.id # x)

Next == \/ \E x \in Elements, p \in Priorities : Push(x, p)
        \/ Pop
        \/ \E x \in Elements : Remove(x)

Spec == Init /\ [][Next]_<<queue, last>>
=============================================================================
