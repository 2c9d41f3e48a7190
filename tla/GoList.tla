------------------------------- MODULE GoList -------------------------------
(* The doubly linked list of Go's container/list, as DefaultExecutor uses    *)
(* it for the tasks that are ready to run (external: standard library).      *)
(*                                                                           *)
(* The pointers are kept because the executor keeps list elements inside its *)
(* tasks and Init() only re-points the sentinel: an element that was in the  *)
(* list before Init() still believes it belongs to it, and removing it later *)
(* rewrites pointers of the new list.  A sequence could not show that.       *)
(*                                                                           *)
(* An element is named by the task it holds, a positive integer.  A list is  *)
(* a record of the next and prev pointers and the len field.                 *)
EXTENDS Integers

Root == 0       \* the sentinel &l.root
Nil  == -1      \* a nil pointer

ListNew(S) ==
  LET ptr == [x \in S \cup {Root} |-> IF x = Root THEN Root ELSE Nil]
  IN  [next |-> ptr, prev |-> ptr, len |-> 0]

\* e.list == l: set by an insertion, cleared (with the pointers) by Remove.
ListOwns(l, x) == l.next[x] # Nil /\ l.prev[x] # Nil

ListFront(l) == IF l.len = 0 THEN Nil ELSE l.next[Root]

\* insert(e, at) with at = root.prev.
ListPushBack(l, x) ==
  LET at == l.prev[Root]
      nx == l.next[at]
  IN  [next |-> [l.next EXCEPT ![x] = nx, ![at] = x],
       prev |-> [l.prev EXCEPT ![x] = at, ![nx] = x],
       len  |-> l.len + 1]

\* The sentinel does not own itself: Remove(root) changes nothing.
ListRemove(l, x) ==
  IF x = Root \/ ~ListOwns(l, x) THEN l
  ELSE LET p == l.prev[x]
           n == l.next[x]
       IN  [next |-> [l.next EXCEPT ![p] = n, ![x] = Nil],
            prev |-> [l.prev EXCEPT ![n] = p, ![x] = Nil],
            len  |-> l.len - 1]

ListInit(l) ==
  [l EXCEPT !.next[Root] = Root, !.prev[Root] = Root, !.len = 0]

\* The elements that the loop "for x := Front(); x != nil; x = x.Next()" visits:
\* the least set with the front element that is closed under Next.
ListElements(l) ==
  LET elems  == DOMAIN l.next \ {Root}
      closed(S) == \A x \in S : l.next[x] \in S \cup {Root, Nil}
  IN  {x \in elems : /\ l.len # 0
                     /\ \A S \in SUBSET elems :
                          (l.next[Root] \in S \cup {Root} /\ closed(S)) => x \in S}
=============================================================================
