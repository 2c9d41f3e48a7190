------------------------------- MODULE Lease --------------------------------
(* What a distributed lock promises of its resource: it belongs to at most   *)
(* one owner, and passes to another only when the owner itself has given it  *)
(* up or its time has run out.                                               *)
EXTENDS Integers

CONSTANTS Procs, None, TTL

VARIABLES owner,   \* whom the resource belongs to
          left,    \* for how long; at most 0 when the time has run out
          leaving  \* who gives the resource up or has ended

Acquire(p) == (owner = None \/ left <= 0) /\ owner' = p /\ left' \in 1..TTL

Extend(p)  == owner = p /\ owner' = p /\ left' \in 1..TTL

Release(p) == owner = p /\ p \in leaving \cup leaving' /\ owner' \in {p, None} /\ left' <= 0

Elapse     == left' = left - 1 /\ (owner' = owner \/ (owner' = None /\ left' <= 0))

Leave      == UNCHANGED <<owner, left>>   \* whoever wants to

Init == owner = None /\ left <= 0

Next == leaving' \subseteq Procs /\ (Elapse \/ Leave \/ \E p \in Procs : Acquire(p) \/ Extend(p) \/ Release(p))

Spec == Init /\ [][Next]_<<owner, left, leaving>>
=============================================================================
