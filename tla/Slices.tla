------------------------------- MODULE Slices -------------------------------
(* functional/slices: the loops over a slice.  An element is what the given  *)
(* function answers for it: "hit", "miss" or "err"; without an error result  *)
(* a function is one that never answers "err".  Results name elements by     *)
(* their index, from 0 as in the code.                                       *)
EXTENDS Integers, Sequences, SequencesExt

Slice(n) == SeqOf({"hit", "miss", "err"}, n)

Indices(s) == [i \in DOMAIN s |-> i - 1]

\* A loop that appends the part of each element and leaves at the first error.
Loop(s, part) ==
  LET Step(acc, i) == IF acc.err THEN acc
                      ELSE IF s[i + 1] = "err" THEN [err |-> TRUE, out |-> <<>>]
                      ELSE [acc EXCEPT !.out = @ \o part[i + 1]]
  IN  FoldLeft(Step, [err |-> FALSE, out |-> <<>>], Indices(s))

\* The predicate has no error to return.
FilterI(s)   == FoldLeft(LAMBDA out, i : IF s[i + 1] = "hit" THEN Append(out, i) ELSE out, <<>>, Indices(s))
MapIE(s)     == Loop(s, [i \in DOMAIN s |-> <<i - 1>>])
FlatMapIE(s) == Loop(s, [i \in DOMAIN s |-> IF s[i] = "hit" THEN <<i - 1, i - 1>> ELSE <<>>])

\* The searches, as long as the index is in range: the index found, -1 for none, -2 for
\* an error.
Search(s, from, step, range) ==
  LET F[i \in -1 .. Len(s)] ==
        IF i \notin range THEN -1
        ELSE CASE s[i + 1] = "err" -> -2
               [] s[i + 1] = "hit" -> i
               [] OTHER            -> F[i + step]
  IN  F[from]

FindMapIE(s) == Search(s, 0, 1, 0 .. Len(s) - 1)

FindLastMapIE(s) == Search(s, Len(s) - 1, -1, 1 .. Len(s) - 1)   \* index 0 is not looked at
=============================================================================
