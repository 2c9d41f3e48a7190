------------------------------ MODULE ErrorTree -----------------------------
(* errors: searching a tree of wrapped errors by code, and the labels of the *)
(* stack traces of what an error wraps.  An error has a code, "plain" if it  *)
(* is not an Error of the framework, and what it wraps.                      *)
EXTENDS Integers, Sequences, SequencesExt

CONSTANT Codes

None == [code |-> "none", wraps |-> <<>>]

\* Errors with one level of wrapping less than n, n > 0, and at most two wrapped errors.
Trees[n \in Nat] ==
  [code : Codes \cup {"plain"}, wraps : IF n <= 1 THEN {<<>>} ELSE SeqOf(Trees[n - 1], 2)]

UnwrapMulti(err) == err.wraps

-----------------------------------------------------------------------------
RECURSIVE As(_)
RECURSIVE IsCode(_, _)
RECURSIVE AsCode(_, _, _)
RECURSIVE writeWrappedStacktrace(_, _)

FirstOf(results) ==
  LET hits == {i \in DOMAIN results : results[i] # None}
  IN  IF hits = {} THEN None ELSE results[CHOOSE i \in hits : \A j \in hits : i <= j]

\* The standard library's As: the first framework error of the tree, depth first.
As(err) == IF err.code # "plain" THEN err
           ELSE FirstOf([i \in DOMAIN err.wraps |-> As(err.wraps[i])])

IsCode(err, code) ==
  \/ As(err).code = code
  \/ \E i \in DOMAIN UnwrapMulti(err) : IsCode(UnwrapMulti(err)[i], code)

\* The result and what target holds afterwards: also a failed search assigns to it.
AsCode(err, target, code) ==
  LET t == IF As(err) = None THEN target ELSE As(err)
      Try(acc, e) == IF acc[1] THEN acc ELSE AsCode(e, acc[2], code)
  IN  IF As(err) # None /\ t.code = code THEN <<TRUE, t>>
      ELSE FoldLeft(Try, <<FALSE, t>>, UnwrapMulti(err))

\* The labels [1], [1.1], ... and the errors whose traces they head.
writeWrappedStacktrace(err, indent) ==
  FlattenSeq([i \in DOMAIN UnwrapMulti(err) |->
    <<[label |-> Append(indent, i), of |-> UnwrapMulti(err)[i]]>>
      \o writeWrappedStacktrace(UnwrapMulti(err)[i], Append(indent, i))])

-----------------------------------------------------------------------------
\* References: the tree as a list, depth first, and the error a label leads to.
RECURSIVE PreOrder(_)
PreOrder(err) == <<err>> \o FlattenSeq([i \in DOMAIN err.wraps |-> PreOrder(err.wraps[i])])

Follow(err, label) == FoldLeft(LAMBDA e, i : e.wraps[i], err, label)
=============================================================================
