------------------------------- MODULE PartiQL ------------------------------
(* aws/partiql: the Builder writes tokens and remembers whether the next one *)
(* needs a separator; the Encoder walks a Go value and drives it.  Text is   *)
(* abstract: a scalar is the token "v", a key the token "k".                 *)
EXTENDS Integers, Sequences

\* A Go value is a record: kind, parts (items, or the values of fields and entries) and
\* tags of fields.

-----------------------------------------------------------------------------
\* Builder.
NewBuilder == [out |-> <<>>, depth |-> 0, writeSep |-> FALSE, failed |-> FALSE]

writeSepIfNeeded(pb) ==
  IF pb.writeSep THEN [pb EXCEPT !.out = Append(@, ",")] ELSE [pb EXCEPT !.writeSep = TRUE]

Put(pb, token, writeSep) == [pb EXCEPT !.out = Append(@, token), !.writeSep = writeSep]

WriteBeginTuple(pb) == [Put(writeSepIfNeeded(pb), "{", FALSE) EXCEPT !.depth = @ + 1]
WriteEndTuple(pb)   == [Put(pb, "}", TRUE) EXCEPT !.depth = @ - 1]   \* panics at depth 0
WriteScalar(pb)     == Put(writeSepIfNeeded(pb), "v", TRUE)

\* Mutant: the value of a key gets a separator.
WriteKey_Separated(pb) == Put(writeSepIfNeeded(pb), "k", TRUE)

WriteKey(pb) == Put(writeSepIfNeeded(pb), "k", FALSE)

WriteBegin(pb, bag) == Put(writeSepIfNeeded(pb), IF bag THEN "<<" ELSE "[", FALSE)
WriteEnd(pb, bag)   == Put(pb, IF bag THEN ">>" ELSE "]", TRUE)

-----------------------------------------------------------------------------
\* Encoder.  A field's tag: ignore, squash, bag; a nil pointer is of kind "nil", a
\* channel or function "unsupported", a marshaler that fails "error".
NoTag == [ignore |-> FALSE, squash |-> FALSE, bag |-> FALSE]

isEmptyCollection(v) == v.kind = "slice" /\ v.parts = <<>>

RECURSIVE marshal(_, _, _)
RECURSIVE marshalFields(_, _, _)
RECURSIVE marshalItems(_, _, _)

\* The fields of a struct from the n-th on: nil, unsupported and ignored ones are left
\* out, and so are empty bags; a squashed field has no key.
marshalFields(pb, v, n) ==
  IF n > Len(v.parts) \/ pb.failed THEN pb
  ELSE LET f == v.parts[n]
           t == v.tags[n]
       IN  IF t.ignore \/ f.kind \in {"nil", "unsupported"} \/ (t.bag /\ isEmptyCollection(f))
           THEN marshalFields(pb, v, n + 1)
           ELSE marshalFields(marshal(IF t.squash THEN pb ELSE WriteKey(pb), f, t), v, n + 1)

\* The items of a slice or, with their keys, of a map.
marshalItems(pb, v, n) ==
  IF n > Len(v.parts) \/ pb.failed THEN pb
  ELSE marshalItems(marshal(IF v.kind = "map" THEN WriteKey(pb) ELSE pb, v.parts[n], NoTag), v, n + 1)

marshalStruct(pb, v, tag) ==
  IF tag.squash THEN marshalFields(pb, v, 1) ELSE WriteEndTuple(marshalFields(WriteBeginTuple(pb), v, 1))

marshalMap(pb, v) == WriteEndTuple(marshalItems(WriteBeginTuple(pb), v, 1))

marshalCollection(pb, v, tag) == WriteEnd(marshalItems(WriteBegin(pb, tag.bag), v, 1), tag.bag)

\* A nil that is not a field panics: the value behind it is invalid.
marshal(pb, v, tag) ==
  CASE v.kind \in {"error", "nil"} -> [pb EXCEPT !.failed = TRUE]
    [] v.kind = "unsupported" -> pb
    [] v.kind = "scalar" -> WriteScalar(pb)
    [] v.kind = "slice"  -> marshalCollection(pb, v, tag)
    [] v.kind = "map"    -> marshalMap(pb, v)
    [] v.kind = "struct" -> marshalStruct(pb, v, tag)

\* (e *Encoder) MarshalCollection; Marshal is the case without a bag.
Marshal(v, asBag) == marshal(NewBuilder, v, [NoTag EXCEPT !.bag = asBag])

-----------------------------------------------------------------------------
\* Reading the tokens back: what follows a value at place n, or 0 if there is none.
RECURSIVE AfterValue(_, _)
RECURSIVE AfterItems(_, _, _, _)

\* After the items up to the closing token, with a separator before all but the first.
AfterItems(s, n, close, first) ==
  IF n > Len(s) THEN 0
  ELSE IF s[n] = close THEN n + 1
  ELSE LET at == IF first THEN n ELSE IF s[n] = "," THEN n + 1 ELSE Len(s) + 1
           vt == IF close # "}" THEN at ELSE IF at <= Len(s) /\ s[at] = "k" THEN at + 1 ELSE Len(s) + 1
           m  == AfterValue(s, vt)
       IN  IF m = 0 THEN 0 ELSE AfterItems(s, m, close, FALSE)

AfterValue(s, n) ==
  IF n > Len(s) THEN 0
  ELSE CASE s[n] = "v"  -> n + 1
         [] s[n] = "["  -> AfterItems(s, n + 1, "]", TRUE)
         [] s[n] = "<<" -> AfterItems(s, n + 1, ">>", TRUE)
         [] s[n] = "{"  -> AfterItems(s, n + 1, "}", TRUE)
         [] OTHER -> 0

WellFormed(s) == AfterValue(s, 1) = Len(s) + 1
=============================================================================
