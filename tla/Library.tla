------------------------------ MODULE Library -------------------------------
(* The parts of the framework that a program uses as a library, one at a     *)
(* time: "dynamodb", "tables", "config", "router", and "pure", functions     *)
(* that are called once with an input and checked against a reference.       *)
EXTENDS DynamoDB, Config, RouterMeta

CONSTANTS Codes, MaxLen   \* codes of errors; bound: length of a slice

VARIABLES use, call

PQL    == INSTANCE PartiQL
Errors == INSTANCE ErrorTree
Slice  == INSTANCE Slices

vars == <<use, dynamoVars, configVars, router, call>>

NoCall == [fn |-> "none", in |-> <<>>, out |-> <<>>]

NoLoad == [pc |-> "none"]

\* A part that is not in use has one state.
Init ==
  /\ use \in {"dynamodb", "tables", "config", "router", "pure"}
  /\ DynamoDBInit /\ (use # "tables" => Own \subseteq tables)
  /\ IF use = "config" THEN ConfigInit ELSE world = <<>> /\ conf = NoLoad
  /\ RouterInit /\ call = NoCall

-----------------------------------------------------------------------------
\* Go values for the encoder: two levels, and a third around one of them.
Leaf(kind) == [kind |-> kind, parts |-> <<>>, tags |-> <<>>]
Simple     == {Leaf(k) : k \in {"scalar", "nil", "unsupported", "error"}}
Tags       == {PQL!NoTag, [PQL!NoTag EXCEPT !.ignore = TRUE], [PQL!NoTag EXCEPT !.squash = TRUE],
               [PQL!NoTag EXCEPT !.bag = TRUE]}
UpTo2(S)   == {<<>>} \cup {<<x>> : x \in S} \cup (S \X S)

Around(Parts) ==
  {[kind |-> k, parts |-> ps, tags |-> <<>>] : k \in {"slice", "map"}, ps \in Parts}
  \cup UNION {{[kind |-> "struct", parts |-> ps, tags |-> ts] : ts \in [DOMAIN ps -> Tags]} : ps \in Parts}

Two    == Around(UpTo2(Simple))
Three  == Around({<<v, Leaf("scalar")>> : v \in Two})
Values == Simple \cup Two \cup Three

Result(fn, in, out) == call' = [fn |-> fn, in |-> in, out |-> out]

Marshal == \E v \in Values, asBag \in BOOLEAN : Result("marshal", v, PQL!Marshal(v, asBag))

SearchErrors ==
  \E err \in Errors!Trees[3], code \in Codes :
    Result("search", <<err, code>>, <<Errors!IsCode(err, code), Errors!AsCode(err, Errors!None, code)>>)

WriteStacktrace ==
  \E err \in Errors!Trees[3] : Result("stack", err, Errors!writeWrappedStacktrace(err, <<>>))

Loops ==
  \E s \in Slice!Slice(MaxLen) :
    Result("loops", s, [filter |-> Slice!FilterI(s), map |-> Slice!MapIE(s), flatMap |-> Slice!FlatMapIE(s),
                        find |-> Slice!FindMapIE(s), findLast |-> Slice!FindLastMapIE(s)])

PureNext == call.fn = "none" /\ (Marshal \/ SearchErrors \/ WriteStacktrace \/ Loops)

Next ==
  /\ UNCHANGED use
  /\ \/ use = "dynamodb" /\ StatementNext /\ UNCHANGED <<configVars, router, call>>
     \/ use = "tables" /\ TableNext /\ UNCHANGED <<configVars, router, call>>
     \/ use = "config" /\ ConfigNext /\ UNCHANGED <<dynamoVars, router, call>>
     \/ use = "router" /\ RouterNext /\ UNCHANGED <<dynamoVars, configVars, call>>
     \/ use = "pure" /\ PureNext /\ UNCHANGED <<dynamoVars, configVars, router>>

\* The search for a file goes on.
Finds == use = "config" /\ Finder /\ UNCHANGED <<use, dynamoVars, router, call>>

Spec == Init /\ [][Next]_vars /\ WF_vars(Finds)

-----------------------------------------------------------------------------
\* What the encoder can write: nothing nil or unsupported but a field, and only structs
\* are squashed.
RECURSIVE Encodable(_)
Encodable(v) ==
  CASE v.kind \in {"nil", "unsupported"} -> FALSE
    [] v.kind = "struct" ->
         \A i \in DOMAIN v.parts : \/ v.tags[i].ignore
                                   \/ v.parts[i].kind \in {"nil", "unsupported"}
                                   \/ Encodable(v.parts[i]) /\ (v.tags[i].squash => v.parts[i].kind = "struct")
    [] OTHER -> \A i \in DOMAIN v.parts : Encodable(v.parts[i])

\* The scalars that are not left out, and whether one of the marshalers fails.
RECURSIVE Written(_, _)
Written(v, kind) ==
  IF v.kind = kind THEN 1
  ELSE LET kept == {i \in DOMAIN v.parts : v.kind = "struct" => ~v.tags[i].ignore}
       IN  FoldSet(LAMBDA i, n : n + Written(v.parts[i], kind), 0, kept)

\* The encoder turns a value it can write into one PartiQL value, with every separator,
\* key and bracket in place and every scalar written, or returns the error of a
\* marshaler: whatever is left out, squashed or empty (Builder.writeSep, marshalStruct).
EncodesOneValue ==
  call.fn = "marshal" /\ Encodable(call.in) =>
    IF Written(call.in, "error") > 0 THEN call.out.failed
    ELSE /\ ~call.out.failed /\ PQL!WellFormed(call.out.out)
         /\ Len(SelectSeq(call.out.out, LAMBDA t : t = "v")) = Written(call.in, "scalar")

\* IsCode finds a code wherever in the tree it is, AsCode the first error with it, depth
\* first, although As alone stops at the first framework error.
CodeIsFound ==
  call.fn = "search" =>
    LET hits == SelectSeq(Errors!PreOrder(call.in[1]), LAMBDA e : e.code = call.in[2])
    IN  /\ call.out[1] <=> hits # <<>>
        /\ call.out[2][1] <=> hits # <<>>
        /\ hits # <<>> => call.out[2][2] = hits[1]

\* The label of every wrapped trace leads to the error it is the trace of, and no two
\* have the same (writeWrappedStacktrace passes the label of the parent down).
LabelsLeadToErrors ==
  call.fn = "stack" =>
    /\ Len(call.out) = Len(Errors!PreOrder(call.in)) - 1
    /\ \A i \in DOMAIN call.out :
         /\ Errors!Follow(call.in, call.out[i].label) = call.out[i].of
         /\ \A j \in DOMAIN call.out : call.out[i].label = call.out[j].label => i = j

\* Filter, Map and FlatMap keep the order, the latter two give nothing on an error; the searches find
\* the first and the last hit that no error comes before, where the last one is not
\* looked for at index 0.
LoopsMeetReference ==
  call.fn = "loops" =>
    LET s     == call.in
        all   == [i \in DOMAIN s |-> i - 1]
        hits  == {i \in DOMAIN s : s[i] = "hit"}
        stops == {i \in DOMAIN s : s[i] # "miss"}
        First(S) == CHOOSE i \in S : \A j \in S : i <= j
        Last(S)  == CHOOSE i \in S : \A j \in S : i >= j
        Answer(S, i) == IF S = {} THEN -1 ELSE IF s[i] = "err" THEN -2 ELSE i - 1
    IN  /\ call.out.filter = SelectSeq(all, LAMBDA i : i + 1 \in hits)
        /\ IF \E i \in DOMAIN s : s[i] = "err"
           THEN \A f \in {"map", "flatMap"} : call.out[f] = [err |-> TRUE, out |-> <<>>]
           ELSE /\ call.out.map.out = all
                /\ Len(call.out.flatMap.out) = 2 * Cardinality(hits)
        /\ call.out.find = Answer(stops, First(stops))
        /\ call.out.findLast = Answer(stops \ {1}, Last(stops \ {1}))

\* Every call of the encoder, the error tree and the slices' loops answers as its reference
\* definition above says.
CallsMeetReference ==
  EncodesOneValue /\ CodeIsFound /\ LabelsLeadToErrors /\ LoopsMeetReference

\* The search for a file ends, with it or without, if some directory on the way up has
\* the file or a go.mod.
FinderEnds == (use = "config" /\ conf.pc = "find" /\ Bounded) ~> (conf.pc # "find")
=============================================================================
