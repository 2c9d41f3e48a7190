--------------------------- MODULE LibraryProofs ----------------------------
(* What holds of the library components for every number of goroutines, keys,*)
(* tables, leaves, directories, groups and routes: the DynamoDB builders and *)
(* table loops, the loading of the configuration, and the router's metadata. *)
EXTENDS DynamoDB, Config, RouterMeta, FiniteSetTheorems, WellFoundedInduction, TLAPS

-----------------------------------------------------------------------------
\* DynamoDB.  A builder holds a statement of kind op on k that may still take effect or
\* will be told to have had none, or one that took effect and is not told yet.
Pending(b, op, k) ==
  b.op = op /\ k \in b.keys /\ (b.pc = "sent" \/ (b.pc = "answered" /\ b.answer \in {"refused", "invalid"}))

Applied(b, op, k) ==
  b.op = op /\ k \in b.keys /\ b.pc = "answered" /\ b.answer = "none"

Pendings(f, op, k) == {p \in Procs : Pending(f[p], op, k)}
Applieds(f, op, k) == {p \in Procs : Applied(f[p], op, k)}

Ops     == Writes \cup {"get", "query", "create", "deleteAll", "none"}
Stages  == {"idle", "built", "sent", "answered", "tables", "told"}
Answers == {"none", "refused", "invalid", "lost"}
ErrorKinds  == {"none", "badArgument", "conflict", "notFound", "unknown"}

Builders ==
  [op : Ops, keys : SUBSET Keys, err : ErrorKinds, pc : Stages, set : BOOLEAN, answer : Answers,
   slice : SUBSET Keys, scan : BOOLEAN, sends : Nat, done : Nat, oks : Nat,
   listed : SUBSET (Own \cup Prefixed), did : SUBSET (Own \cup Prefixed), todo : SUBSET (Own \cup Prefixed),
   calls : Nat]

Ledgers == [insertOk : Int, insertOpen : Int, deleteOk : Int, deleteOpen : Int]

DynamoDBType ==
  /\ c \in [Procs -> Builders] /\ ledger \in [Keys -> Ledgers]

\* An insert and a delete name one key.
OneKey(b) == b.op \in {"insert", "delete"} => \E k \in Keys : b.keys = {k}

\* ToldAddsUp with what the goroutines f have under way: every statement that may still
\* take effect is open in the ledger, and so is what took effect and is not told.
Balanced(there, l, f, k) ==
  /\ there + l.deleteOk + Cardinality(Applieds(f, "delete", k)) + Cardinality(Pendings(f, "insert", k))
       <= l.insertOk + l.insertOpen
  /\ l.insertOk + Cardinality(Applieds(f, "insert", k)) + Cardinality(Pendings(f, "delete", k))
       <= there + l.deleteOk + l.deleteOpen

There(its, k) == IF k \in its THEN 1 ELSE 0

Balance(k) == Balanced(There(items, k), ledger[k], c, k)

\* A builder that may send, is sending, or whose statement was refused, has told all it did.
Ready(b) ==
  \/ b.pc = "built" /\ b.err = "none"
  \/ b.pc = "sent"
  \/ b.pc = "answered" /\ b.answer = "refused"

Known(b) ==
  b.op \in Writes => b.done <= b.oks + 1 /\ (Ready(b) => b.done <= b.oks)

\* The loop over tables has an error exactly if a table it went through was not changed.
Looping(b) ==
  /\ b.pc \in {"tables", "told"} =>
       /\ b.todo \subseteq b.listed /\ b.did \subseteq b.listed /\ b.did \cap b.todo = {}
       /\ (b.err = "none") <=> (b.did \cup b.todo = b.listed)
  /\ b.pc = "told" => b.todo = {}

BuilderInv(b) == OneKey(b) /\ Known(b) /\ Looping(b)

DInv ==
  /\ DynamoDBType
  /\ \A p \in Procs : BuilderInv(c[p])
  /\ \A k \in Keys : Balance(k)
  /\ Foreign \subseteq tables

\* What a step of one goroutine does to the number of statements under way.
LEMMA PendingsMove ==
  ASSUME NEW f \in [Procs -> Builders], NEW p \in Procs, NEW b \in Builders, NEW op \in Ops, NEW k \in Keys
  PROVE  LET g == [f EXCEPT ![p] = b]
         IN  /\ Cardinality(Pendings(f, op, k)) \in Nat
             /\ Cardinality(Pendings(g, op, k)) =
                  Cardinality(Pendings(f, op, k)) - (IF Pending(f[p], op, k) THEN 1 ELSE 0)
                                              + (IF Pending(b, op, k) THEN 1 ELSE 0)
<1> DEFINE g == [f EXCEPT ![p] = b]
           S == Pendings(f, op, k)
           T == Pendings(g, op, k)
<1>1. IsFiniteSet(S) /\ Cardinality(S) \in Nat
  BY DynamoDBAssumption, FS_Subset, FS_CardinalityType DEF Pendings
<1>2. p \in S <=> Pending(f[p], op, k)
  BY DEF Pendings
<1>3. \A q \in Procs : g[q] = IF q = p THEN b ELSE f[q]
  OBVIOUS
<1>4. CASE Pending(b, op, k)
  <2>1. T = S \cup {p}
    BY <1>3, <1>4 DEF Pendings
  <2> HIDE DEF S, T
  <2>2. Cardinality(S \cup {p}) = IF p \in S THEN Cardinality(S) ELSE Cardinality(S) + 1
    BY <1>1, FS_AddElement
  <2>3. Cardinality(T) = Cardinality(S) - (IF Pending(f[p], op, k) THEN 1 ELSE 0)
                                        + (IF Pending(b, op, k) THEN 1 ELSE 0)
    BY <1>1, <1>2, <1>4, <2>1, <2>2
  <2> QED
    BY <1>1, <2>3 DEF S, T
<1>5. CASE ~Pending(b, op, k)
  <2>1. T = S \ {p}
    BY <1>3, <1>5 DEF Pendings
  <2> HIDE DEF S, T
  <2>2. Cardinality(S \ {p}) = IF p \in S THEN Cardinality(S) - 1 ELSE Cardinality(S)
    BY <1>1, FS_RemoveElement
  <2>3. Cardinality(T) = Cardinality(S) - (IF Pending(f[p], op, k) THEN 1 ELSE 0)
                                        + (IF Pending(b, op, k) THEN 1 ELSE 0)
    BY <1>1, <1>2, <1>5, <2>1, <2>2
  <2> QED
    BY <1>1, <2>3 DEF S, T
<1> QED
  BY <1>4, <1>5

\* The same for the statements that took effect and are not told yet.
LEMMA AppliedsMove ==
  ASSUME NEW f \in [Procs -> Builders], NEW p \in Procs, NEW b \in Builders, NEW op \in Ops, NEW k \in Keys
  PROVE  LET g == [f EXCEPT ![p] = b]
         IN  /\ Cardinality(Applieds(f, op, k)) \in Nat
             /\ Cardinality(Applieds(g, op, k)) =
                  Cardinality(Applieds(f, op, k)) - (IF Applied(f[p], op, k) THEN 1 ELSE 0)
                                              + (IF Applied(b, op, k) THEN 1 ELSE 0)
<1> DEFINE g == [f EXCEPT ![p] = b]
           S == Applieds(f, op, k)
           T == Applieds(g, op, k)
<1>1. IsFiniteSet(S) /\ Cardinality(S) \in Nat
  BY DynamoDBAssumption, FS_Subset, FS_CardinalityType DEF Applieds
<1>2. p \in S <=> Applied(f[p], op, k)
  BY DEF Applieds
<1>3. \A q \in Procs : g[q] = IF q = p THEN b ELSE f[q]
  OBVIOUS
<1>4. CASE Applied(b, op, k)
  <2>1. T = S \cup {p}
    BY <1>3, <1>4 DEF Applieds
  <2> HIDE DEF S, T
  <2>2. Cardinality(S \cup {p}) = IF p \in S THEN Cardinality(S) ELSE Cardinality(S) + 1
    BY <1>1, FS_AddElement
  <2>3. Cardinality(T) = Cardinality(S) - (IF Applied(f[p], op, k) THEN 1 ELSE 0)
                                        + (IF Applied(b, op, k) THEN 1 ELSE 0)
    BY <1>1, <1>2, <1>4, <2>1, <2>2
  <2> QED
    BY <1>1, <2>3 DEF S, T
<1>5. CASE ~Applied(b, op, k)
  <2>1. T = S \ {p}
    BY <1>3, <1>5 DEF Applieds
  <2> HIDE DEF S, T
  <2>2. Cardinality(S \ {p}) = IF p \in S THEN Cardinality(S) - 1 ELSE Cardinality(S)
    BY <1>1, FS_RemoveElement
  <2>3. Cardinality(T) = Cardinality(S) - (IF Applied(f[p], op, k) THEN 1 ELSE 0)
                                        + (IF Applied(b, op, k) THEN 1 ELSE 0)
    BY <1>1, <1>2, <1>5, <2>1, <2>2
  <2> QED
    BY <1>1, <2>3 DEF S, T
<1> QED
  BY <1>4, <1>5

\* A step of one goroutine keeps the invariant of every builder if it keeps its own.
LEMMA BuildersMove ==
  ASSUME DInv, NEW p \in Procs, NEW b \in Builders, Becomes(p, b), BuilderInv(b)
  PROVE  /\ c' \in [Procs -> Builders]
         /\ (\A q \in Procs : BuilderInv(c[q]))'
<1>1. c \in [Procs -> Builders] /\ c' = [c EXCEPT ![p] = b]
  BY DEF DInv, DynamoDBType, Becomes
<1>2. \A q \in Procs : c'[q] = IF q = p THEN b ELSE c[q]
  BY <1>1
<1>3. ASSUME NEW q \in Procs PROVE BuilderInv(c'[q])
  BY <1>2 DEF DInv
<1>4. c' \in [Procs -> Builders]
  BY <1>1
<1> QED
  BY <1>3, <1>4

\* The balance of a key after a step, from what the step adds on either side.
Count(P) == IF P THEN 1 ELSE 0

Keeps(there, l, a, new, newl, b, k) ==
  /\ new + newl.deleteOk + Count(Applied(b, "delete", k)) + Count(Pending(b, "insert", k))
       + l.insertOk + l.insertOpen
     <= there + l.deleteOk + Count(Applied(a, "delete", k)) + Count(Pending(a, "insert", k))
          + newl.insertOk + newl.insertOpen
  /\ newl.insertOk + Count(Applied(b, "insert", k)) + Count(Pending(b, "delete", k))
       + there + l.deleteOk + l.deleteOpen
     <= l.insertOk + Count(Applied(a, "insert", k)) + Count(Pending(a, "delete", k))
          + new + newl.deleteOk + newl.deleteOpen

\* A step of one goroutine that adds no less to the ledger than it takes.
LEMMA BalanceMoves ==
  ASSUME NEW f \in [Procs -> Builders], NEW p \in Procs, NEW b \in Builders, NEW k \in Keys,
         NEW there \in Int, NEW new \in Int, NEW l \in Ledgers, NEW newl \in Ledgers,
         Balanced(there, l, f, k), Keeps(there, l, f[p], new, newl, b, k)
  PROVE  Balanced(new, newl, [f EXCEPT ![p] = b], k)
<1> DEFINE g  == [f EXCEPT ![p] = b]
           pi == Cardinality(Pendings(f, "insert", k))
           pd == Cardinality(Pendings(f, "delete", k))
           ai == Cardinality(Applieds(f, "insert", k))
           ad == Cardinality(Applieds(f, "delete", k))
           qi == Cardinality(Pendings(g, "insert", k))
           qd == Cardinality(Pendings(g, "delete", k))
           bi == Cardinality(Applieds(g, "insert", k))
           bd == Cardinality(Applieds(g, "delete", k))
<1>1. "insert" \in Ops /\ "delete" \in Ops
  BY DEF Ops, Writes
<1>2. /\ pi \in Nat /\ qi = pi - Count(Pending(f[p], "insert", k)) + Count(Pending(b, "insert", k))
      /\ pd \in Nat /\ qd = pd - Count(Pending(f[p], "delete", k)) + Count(Pending(b, "delete", k))
  <2>1. pi \in Nat /\ qi = pi - Count(Pending(f[p], "insert", k)) + Count(Pending(b, "insert", k))
    BY <1>1, PendingsMove DEF Count
  <2>2. pd \in Nat /\ qd = pd - Count(Pending(f[p], "delete", k)) + Count(Pending(b, "delete", k))
    BY <1>1, PendingsMove DEF Count
  <2> QED
    BY <2>1, <2>2
<1>3. /\ ai \in Nat /\ bi = ai - Count(Applied(f[p], "insert", k)) + Count(Applied(b, "insert", k))
      /\ ad \in Nat /\ bd = ad - Count(Applied(f[p], "delete", k)) + Count(Applied(b, "delete", k))
  <2>1. ai \in Nat /\ bi = ai - Count(Applied(f[p], "insert", k)) + Count(Applied(b, "insert", k))
    BY <1>1, AppliedsMove DEF Count
  <2>2. ad \in Nat /\ bd = ad - Count(Applied(f[p], "delete", k)) + Count(Applied(b, "delete", k))
    BY <1>1, AppliedsMove DEF Count
  <2> QED
    BY <2>1, <2>2
<1>4. /\ there + l.deleteOk + ad + pi <= l.insertOk + l.insertOpen
      /\ l.insertOk + ai + pd <= there + l.deleteOk + l.deleteOpen
  BY DEF Balanced
<1> HIDE DEF g, pi, pd, ai, ad, qi, qd, bi, bd
<1>5. \A x \in {f[p], b}, op \in {"insert", "delete"} : Count(Pending(x, op, k)) \in Int /\ Count(Applied(x, op, k)) \in Int
  BY DEF Count
<1>6. /\ l.insertOk \in Int /\ l.insertOpen \in Int /\ l.deleteOk \in Int /\ l.deleteOpen \in Int
      /\ newl.insertOk \in Int /\ newl.insertOpen \in Int /\ newl.deleteOk \in Int /\ newl.deleteOpen \in Int
  BY DEF Ledgers
<1>7. new + newl.deleteOk + bd + qi <= newl.insertOk + newl.insertOpen
  BY <1>2, <1>3, <1>4, <1>5, <1>6 DEF Keeps
<1>8. newl.insertOk + bi + qd <= new + newl.deleteOk + newl.deleteOpen
  BY <1>2, <1>3, <1>4, <1>5, <1>6 DEF Keeps
<1> QED
  BY <1>7, <1>8 DEF Balanced, g, qi, qd, bi, bd

\* A step of one goroutine keeps the balance of every key if it does so one at a time.
LEMMA StepBalance ==
  ASSUME DInv, NEW p \in Procs, NEW b \in Builders, Becomes(p, b), ledger' \in [Keys -> Ledgers],
         \A k \in Keys : Keeps(There(items, k), ledger[k], c[p], There(items', k), ledger'[k], b, k)
  PROVE  (\A k \in Keys : Balance(k))'
<1>1. c \in [Procs -> Builders] /\ ledger \in [Keys -> Ledgers] /\ c' = [c EXCEPT ![p] = b]
  BY DEF DInv, DynamoDBType, Becomes
<1> SUFFICES ASSUME NEW k \in Keys PROVE Balanced(There(items', k), ledger'[k], c', k)
  BY DEF Balance
<1>2. There(items, k) \in Int /\ There(items', k) \in Int
  BY DEF There
<1>3. Balanced(There(items, k), ledger[k], c, k)
  BY DEF DInv, Balance
<1> QED
  BY <1>1, <1>2, <1>3, BalanceMoves

\* A builder with no statement under way, or with one whose answer is lost.
Silent(b) == b.pc \notin {"sent", "answered"} \/ (b.pc = "answered" /\ b.answer = "lost")

\* Such a builder counts for nothing: what is under way only gets less.
LEMMA SilentBalance ==
  ASSUME DInv, NEW p \in Procs, NEW b \in Builders, Becomes(p, b), Silent(b), UNCHANGED <<items, ledger>>
  PROVE  (\A k \in Keys : Balance(k))'
<1>1. ledger \in [Keys -> Ledgers]
  BY DEF DInv, DynamoDBType
<1>2. ASSUME NEW k \in Keys
      PROVE  Keeps(There(items, k), ledger[k], c[p], There(items', k), ledger'[k], b, k)
  <2>1. \A op \in {"insert", "delete"} : ~Pending(b, op, k) /\ ~Applied(b, op, k)
    BY DEF Silent, Pending, Applied
  <2> QED
    BY <1>1, <2>1 DEF Keeps, Count, There, Ledgers
<1> QED
  BY <1>1, <1>2, StepBalance

\* A step that sends nothing and is answered nothing.
LEMMA QuietStep ==
  ASSUME DInv, NEW p \in Procs, NEW b \in Builders, Becomes(p, b), BuilderInv(b), Silent(b),
         UNCHANGED <<items, ledger>>, Foreign \subseteq tables'
  PROVE  DInv'
BY SilentBalance, BuildersMove DEF DInv, DynamoDBType

\* A new builder is well formed, has done nothing and sent nothing.
LEMMA NewBuilder ==
  ASSUME DynamoDBType, NEW p \in Procs, NEW op \in Ops, NEW keys \in SUBSET Keys
  PROVE  LET n == New(p, op, keys)
         IN  n \in Builders /\ n.op = op /\ n.keys = keys /\ n.pc = "built" /\ n.err = "none"
             /\ n.done = 0 /\ n.oks = 0 /\ n.did = {}
<1> DEFINE n == c[p].calls + 1
<1>1. n \in Nat
  BY DEF DynamoDBType, Builders
<1> HIDE DEF n
<1>2. {} \in SUBSET Keys /\ {} \in SUBSET (Own \cup Prefixed) /\ 0 \in Nat
  OBVIOUS
<1>3. Builder(op, keys, n) \in Builders
  BY <1>1, <1>2 DEF Builder, Builders, Ops, Stages, Answers, ErrorKinds, Writes
<1>4. LET b == Builder(op, keys, n)
      IN  b.op = op /\ b.keys = keys /\ b.pc = "built" /\ b.err = "none" /\ b.done = 0 /\ b.oks = 0 /\ b.did = {}
  BY DEF Builder
<1> QED
  BY <1>3, <1>4 DEF New, n

\* A goroutine that starts with a new builder keeps the invariant.
LEMMA Starts ==
  ASSUME DInv, NEW p \in Procs, NEW b \in Builders, Becomes(p, b), UNCHANGED <<items, tables, ledger>>,
         b.pc = "built", b.done = 0, b.oks = 0, OneKey(b)
  PROVE  DInv'
<1>1. BuilderInv(b) /\ Silent(b)
  BY DEF BuilderInv, Known, Looping, Silent
<1> QED
  BY <1>1, QuietStep DEF DInv

\* Insert, Update, Delete and Get make a builder for one key, Query one for several.
LEMMA CallStep ==
  ASSUME DInv, NEW p \in Procs
  PROVE  /\ \A k \in Keys, hashed, range \in BOOLEAN : Insert(p, k, hashed, range) => DInv'
         /\ \A k \in Keys, keyed, range \in BOOLEAN : Update(p, k, keyed, range) => DInv'
         /\ \A k \in Keys : Delete(p, k) \/ Get(p, k) => DInv'
         /\ \A model \in {Ranged, Keys \ Ranged}, slice \in SUBSET Keys, allowScan \in BOOLEAN :
              Query(p, model, slice, allowScan) => DInv'
<1>0. DynamoDBType /\ Ranged \subseteq Keys
  BY DynamoDBAssumption DEF DInv
<1>1. ASSUME NEW k \in Keys, NEW op \in {"insert", "update", "delete", "get"}, NEW err \in ErrorKinds,
             Becomes(p, [New(p, op, {k}) EXCEPT !.err = err]), UNCHANGED <<items, tables, ledger>>
      PROVE  DInv'
  <2> DEFINE n == New(p, op, {k})
             b == [n EXCEPT !.err = err]
  <2>1. n \in Builders /\ n.keys = {k} /\ n.pc = "built" /\ n.done = 0 /\ n.oks = 0
    BY <1>0, NewBuilder DEF Ops, Writes
  <2> HIDE DEF n
  <2>2. b \in Builders /\ b.keys = {k} /\ b.pc = "built" /\ b.done = 0 /\ b.oks = 0
    BY <2>1 DEF Builders
  <2>3. Becomes(p, b)
    BY <1>1 DEF n
  <2> HIDE DEF b
  <2> QED
    BY <1>1, <2>2, <2>3, Starts DEF OneKey
<1>2. ASSUME NEW k \in Keys, NEW op \in {"delete", "get"},
             Becomes(p, New(p, op, {k})), UNCHANGED <<items, tables, ledger>>
      PROVE  DInv'
  <2> DEFINE n == New(p, op, {k})
  <2>1. n \in Builders /\ n.keys = {k} /\ n.pc = "built" /\ n.done = 0 /\ n.oks = 0
    BY <1>0, NewBuilder DEF Ops, Writes
  <2>2. Becomes(p, n)
    BY <1>2
  <2> HIDE DEF n
  <2> QED
    BY <1>2, <2>1, <2>2, Starts DEF OneKey
<1>3. ASSUME NEW k \in Keys, NEW hashed \in BOOLEAN, NEW range \in BOOLEAN, Insert(p, k, hashed, range)
      PROVE  DInv'
  <2>1. PICK err \in ErrorKinds : err = IF ~hashed /\ k \in Ranged /\ ~range THEN "badArgument" ELSE "none"
    BY DEF ErrorKinds
  <2> QED
    BY <1>1, <1>3, <2>1 DEF Insert
<1>4. ASSUME NEW k \in Keys, NEW keyed \in BOOLEAN, NEW range \in BOOLEAN, Update(p, k, keyed, range)
      PROVE  DInv'
  <2>1. PICK err \in ErrorKinds : err = IF ~keyed \/ (k \in Ranged /\ ~range) THEN "badArgument" ELSE "none"
    BY DEF ErrorKinds
  <2> QED
    BY <1>1, <1>4, <2>1 DEF Update
<1>5. ASSUME NEW k \in Keys, Delete(p, k) \/ Get(p, k) PROVE DInv'
  BY <1>2, <1>5 DEF Delete, Get
<1>6. ASSUME NEW model \in {Ranged, Keys \ Ranged}, NEW slice \in SUBSET Keys, NEW allowScan \in BOOLEAN,
             Query(p, model, slice, allowScan)
      PROVE  DInv'
  <2>1. PICK keys \in SUBSET Keys : keys = IF slice = {} THEN model ELSE slice
    BY <1>0
  <2> DEFINE n == New(p, "query", keys)
             b == [n EXCEPT !.slice = slice, !.scan = allowScan]
  <2>2. n \in Builders /\ n.op = "query" /\ n.pc = "built" /\ n.done = 0 /\ n.oks = 0
    BY <1>0, NewBuilder DEF Ops
  <2>3. Becomes(p, b) /\ UNCHANGED <<items, tables, ledger>>
    BY <1>6, <2>1 DEF Query
  <2> HIDE DEF n
  <2>4. b \in Builders /\ b.op = "query" /\ b.pc = "built" /\ b.done = 0 /\ b.oks = 0
    BY <2>2 DEF Builders
  <2> HIDE DEF b
  <2> QED
    BY <2>3, <2>4, Starts DEF OneKey
<1> QED
  BY <1>3, <1>4, <1>5, <1>6

\* Set changes a builder that has sent nothing.
LEMMA SetStep ==
  ASSUME DInv, NEW p \in Procs, Set(p)
  PROVE  DInv'
<1> DEFINE a == c[p]
<1>1. a \in Builders /\ BuilderInv(a) /\ a.pc = "built" /\ UNCHANGED <<items, tables, ledger>>
  BY DEF DInv, DynamoDBType, Set
<1>2. PICK b : Becomes(p, b) /\ b = IF a.set THEN [a EXCEPT !.err = "badArgument"] ELSE [a EXCEPT !.set = TRUE]
  BY DEF Set
<1> HIDE DEF a
<1>3. /\ b \in Builders /\ b.op = a.op /\ b.keys = a.keys /\ b.pc = "built" /\ b.done = a.done /\ b.oks = a.oks
      /\ b.err = "none" => a.err = "none"
  BY <1>1, <1>2 DEF Builders, ErrorKinds
<1>4. BuilderInv(b) /\ Silent(b)
  BY <1>1, <1>3 DEF BuilderInv, OneKey, Known, Ready, Looping, Silent
<1> QED
  BY <1>1, <1>2, <1>3, <1>4, QuietStep DEF DInv

\* A builder that is dropped leaves nothing behind.
LEMMA DropStep ==
  ASSUME DInv, NEW p \in Procs, Drop(p)
  PROVE  DInv'
<1> DEFINE b == [Idle EXCEPT !.calls = c[p].calls]
<1>1. c[p].calls \in Nat /\ UNCHANGED <<items, tables, ledger>> /\ Becomes(p, b)
  BY DEF DInv, DynamoDBType, Builders, Drop
<1>2. {} \in SUBSET Keys /\ {} \in SUBSET (Own \cup Prefixed) /\ 0 \in Nat
  OBVIOUS
<1>3. b \in Builders /\ b.op = "none" /\ b.pc = "idle"
  BY <1>1, <1>2 DEF Idle, Builder, Builders, Ops, Stages, Answers, ErrorKinds, Writes
<1> HIDE DEF b
<1>4. BuilderInv(b) /\ Silent(b)
  BY <1>3 DEF BuilderInv, OneKey, Known, Looping, Silent, Writes
<1> QED
  BY <1>1, <1>3, <1>4, QuietStep DEF DInv

\* A statement that never arrived is answered with an error that tells nothing.
LEMMA UnservedStep ==
  ASSUME DInv, NEW p \in Procs, Unserved(p)
  PROVE  DInv'
<1> DEFINE a == c[p]
           b == [a EXCEPT !.pc = "answered", !.answer = "lost"]
<1>1. a \in Builders /\ BuilderInv(a) /\ Becomes(p, b) /\ UNCHANGED <<items, tables, ledger>>
  BY DEF DInv, DynamoDBType, Unserved
<1> HIDE DEF a
<1>2. /\ b \in Builders /\ b.op = a.op /\ b.keys = a.keys /\ b.pc = "answered" /\ b.answer = "lost"
      /\ b.done = a.done /\ b.oks = a.oks
  BY <1>1 DEF Builders, Stages, Answers
<1> HIDE DEF b
<1>3. BuilderInv(b) /\ Silent(b)
  BY <1>1, <1>2 DEF BuilderInv, OneKey, Known, Ready, Looping, Silent
<1> QED
  BY <1>1, <1>2, <1>3, QuietStep DEF DInv

\* What is sent is open in the ledger.
LEMMA Opened ==
  ASSUME DInv, NEW a \in Builders, NEW k \in Keys
  PROVE  /\ Open(a) \in [Keys -> Ledgers]
         /\ Open(a)[k].insertOk = ledger[k].insertOk /\ Open(a)[k].deleteOk = ledger[k].deleteOk
         /\ Open(a)[k].insertOpen = ledger[k].insertOpen + Count(k \in a.keys /\ a.op = "insert")
         /\ Open(a)[k].deleteOpen = ledger[k].deleteOpen + Count(k \in a.keys /\ a.op = "delete")
<1>1. ledger \in [Keys -> Ledgers]
  BY DEF DInv, DynamoDBType
<1>2. ASSUME NEW i \in Keys
      PROVE  /\ Open(a)[i] \in Ledgers
             /\ Open(a)[i].insertOk = ledger[i].insertOk /\ Open(a)[i].deleteOk = ledger[i].deleteOk
             /\ Open(a)[i].insertOpen = ledger[i].insertOpen + Count(i \in a.keys /\ a.op = "insert")
             /\ Open(a)[i].deleteOpen = ledger[i].deleteOpen + Count(i \in a.keys /\ a.op = "delete")
  <2>1. ledger[i] \in Ledgers
    BY <1>1
  <2>2. CASE i \notin a.keys \/ a.op \notin {"insert", "delete"}
    BY <2>1, <2>2 DEF Open, Ledgers, Count
  <2>3. CASE i \in a.keys /\ a.op = "insert"
    BY <2>1, <2>3 DEF Open, Ledgers, Count
  <2>4. CASE i \in a.keys /\ a.op = "delete"
    BY <2>1, <2>4 DEF Open, Ledgers, Count
  <2> QED
    BY <2>2, <2>3, <2>4
<1>3. Open(a) \in [Keys -> Ledgers]
  <2>1. Open(a) = [i \in Keys |-> Open(a)[i]]
    BY DEF Open
  <2> HIDE DEF Open
  <2> QED
    BY <1>2, <2>1
<1> QED
  BY <1>2, <1>3

\* When the answer is known it is closed, and counted if it was a success.
LEMMA Closed ==
  ASSUME DInv, NEW a \in Builders, NEW ok \in BOOLEAN, NEW k \in Keys
  PROVE  /\ Close(a, ok) \in [Keys -> Ledgers]
         /\ Close(a, ok)[k].insertOk = ledger[k].insertOk + Count(ok /\ k \in a.keys /\ a.op = "insert")
         /\ Close(a, ok)[k].insertOpen = ledger[k].insertOpen - Count(k \in a.keys /\ a.op = "insert")
         /\ Close(a, ok)[k].deleteOk = ledger[k].deleteOk + Count(ok /\ k \in a.keys /\ a.op = "delete")
         /\ Close(a, ok)[k].deleteOpen = ledger[k].deleteOpen - Count(k \in a.keys /\ a.op = "delete")
<1> DEFINE n == IF ok THEN 1 ELSE 0
<1>1. ledger \in [Keys -> Ledgers] /\ n \in Int /\ n = Count(ok)
  BY DEF DInv, DynamoDBType, Count
<1>2. ASSUME NEW i \in Keys
      PROVE  /\ Close(a, ok)[i] \in Ledgers
             /\ Close(a, ok)[i].insertOk = ledger[i].insertOk + Count(ok /\ i \in a.keys /\ a.op = "insert")
             /\ Close(a, ok)[i].insertOpen = ledger[i].insertOpen - Count(i \in a.keys /\ a.op = "insert")
             /\ Close(a, ok)[i].deleteOk = ledger[i].deleteOk + Count(ok /\ i \in a.keys /\ a.op = "delete")
             /\ Close(a, ok)[i].deleteOpen = ledger[i].deleteOpen - Count(i \in a.keys /\ a.op = "delete")
  <2>1. ledger[i] \in Ledgers
    BY <1>1
  <2>2. CASE i \notin a.keys \/ a.op \notin {"insert", "delete"}
    <3>1. Close(a, ok)[i] = ledger[i]
      BY <2>2 DEF Close
    <3> QED
      BY <2>1, <2>2, <3>1 DEF Ledgers, Count
  <2>3. CASE i \in a.keys /\ a.op = "insert"
    <3>1. Close(a, ok)[i] = [ledger[i] EXCEPT !.insertOpen = @ - 1, !.insertOk = @ + n]
      BY <2>3 DEF Close
    <3> HIDE DEF n
    <3>2. PICK x \in Int, y \in Int : x = ledger[i].insertOpen - 1 /\ y = ledger[i].insertOk + n
      BY <1>1, <2>1 DEF Ledgers
    <3>3. [ledger[i] EXCEPT !.insertOpen = x, !.insertOk = y] = Close(a, ok)[i]
      BY <3>1, <3>2
    <3>4. /\ Close(a, ok)[i] \in Ledgers /\ Close(a, ok)[i].insertOk = y /\ Close(a, ok)[i].insertOpen = x
          /\ Close(a, ok)[i].deleteOk = ledger[i].deleteOk /\ Close(a, ok)[i].deleteOpen = ledger[i].deleteOpen
      BY <2>1, <3>3 DEF Ledgers
    <3> QED
      BY <1>1, <2>1, <2>3, <3>2, <3>4 DEF Ledgers, Count
  <2>4. CASE i \in a.keys /\ a.op = "delete"
    <3>1. Close(a, ok)[i] = [ledger[i] EXCEPT !.deleteOpen = @ - 1, !.deleteOk = @ + n]
      BY <2>4 DEF Close
    <3> HIDE DEF n
    <3>2. PICK x \in Int, y \in Int : x = ledger[i].deleteOpen - 1 /\ y = ledger[i].deleteOk + n
      BY <1>1, <2>1 DEF Ledgers
    <3>3. [ledger[i] EXCEPT !.deleteOpen = x, !.deleteOk = y] = Close(a, ok)[i]
      BY <3>1, <3>2
    <3>4. /\ Close(a, ok)[i] \in Ledgers /\ Close(a, ok)[i].deleteOk = y /\ Close(a, ok)[i].deleteOpen = x
          /\ Close(a, ok)[i].insertOk = ledger[i].insertOk /\ Close(a, ok)[i].insertOpen = ledger[i].insertOpen
      BY <2>1, <3>3 DEF Ledgers
    <3> QED
      BY <1>1, <2>1, <2>4, <3>2, <3>4 DEF Ledgers, Count
  <2> QED
    BY <2>2, <2>3, <2>4
<1>3. Close(a, ok) \in [Keys -> Ledgers]
  <2>1. Close(a, ok) = [i \in Keys |-> Close(a, ok)[i]]
    BY DEF Close
  <2> HIDE DEF Close
  <2> QED
    BY <1>2, <2>1
<1> QED
  BY <1>2, <1>3

\* Execute fails before it sends, or opens what it sends.
LEMMA ExecuteStep ==
  ASSUME DInv, NEW p \in Procs, Execute(p)
  PROVE  DInv'
<1> DEFINE a == c[p]
           b == checkForScan(a)
<1>1. a \in Builders /\ BuilderInv(a) /\ a.pc = "built" /\ UNCHANGED <<items, tables>>
  BY DEF DInv, DynamoDBType, Execute
<1>2. \/ b.err # "none" /\ Becomes(p, b) /\ UNCHANGED ledger
      \/ b.err = "none" /\ Becomes(p, [b EXCEPT !.err = "unknown"]) /\ UNCHANGED ledger
      \/ b.err = "none" /\ Becomes(p, [b EXCEPT !.pc = "sent", !.sends = @ + 1]) /\ ledger' = Open(b)
  BY DEF Execute
<1> HIDE DEF a
<1>3. /\ b \in Builders /\ b.op = a.op /\ b.keys = a.keys /\ b.pc = "built" /\ b.done = a.done /\ b.oks = a.oks
      /\ b.err = "none" => a.err = "none"
  BY <1>1 DEF checkForScan, Builders, ErrorKinds
<1> HIDE DEF b
<1>4. BuilderInv(b) /\ Silent(b)
  BY <1>1, <1>3 DEF BuilderInv, OneKey, Known, Ready, Looping, Silent
<1>5. CASE b.err # "none" /\ Becomes(p, b) /\ UNCHANGED ledger
  BY <1>1, <1>3, <1>4, <1>5, QuietStep DEF DInv
<1>6. CASE b.err = "none" /\ Becomes(p, [b EXCEPT !.err = "unknown"]) /\ UNCHANGED ledger
  <2> DEFINE d == [b EXCEPT !.err = "unknown"]
  <2>1. d \in Builders /\ d.op = b.op /\ d.keys = b.keys /\ d.pc = "built" /\ d.done = b.done /\ d.oks = b.oks
    BY <1>3 DEF Builders, ErrorKinds
  <2>2. Becomes(p, d)
    BY <1>6
  <2>3. d.err = "unknown"
    BY <1>3 DEF Builders
  <2> HIDE DEF d
  <2>4. BuilderInv(d) /\ Silent(d)
    BY <1>3, <1>4, <2>1, <2>3 DEF BuilderInv, OneKey, Known, Ready, Looping, Silent
  <2> QED
    BY <1>1, <1>6, <2>1, <2>2, <2>4, QuietStep DEF DInv
<1>7. CASE b.err = "none" /\ Becomes(p, [b EXCEPT !.pc = "sent", !.sends = @ + 1]) /\ ledger' = Open(b)
  <2> DEFINE d == [b EXCEPT !.pc = "sent", !.sends = @ + 1]
  <2>0. b.sends + 1 \in Nat
    BY <1>3 DEF Builders
  <2>1. d \in Builders /\ d.op = b.op /\ d.keys = b.keys /\ d.pc = "sent" /\ d.done = b.done /\ d.oks = b.oks
    BY <1>3, <2>0 DEF Builders, Stages
  <2>2. Becomes(p, d)
    BY <1>7
  <2> HIDE DEF d
  <2>3. BuilderInv(d)
    BY <1>3, <1>4, <1>7, <2>1 DEF BuilderInv, OneKey, Known, Ready, Looping
  <2>4. ledger' \in [Keys -> Ledgers]
    <3>1. CASE Keys = {}
      BY <1>7, <3>1 DEF Open
    <3>2. CASE Keys # {}
      BY <1>3, <1>7, <3>2, Opened
    <3> QED
      BY <3>1, <3>2
  <2>5. ASSUME NEW k \in Keys
        PROVE  Keeps(There(items, k), ledger[k], a, There(items', k), ledger'[k], d, k)
    <3>1. \A op \in {"insert", "delete"} : ~Pending(a, op, k) /\ ~Applied(a, op, k) /\ ~Applied(d, op, k)
      BY <1>1, <2>1 DEF Pending, Applied
    <3>2. \A op \in {"insert", "delete"} : Pending(d, op, k) <=> (k \in b.keys /\ b.op = op)
      BY <2>1 DEF Pending
    <3>3. There(items', k) = There(items, k) /\ There(items, k) \in Int
      BY <1>1 DEF There
    <3>4. ledger[k] \in Ledgers
      BY DEF DInv, DynamoDBType
    <3>5. /\ ledger'[k].insertOk = ledger[k].insertOk /\ ledger'[k].deleteOk = ledger[k].deleteOk
          /\ ledger'[k].insertOpen = ledger[k].insertOpen + Count(k \in b.keys /\ b.op = "insert")
          /\ ledger'[k].deleteOpen = ledger[k].deleteOpen + Count(k \in b.keys /\ b.op = "delete")
      BY <1>3, <1>7, Opened
    <3> QED
      BY <3>1, <3>2, <3>3, <3>4, <3>5 DEF Keeps, Count, Ledgers
  <2>6. (\A k \in Keys : Balance(k))'
    BY <2>1, <2>2, <2>4, <2>5, StepBalance DEF a
  <2> QED
    BY <1>1, <2>1, <2>2, <2>3, <2>4, <2>6, BuildersMove DEF DInv, DynamoDBType
<1> QED
  BY <1>2, <1>5, <1>6, <1>7

\* A statement takes effect, or is refused, and its answer may be lost.
LEMMA ServeStep ==
  ASSUME DInv, NEW p \in Procs, NEW lost \in BOOLEAN, Serve(p, lost)
  PROVE  DInv'
<1> DEFINE a == c[p]
           r == Refusal(a)
           n == IF r = "none" /\ a.op \in Writes THEN a.done + 1 ELSE a.done
           w == IF lost THEN "lost" ELSE r
           b == [a EXCEPT !.pc = "answered", !.done = n, !.answer = w]
<1>1. a \in Builders /\ BuilderInv(a) /\ a.pc = "sent" /\ UNCHANGED <<tables, ledger>>
  BY DEF DInv, DynamoDBType, Serve
<1>2. Becomes(p, b)
  BY DEF Serve
<1>3. items' = IF r = "none" /\ a.op = "insert" THEN items \cup a.keys
               ELSE IF r = "none" /\ a.op = "delete" THEN items \ a.keys ELSE items
  BY DEF Serve
<1>4. /\ r \in {"none", "refused", "invalid"}
      /\ a.op = "insert" => r = IF a.keys \subseteq items THEN "refused" ELSE "none"
      /\ a.op = "delete" => r = IF a.keys \subseteq items THEN "none" ELSE "refused"
  BY DEF Refusal
<1> HIDE DEF a, r
<1>5. n \in Nat /\ w \in Answers /\ a.done \in Nat /\ a.oks \in Nat
  BY <1>1, <1>4 DEF Builders, Answers
<1>6. n = a.done \/ (n = a.done + 1 /\ r = "none")
  OBVIOUS
<1>7. (w = "refused" => r = "refused") /\ (w = "invalid" => r = "invalid")
  BY <1>4
<1>8. w = "none" <=> (~lost /\ r = "none")
  BY <1>4
<1> HIDE DEF n, w
<1>9. /\ b \in Builders /\ b.op = a.op /\ b.keys = a.keys /\ b.pc = "answered" /\ b.answer = w
      /\ b.done = n /\ b.oks = a.oks
  BY <1>1, <1>5 DEF Builders, Stages
<1> HIDE DEF b
<1>10. BuilderInv(b)
  <2>1. OneKey(b)
    BY <1>1, <1>9 DEF BuilderInv, OneKey
  <2>2. Known(b)
    BY <1>1, <1>5, <1>6, <1>7, <1>9 DEF BuilderInv, Known, Ready
  <2>3. Looping(b)
    BY <1>9 DEF Looping
  <2> QED
    BY <2>1, <2>2, <2>3 DEF BuilderInv
<1>11. ledger' \in [Keys -> Ledgers] /\ ledger' = ledger /\ ledger \in [Keys -> Ledgers]
  BY <1>1 DEF DInv, DynamoDBType
<1>12. ASSUME NEW k \in Keys
       PROVE  Keeps(There(items, k), ledger[k], a, There(items', k), ledger'[k], b, k)
  <2>1. ledger[k] \in Ledgers /\ ledger'[k] = ledger[k]
    BY <1>11
  <2>2. \A op \in {"insert", "delete"} :
          /\ Pending(a, op, k) <=> (k \in a.keys /\ a.op = op)
          /\ ~Applied(a, op, k)
          /\ Pending(b, op, k) => (k \in a.keys /\ a.op = op /\ r # "none")
          /\ Applied(b, op, k) => (k \in a.keys /\ a.op = op /\ r = "none")
    BY <1>1, <1>7, <1>8, <1>9 DEF Pending, Applied
  <2>3. CASE k \notin a.keys \/ a.op \notin {"insert", "delete"}
    <3>1. There(items', k) = There(items, k) /\ There(items, k) \in Int
      BY <1>3, <2>3 DEF There
    <3> QED
      BY <2>1, <2>2, <2>3, <3>1 DEF Keeps, Count, Ledgers
  <2>4. CASE k \in a.keys /\ a.op = "insert"
    <3>1. a.keys = {k}
      BY <1>1, <2>4 DEF BuilderInv, OneKey
    <3>2. \/ r = "refused" /\ There(items', k) = 1 /\ There(items, k) = 1
          \/ r = "none" /\ There(items', k) = 1 /\ There(items, k) = 0
      BY <1>3, <1>4, <2>4, <3>1 DEF There
    <3> QED
      BY <2>1, <2>2, <2>4, <3>2 DEF Keeps, Count, Ledgers
  <2>5. CASE k \in a.keys /\ a.op = "delete"
    <3>1. a.keys = {k}
      BY <1>1, <2>5 DEF BuilderInv, OneKey
    <3>2. \/ r = "refused" /\ There(items', k) = 0 /\ There(items, k) = 0
          \/ r = "none" /\ There(items', k) = 0 /\ There(items, k) = 1
      BY <1>3, <1>4, <2>5, <3>1 DEF There
    <3> QED
      BY <2>1, <2>2, <2>5, <3>2 DEF Keeps, Count, Ledgers
  <2> QED
    BY <2>3, <2>4, <2>5
<1>13. (\A k \in Keys : Balance(k))'
  BY <1>2, <1>9, <1>11, <1>12, StepBalance DEF a
<1> QED
  BY <1>1, <1>2, <1>9, <1>10, <1>11, <1>13, BuildersMove DEF DInv, DynamoDBType

\* The error that a write is told: none if it took effect and was answered.
LEMMA ToldError ==
  ASSUME NEW a \in Builders, NEW err \in {ResultErr(a)} \cup Unread(a)
  PROVE  /\ err \in ErrorKinds
         /\ a.op \in Writes /\ err = "none" => a.answer = "none"
         /\ a.op \in {"insert", "delete"} => (err = "none" <=> a.answer = "none")
<1>1. a.answer \in Answers /\ a.op \in Ops
  BY DEF Builders
<1>2. err = ResultErr(a) \/ (err = "unknown" /\ a.answer = "none" /\ a.op \in {"get", "query", "update"})
  BY DEF Unread
<1> QED
  BY <1>1, <1>2 DEF ResultErr, Answers, Ops, Writes, ErrorKinds

\* The goroutine goes on with the answer: what it is told is what the ledger closes.
LEMMA AnsweredStep ==
  ASSUME DInv, NEW p \in Procs, ExecuteAnswered(p)
  PROVE  DInv'
<1> DEFINE a == c[p]
<1>1. a \in Builders /\ BuilderInv(a) /\ a.pc = "answered" /\ UNCHANGED <<items, tables>>
  BY DEF DInv, DynamoDBType, ExecuteAnswered
<1>2. PICK err \in {ResultErr(a)} \cup Unread(a) :
        /\ Becomes(p, [a EXCEPT !.pc = "built", !.answer = "none", !.err = err,
                                !.oks = IF a.op \in Writes /\ a.answer # "lost" /\ err = "none" THEN @ + 1 ELSE @])
        /\ ledger' = IF a.answer = "lost" THEN ledger ELSE Close(a, err = "none")
  BY DEF ExecuteAnswered
<1> HIDE DEF a
<1>3. /\ err \in ErrorKinds
      /\ a.op \in Writes /\ err = "none" => a.answer = "none"
      /\ a.op \in {"insert", "delete"} => (err = "none" <=> a.answer = "none")
  BY <1>1, ToldError
<1> DEFINE n == IF a.op \in Writes /\ a.answer # "lost" /\ err = "none" THEN a.oks + 1 ELSE a.oks
           b == [a EXCEPT !.pc = "built", !.answer = "none", !.err = err, !.oks = n]
<1>4. Becomes(p, b)
  BY <1>2
<1>5. n \in Nat /\ a.oks \in Nat /\ a.done \in Nat /\ n >= a.oks /\ (a.op \in Writes /\ err = "none" => n = a.oks + 1)
  BY <1>1, <1>3 DEF Builders
<1> HIDE DEF n
<1>6. /\ b \in Builders /\ b.op = a.op /\ b.keys = a.keys /\ b.pc = "built" /\ b.err = err
      /\ b.done = a.done /\ b.oks = n
  BY <1>1, <1>3, <1>5 DEF Builders, Stages, Answers
<1> HIDE DEF b
<1>7. BuilderInv(b)
  <2>1. OneKey(b)
    BY <1>1, <1>6 DEF BuilderInv, OneKey
  <2>2. Known(b)
    BY <1>1, <1>5, <1>6 DEF BuilderInv, Known, Ready
  <2>3. Looping(b)
    BY <1>6 DEF Looping
  <2> QED
    BY <2>1, <2>2, <2>3 DEF BuilderInv
<1>8. PICK ok \in BOOLEAN : ok <=> err = "none"
  OBVIOUS
<1>9. ledger' = IF a.answer = "lost" THEN ledger ELSE Close(a, ok)
  BY <1>2, <1>8
<1>10. ledger \in [Keys -> Ledgers] /\ ledger' \in [Keys -> Ledgers]
  <2>1. ledger \in [Keys -> Ledgers]
    BY DEF DInv, DynamoDBType
  <2>2. CASE Keys = {}
    BY <1>9, <2>1, <2>2 DEF Close
  <2>3. CASE Keys # {}
    BY <1>1, <1>9, <2>1, <2>3, Closed
  <2> QED
    BY <2>1, <2>2, <2>3
<1>11. ASSUME NEW k \in Keys
       PROVE  Keeps(There(items, k), ledger[k], a, There(items', k), ledger'[k], b, k)
  <2>1. ledger[k] \in Ledgers
    BY <1>10
  <2>2. There(items', k) = There(items, k) /\ There(items, k) \in Int
    BY <1>1 DEF There
  <2>3. \A op \in {"insert", "delete"} :
          /\ ~Pending(b, op, k) /\ ~Applied(b, op, k)
          /\ Pending(a, op, k) <=> (k \in a.keys /\ a.op = op /\ a.answer \in {"refused", "invalid"})
          /\ Applied(a, op, k) <=> (k \in a.keys /\ a.op = op /\ a.answer = "none")
    BY <1>1, <1>6 DEF Pending, Applied
  <2>4. CASE a.answer = "lost"
    <3>1. ledger'[k] = ledger[k]
      BY <1>9, <2>4
    <3> QED
      BY <2>1, <2>2, <2>3, <2>4, <3>1 DEF Keeps, Count, Ledgers
  <2>5. CASE a.answer # "lost"
    <3>1. ledger' = Close(a, ok)
      BY <1>9, <2>5
    <3>2. /\ ledger'[k].insertOk = ledger[k].insertOk + Count(ok /\ k \in a.keys /\ a.op = "insert")
          /\ ledger'[k].insertOpen = ledger[k].insertOpen - Count(k \in a.keys /\ a.op = "insert")
          /\ ledger'[k].deleteOk = ledger[k].deleteOk + Count(ok /\ k \in a.keys /\ a.op = "delete")
          /\ ledger'[k].deleteOpen = ledger[k].deleteOpen - Count(k \in a.keys /\ a.op = "delete")
      BY <1>1, <3>1, Closed
    <3>3. a.answer \in {"none", "refused", "invalid"} /\ (a.op \in {"insert", "delete"} => (ok <=> a.answer = "none"))
      BY <1>1, <1>3, <1>8, <2>5 DEF Builders, Answers
    <3>4. CASE k \notin a.keys \/ a.op \notin {"insert", "delete"}
      BY <2>1, <2>2, <2>3, <3>2, <3>4 DEF Keeps, Count, Ledgers
    <3>5. CASE k \in a.keys /\ a.op = "insert"
      BY <2>1, <2>2, <2>3, <3>2, <3>3, <3>5 DEF Keeps, Count, Ledgers
    <3>6. CASE k \in a.keys /\ a.op = "delete"
      BY <2>1, <2>2, <2>3, <3>2, <3>3, <3>6 DEF Keeps, Count, Ledgers
    <3> QED
      BY <3>4, <3>5, <3>6
  <2> QED
    BY <2>4, <2>5
<1>12. (\A k \in Keys : Balance(k))'
  BY <1>4, <1>6, <1>10, <1>11, StepBalance DEF a
<1> QED
  BY <1>1, <1>4, <1>6, <1>7, <1>10, <1>12, BuildersMove DEF DInv, DynamoDBType

\* The loops start with the tables they will go through, none of them foreign.
LEMMA LoopStep ==
  ASSUME DInv, NEW p \in Procs, CreateTables(p) \/ DeleteAllTables(p)
  PROVE  DInv'
<1>1. PICK op \in {"create", "deleteAll"}, todo \in SUBSET (Own \cup Prefixed) :
        /\ Becomes(p, [New(p, op, {}) EXCEPT !.pc = "tables", !.todo = todo, !.listed = todo])
        /\ UNCHANGED <<items, tables, ledger>>
  BY DEF CreateTables, DeleteAllTables, Loop, ListTables
<1> DEFINE n == New(p, op, {})
           b == [n EXCEPT !.pc = "tables", !.todo = todo, !.listed = todo]
<1>2. Becomes(p, b)
  BY <1>1
<1>3. n \in Builders /\ n.op = op /\ n.err = "none" /\ n.did = {}
  BY NewBuilder DEF DInv, Ops
<1> HIDE DEF n
<1>4. b \in Builders /\ b.op = op /\ b.err = "none" /\ b.pc = "tables" /\ b.did = {} /\ b.todo = todo /\ b.listed = todo
  BY <1>3 DEF Builders, Stages
<1> HIDE DEF b
<1>5. BuilderInv(b) /\ Silent(b)
  BY <1>4 DEF BuilderInv, OneKey, Known, Looping, Silent, Writes
<1> QED
  BY <1>1, <1>2, <1>4, <1>5, QuietStep DEF DInv

\* One table of a loop: an error is kept exactly if the table was not changed.
LEMMA TableStep ==
  ASSUME DInv, NEW p \in Procs, NEW t \in Own \cup Prefixed, NEW served \in BOOLEAN, OneTable(p, t, served)
  PROVE  DInv'
<1> DEFINE a == c[p]
<1>1. a \in Builders /\ BuilderInv(a) /\ a.pc = "tables" /\ t \in a.todo /\ UNCHANGED <<items, ledger>>
  BY DEF DInv, DynamoDBType, OneTable
<1>2. PICK ok \in BOOLEAN :
        /\ tables' \in {tables, tables \cup {t}, tables \ {t}}
        /\ Becomes(p, [a EXCEPT !.todo = @ \ {t}, !.did = IF ok THEN @ \cup {t} ELSE @,
                                !.err = IF ok THEN @ ELSE "unknown"])
  <2>1. PICK ok \in BOOLEAN : ok = (served /\ ((a.op = "create") = (t \notin tables)))
    OBVIOUS
  <2> QED
    BY <2>1 DEF OneTable
<1>3. Foreign \subseteq tables'
  BY <1>2, DynamoDBAssumption DEF DInv
<1> HIDE DEF a
<1> DEFINE did == IF ok THEN a.did \cup {t} ELSE a.did
           err == IF ok THEN a.err ELSE "unknown"
           b   == [a EXCEPT !.todo = a.todo \ {t}, !.did = did, !.err = err]
<1>4. Becomes(p, b)
  BY <1>2
<1>5. did \in SUBSET (Own \cup Prefixed) /\ err \in ErrorKinds
  BY <1>1 DEF Builders, ErrorKinds
<1>6. /\ a.todo \subseteq a.listed /\ a.did \subseteq a.listed /\ a.did \cap a.todo = {}
      /\ (a.err = "none") <=> (a.did \cup a.todo = a.listed)
  BY <1>1 DEF BuilderInv, Looping
<1>7. /\ did \subseteq a.listed /\ did \cap (a.todo \ {t}) = {}
      /\ (err = "none") <=> (did \cup (a.todo \ {t}) = a.listed)
  <2>1. CASE ok
    BY <1>1, <1>6, <2>1
  <2>2. CASE ~ok
    BY <1>1, <1>6, <2>2
  <2> QED
    BY <2>1, <2>2
<1> HIDE DEF did, err
<1>8. /\ b \in Builders /\ b.op = a.op /\ b.keys = a.keys /\ b.pc = "tables" /\ b.done = a.done /\ b.oks = a.oks
      /\ b.todo = a.todo \ {t} /\ b.did = did /\ b.err = err /\ b.listed = a.listed
  BY <1>1, <1>5 DEF Builders
<1> HIDE DEF b
<1>9. Looping(b)
  BY <1>6, <1>7, <1>8 DEF Looping
<1>10. BuilderInv(b) /\ Silent(b)
  BY <1>1, <1>8, <1>9 DEF BuilderInv, OneKey, Known, Ready, Silent
<1> QED
  BY <1>1, <1>3, <1>4, <1>8, <1>10, QuietStep

\* The loop ends when no table is left.
LEMMA TablesDoneStep ==
  ASSUME DInv, NEW p \in Procs, TablesDone(p)
  PROVE  DInv'
<1> DEFINE a == c[p]
           b == [a EXCEPT !.pc = "told"]
<1>1. /\ a \in Builders /\ BuilderInv(a) /\ a.pc = "tables" /\ a.todo = {} /\ UNCHANGED <<items, tables, ledger>>
      /\ Becomes(p, b)
  BY DEF DInv, DynamoDBType, TablesDone
<1> HIDE DEF a
<1>2. /\ b \in Builders /\ b.op = a.op /\ b.keys = a.keys /\ b.pc = "told" /\ b.done = a.done /\ b.oks = a.oks
      /\ b.todo = a.todo /\ b.did = a.did /\ b.err = a.err /\ b.listed = a.listed
  BY <1>1 DEF Builders, Stages
<1> HIDE DEF b
<1>3. BuilderInv(b) /\ Silent(b)
  BY <1>1, <1>2 DEF BuilderInv, OneKey, Known, Ready, Looping, Silent
<1> QED
  BY <1>1, <1>2, <1>3, QuietStep DEF DInv

\* At the start no goroutine has a builder and the ledger is empty.
LEMMA DynamoDBStart ==
  ASSUME DynamoDBInit
  PROVE  DInv
<1>1. {} \in SUBSET Keys /\ {} \in SUBSET (Own \cup Prefixed) /\ 0 \in Nat
  OBVIOUS
<1>2. Idle \in Builders /\ Idle.op = "none" /\ Idle.pc = "idle"
  BY <1>1 DEF Idle, Builder, Builders, Ops, Stages, Answers, ErrorKinds, Writes
<1>3. DynamoDBType
  BY <1>2 DEF DynamoDBInit, DynamoDBType, Ledgers
<1>4. \A p \in Procs : BuilderInv(c[p])
  BY <1>2 DEF DynamoDBInit, BuilderInv, OneKey, Known, Looping, Writes
<1>5. ASSUME NEW k \in Keys PROVE Balance(k)
  <2>1. \A op \in {"insert", "delete"} : Pendings(c, op, k) = {} /\ Applieds(c, op, k) = {}
    BY <1>2 DEF DynamoDBInit, Pendings, Applieds, Pending, Applied
  <2>2. Cardinality({}) = 0
    BY FS_EmptySet
  <2> QED
    BY <2>1, <2>2 DEF DynamoDBInit, Balance, Balanced, There
<1>6. Foreign \subseteq tables
  BY DEF DynamoDBInit
<1> QED
  BY <1>3, <1>4, <1>5, <1>6 DEF DInv

\* Every statement and every loop over tables keeps the invariant.
LEMMA DynamoDBStep ==
  ASSUME DInv, StatementNext \/ TableNext
  PROVE  DInv'
<1>1. CASE StatementNext
  <2> PICK p \in Procs :
        \/ \E k \in Keys, hashed, range \in BOOLEAN : Insert(p, k, hashed, range)
        \/ \E k \in Keys : Delete(p, k)
        \/ \E k \in Keys : Get(p, k)
        \/ \E k \in Keys, keyed, range \in BOOLEAN : Update(p, k, keyed, range)
        \/ Set(p)
        \/ \E model \in {Ranged, Keys \ Ranged}, slice \in SUBSET Keys :
             \E allowScan \in IF slice = {} THEN BOOLEAN ELSE {FALSE} : Query(p, model, slice, allowScan)
        \/ Execute(p) \/ \E lost \in BOOLEAN : Serve(p, lost)
        \/ Unserved(p) \/ ExecuteAnswered(p) \/ Drop(p)
    BY <1>1 DEF StatementNext
  <2> QED
    BY CallStep, SetStep, ExecuteStep, ServeStep, UnservedStep, AnsweredStep, DropStep
<1>2. CASE TableNext
  <2> PICK p \in Procs :
        \/ CreateTables(p) \/ DeleteAllTables(p) \/ TablesDone(p) \/ Drop(p)
        \/ \E t \in Own \cup Prefixed, served \in BOOLEAN : OneTable(p, t, served)
    BY <1>2 DEF TableNext
  <2> QED
    BY LoopStep, TablesDoneStep, DropStep, TableStep
<1> QED
  BY <1>1, <1>2

\* The invariant of the DynamoDB builders and loops.
LEMMA DynamoDBAlways == DynamoDBSpec => []DInv
<1>1. DynamoDBInit => DInv
  BY DynamoDBStart
<1>2. DInv /\ [StatementNext \/ TableNext]_dynamoVars => DInv'
  <2>1. CASE UNCHANGED dynamoVars /\ DInv
    BY <2>1 DEF dynamoVars, DInv, DynamoDBType, Balance
  <2> QED
    BY <2>1, DynamoDBStep
<1> QED
  BY <1>1, <1>2, PTL DEF DynamoDBSpec

\* Whatever answers are lost and whatever goroutines do in between, what callers of Insert
\* and Delete were told adds up with the items that are there.
THEOREM ToldAlwaysAddsUp == DynamoDBSpec => []ToldAddsUp
<1>1. DInv => ToldAddsUp
  <2> SUFFICES ASSUME DInv, NEW k \in Keys
               PROVE  LET there == IF k \in items THEN 1 ELSE 0
                          l     == ledger[k]
                      IN  /\ there + l.deleteOk <= l.insertOk + l.insertOpen
                          /\ l.insertOk <= there + l.deleteOk + l.deleteOpen
    BY DEF ToldAddsUp
  <2>1. \A op \in {"insert", "delete"} : Cardinality(Pendings(c, op, k)) \in Nat /\ Cardinality(Applieds(c, op, k)) \in Nat
    BY DynamoDBAssumption, FS_Subset, FS_CardinalityType DEF Pendings, Applieds
  <2>2. Balanced(There(items, k), ledger[k], c, k) /\ ledger[k] \in Ledgers
    BY DEF DInv, DynamoDBType, Balance
  <2> QED
    BY <2>1, <2>2 DEF Balanced, There, Ledgers
<1> QED
  BY <1>1, DynamoDBAlways, PTL

\* A builder of Insert, Update or Delete is at most one effect ahead of what it was told,
\* however often it is executed.
THEOREM NeverTwiceWithoutTelling == DynamoDBSpec => []NeverTwiceUntold
<1>1. DInv => NeverTwiceUntold
  BY DEF DInv, BuilderInv, Known, NeverTwiceUntold
<1> QED
  BY <1>1, DynamoDBAlways, PTL

\* CreateTables and DeleteAllTables report success exactly if they changed every table,
\* and no table without the prefix is ever deleted.
THEOREM PartialFailureAlwaysTold == DynamoDBSpec => []PartialFailureIsTold
<1>1. DInv => PartialFailureIsTold
  BY DEF DInv, BuilderInv, Looping, PartialFailureIsTold
<1> QED
  BY <1>1, DynamoDBAlways, PTL

-----------------------------------------------------------------------------
\* Config.  What a value of the configuration can be.
Contents == {"none", "yaml", "dotenv", "env", "secret", "verbatim"} \cup SecretForms

Loads ==
  [pc : {"find", "load", "bind", "secrets", "done", "panic"}, file : Files, level : Levels,
   at : {<<>>} \cup (Levels \X {"test", "here"}), env : [Leaves -> Contents], val : [Leaves -> Contents],
   todo : SUBSET Leaves]

\* The environment after .env was loaded, and what the configuration holds in the end.
Environment(l) ==
  IF world.os[l] # "none" THEN world.os[l]
  ELSE IF "here" \in world.found[".env"][Depth] THEN world.dotenv[l] ELSE "none"

Final(l) ==
  IF LooksUpSecrets /\ l \in Top /\ Chosen(l) \in SecretForms THEN Secret(Chosen(l)) ELSE Chosen(l)

\* The search has passed only directories without the file and without a go.mod.
Searching ==
  /\ ~world.testing => conf.level = Depth
  /\ conf.pc = "find" =>
       \A n \in Levels : n > conf.level => world.found[conf.file][n] = {} /\ n \notin world.mods
  /\ FoundIsNearest

\* Before and after .env was loaded.
Reading ==
  /\ conf.pc \in {"find", "load"} /\ conf.file = ".env" => conf.env = world.os
  /\ conf.pc = "load" /\ conf.file = ".env" /\ ~world.testing =>
       (conf.at # <<>> <=> "here" \in world.found[".env"][Depth])
  /\ (conf.pc \in {"find", "load"} /\ conf.file = "config.yaml") \/ conf.pc = "bind" =>
       \A l \in Leaves : conf.env[l] = Environment(l)
  /\ conf.pc = "bind" => conf.val = world.yaml

\* A leaf that is still to be looked up holds its placeholder, every other one its value.
Resolving ==
  /\ conf.pc = "secrets" => \A l \in Leaves :
       IF l \in conf.todo THEN LooksUpSecrets /\ conf.val[l] = Chosen(l) /\ Chosen(l) \in SecretForms
       ELSE conf.val[l] = Final(l)
  /\ conf.pc = "done" => \A l \in Leaves : conf.val[l] = Final(l)

CInv == world \in Worlds /\ conf \in Loads /\ Searching /\ Reading /\ Resolving

\* In a test the environment and .env are empty and secrets are not looked up.
LEMMA WorldIs ==
  ASSUME world \in Worlds
  PROVE  /\ world.testing \in BOOLEAN
         /\ \A f \in Files, n \in Levels : world.found[f][n] \subseteq {"test", "here"}
         /\ world.testing => \A l \in Leaves : world.os[l] = "none" /\ world.dotenv[l] = "none"
         /\ world.yaml \in [Leaves -> Contents] /\ world.os \in [Leaves -> Contents]
         /\ world.dotenv \in [Leaves -> Contents]
<1>1. CASE world \in [testing : {TRUE}, root : {FALSE}, envType : {"test"}, mods : SUBSET Levels, found : SameLayout,
                      yaml : [Leaves -> {"yaml"}], dotenv : [Leaves -> {"none"}], os : [Leaves -> {"none"}]]
  <2>1. /\ world.testing = TRUE /\ world.found \in SameLayout /\ world.yaml \in [Leaves -> {"yaml"}]
        /\ world.dotenv \in [Leaves -> {"none"}] /\ world.os \in [Leaves -> {"none"}]
    BY <1>1
  <2>2. PICK x \in [Levels -> SUBSET {"test", "here"}] : world.found = [f \in Files |-> x]
    BY <2>1 DEF SameLayout
  <2> QED
    BY <2>1, <2>2 DEF Contents
<1>2. CASE world \in [testing : {FALSE}, root : BOOLEAN, envType : {"test", "prod"}, mods : {{}}, found : InCurrent,
                      yaml : [Leaves -> {"none", "yaml"} \cup SecretForms], dotenv : [Leaves -> {"none", "dotenv"}],
                      os : [Leaves -> {"none", "env", "<secret>"}]]
  <2>1. /\ world.testing = FALSE /\ world.found \in InCurrent
        /\ world.yaml \in [Leaves -> {"none", "yaml"} \cup SecretForms]
        /\ world.dotenv \in [Leaves -> {"none", "dotenv"}] /\ world.os \in [Leaves -> {"none", "env", "<secret>"}]
    BY <1>2
  <2>2. PICK fs \in SUBSET Files :
          world.found = [f \in Files |-> [n \in Levels |-> IF n = Depth /\ f \in fs THEN {"here"} ELSE {}]]
    BY <2>1 DEF InCurrent
  <2>3. \A f \in Files, n \in Levels : world.found[f][n] \subseteq {"test", "here"}
    BY <2>2
  <2>4. /\ {"none", "yaml"} \cup SecretForms \subseteq Contents /\ {"none", "dotenv"} \subseteq Contents
        /\ {"none", "env", "<secret>"} \subseteq Contents
    BY DEF Contents, SecretForms
  <2>5. /\ world.yaml \in [Leaves -> Contents] /\ world.os \in [Leaves -> Contents]
        /\ world.dotenv \in [Leaves -> Contents]
    BY <2>1, <2>4
  <2> QED
    BY <2>1, <2>3, <2>5
<1> QED
  BY <1>1, <1>2 DEF Worlds

\* The invariant of a load in terms of its fields, for the steps below.
LEMMA LoadIs ==
  ASSUME CInv
  PROVE  /\ conf.file \in Files /\ conf.level \in Levels /\ conf.level \in Nat /\ Depth \in Levels
         /\ conf.env \in [Leaves -> Contents] /\ conf.val \in [Leaves -> Contents] /\ conf.todo \in SUBSET Leaves
BY ConfigAssumption DEF CInv, Loads, Levels

\* findConfigFile looks at the current directory.
LEMMA FindStep ==
  ASSUME CInv, findConfigFile
  PROVE  CInv'
<1>1. conf.pc = "find" /\ ~world.testing /\ world' = world /\ conf.level = Depth
  BY DEF findConfigFile, Loading, CInv, Searching
<1>2. CASE "here" \in world.found[conf.file][Depth]
  <2>1. conf' = [conf EXCEPT !.pc = "load", !.at = <<conf.level, "here">>]
    BY <1>2 DEF findConfigFile, Here, Found
  <2>2. conf' \in Loads
    BY <2>1, LoadIs DEF CInv, Loads
  <2>3. conf'.pc = "load" /\ conf'.at = <<Depth, "here">> /\ conf'.file = conf.file /\ conf'.env = conf.env /\ conf'.level = Depth
    BY <1>1, <2>1 DEF CInv, Loads
  <2>4. Searching'
    BY <1>1, <2>3, ConfigAssumption DEF Searching, FoundIsNearest, Levels
  <2>5. Reading' /\ Resolving'
    BY <1>1, <1>2, <2>3 DEF CInv, Reading, Resolving, Environment
  <2> QED
    BY <1>1, <2>2, <2>4, <2>5 DEF CInv
<1>3. CASE "here" \notin world.found[conf.file][Depth]
  <2>1. conf' = [conf EXCEPT !.pc = "load", !.at = <<>>]
    BY <1>3 DEF findConfigFile, Here, NotFound
  <2>2. conf' \in Loads
    BY <2>1 DEF CInv, Loads
  <2>3. conf'.pc = "load" /\ conf'.at = <<>> /\ conf'.file = conf.file /\ conf'.env = conf.env /\ conf'.level = Depth
    BY <1>1, <2>1 DEF CInv, Loads
  <2>4. Searching'
    BY <1>1, <2>3 DEF Searching, FoundIsNearest
  <2>5. Reading' /\ Resolving'
    BY <1>1, <1>3, <2>3 DEF CInv, Reading, Resolving, Environment
  <2> QED
    BY <1>1, <2>2, <2>4, <2>5 DEF CInv
<1> QED
  BY <1>2, <1>3

\* recursiveFileFinder looks into one directory and goes on to its parent.
LEMMA FinderStep ==
  ASSUME CInv, recursiveFileFinder
  PROVE  CInv'
<1>1. conf.pc = "find" /\ world.testing /\ world' = world
  BY DEF recursiveFileFinder, Loading
<1>2. \A n \in Levels : n > conf.level => world.found[conf.file][n] = {} /\ n \notin world.mods
  BY <1>1 DEF CInv, Searching
<1> DEFINE here == world.found[conf.file][conf.level]
<1>3. here \subseteq {"test", "here"}
  BY LoadIs, WorldIs DEF CInv
<1>4. \/ \E where \in {"test", "here"} : conf' = [conf EXCEPT !.pc = "load", !.at = <<conf.level, where>>]
      \/ conf' = [conf EXCEPT !.pc = "load", !.at = <<>>]
      \/ /\ here = {} /\ conf.level \notin world.mods
         /\ conf' = [conf EXCEPT !.level = IF @ = 0 THEN 0 ELSE @ - 1]
  <2>1. CASE "test" \in here
    BY <2>1 DEF recursiveFileFinder, Here, Found
  <2>2. CASE "test" \notin here /\ "here" \in here
    BY <2>2 DEF recursiveFileFinder, Here, Found
  <2>3. CASE here = {} /\ conf.level \in world.mods
    BY <2>3 DEF recursiveFileFinder, Here, NotFound
  <2>4. CASE here = {} /\ conf.level \notin world.mods
    BY <2>4 DEF recursiveFileFinder, Here
  <2> QED
    BY <1>3, <2>1, <2>2, <2>3, <2>4
<1>5. ASSUME NEW where \in {"test", "here"}, conf' = [conf EXCEPT !.pc = "load", !.at = <<conf.level, where>>]
      PROVE  CInv'
  <2>1. conf' \in Loads
    BY <1>5, LoadIs DEF CInv, Loads
  <2>2. conf'.pc = "load" /\ conf'.at = <<conf.level, where>> /\ conf'.file = conf.file /\ conf'.env = conf.env
    BY <1>5 DEF CInv, Loads
  <2>3. conf'.at[1] = conf.level
    BY <2>2
  <2>4. Searching'
    BY <1>1, <1>2, <2>2, <2>3 DEF Searching, FoundIsNearest
  <2>5. Reading' /\ Resolving'
    BY <1>1, <2>2 DEF CInv, Reading, Resolving, Environment
  <2> QED
    BY <1>1, <2>1, <2>4, <2>5 DEF CInv
<1>6. CASE conf' = [conf EXCEPT !.pc = "load", !.at = <<>>]
  <2>1. conf' \in Loads
    BY <1>6 DEF CInv, Loads
  <2>2. conf'.pc = "load" /\ conf'.at = <<>> /\ conf'.file = conf.file /\ conf'.env = conf.env
    BY <1>6 DEF CInv, Loads
  <2>3. Searching'
    BY <1>1, <2>2 DEF Searching, FoundIsNearest
  <2>4. Reading' /\ Resolving'
    BY <1>1, <2>2 DEF CInv, Reading, Resolving, Environment
  <2> QED
    BY <1>1, <2>1, <2>3, <2>4 DEF CInv
<1>7. CASE here = {} /\ conf.level \notin world.mods /\ conf' = [conf EXCEPT !.level = IF @ = 0 THEN 0 ELSE @ - 1]
  <2> DEFINE up == IF conf.level = 0 THEN 0 ELSE conf.level - 1
  <2>1. up \in Levels /\ \A n \in Levels : n > up => n > conf.level \/ n = conf.level
    BY LoadIs, ConfigAssumption DEF Levels
  <2>2. conf' = [conf EXCEPT !.level = up]
    BY <1>7
  <2> HIDE DEF up
  <2>3. conf' \in Loads
    BY <2>1, <2>2 DEF CInv, Loads
  <2>4. conf'.pc = "find" /\ conf'.level = up /\ conf'.file = conf.file /\ conf'.env = conf.env
    BY <1>1, <2>2 DEF CInv, Loads
  <2>5. Searching'
    BY <1>1, <1>2, <1>7, <2>1, <2>4 DEF Searching, FoundIsNearest
  <2>6. Reading' /\ Resolving'
    BY <1>1, <2>4 DEF CInv, Reading, Resolving, Environment
  <2> QED
    BY <1>1, <2>3, <2>5, <2>6 DEF CInv
<1> QED
  BY <1>4, <1>5, <1>6, <1>7

\* A load that panics ends.
LEMMA PanicStep ==
  ASSUME CInv, conf' = [conf EXCEPT !.pc = "panic"], UNCHANGED world
  PROVE  CInv'
<1>1. conf' \in Loads /\ conf'.pc = "panic" /\ conf'.level = conf.level
  BY DEF CInv, Loads
<1>2. Searching' /\ Reading' /\ Resolving'
  BY <1>1 DEF CInv, Searching, FoundIsNearest, Reading, Resolving
<1> QED
  BY <1>1, <1>2 DEF CInv

\* loadDotEnv fills in what the environment does not set.
LEMMA DotEnvStep ==
  ASSUME CInv, loadDotEnv
  PROVE  CInv'
<1> DEFINE env == [l \in Leaves |-> IF conf.at # <<>> /\ conf.env[l] = "none" THEN world.dotenv[l] ELSE conf.env[l]]
<1>1. /\ conf.pc = "load" /\ conf.file = ".env" /\ world' = world
      /\ conf' = [conf EXCEPT !.pc = "find", !.file = "config.yaml", !.level = Depth, !.env = env]
  BY DEF loadDotEnv, Loading
<1>2. env \in [Leaves -> Contents]
  BY LoadIs, WorldIs DEF CInv
<1>3. conf.env = world.os
  BY <1>1 DEF CInv, Reading
<1>4. ASSUME NEW l \in Leaves PROVE env[l] = Environment(l)
  <2>1. CASE world.testing
    BY <1>3, <2>1, WorldIs DEF CInv, Environment
  <2>2. CASE ~world.testing
    <3>1. conf.at # <<>> <=> "here" \in world.found[".env"][Depth]
      BY <1>1, <2>2 DEF CInv, Reading
    <3> QED
      BY <1>3, <3>1 DEF Environment
  <2> QED
    BY <2>1, <2>2
<1> HIDE DEF env
<1>5. conf' \in Loads /\ conf'.pc = "find" /\ conf'.file = "config.yaml" /\ conf'.level = Depth /\ conf'.env = env
  BY <1>1, <1>2, LoadIs DEF CInv, Loads, Files
<1>6. Searching'
  BY <1>1, <1>5, ConfigAssumption DEF Searching, FoundIsNearest, Levels
<1>7. Reading'
  BY <1>1, <1>4, <1>5 DEF Reading, Environment
<1>8. Resolving'
  BY <1>5 DEF Resolving
<1> QED
  BY <1>1, <1>5, <1>6, <1>7, <1>8 DEF CInv

\* loadConfigYaml takes the values of the file.
LEMMA YamlStep ==
  ASSUME CInv, loadConfigYaml
  PROVE  CInv'
<1>1. conf.pc = "load" /\ conf.file = "config.yaml" /\ world' = world
  BY DEF loadConfigYaml, Loading
<1>2. CASE conf.at = <<>>
  BY <1>1, <1>2, PanicStep DEF loadConfigYaml
<1>3. CASE conf.at # <<>>
  <2>1. conf' = [conf EXCEPT !.pc = "bind", !.val = world.yaml] /\ world.yaml \in [Leaves -> Contents]
    BY <1>3, WorldIs DEF loadConfigYaml, CInv
  <2>2. /\ conf' \in Loads /\ conf'.pc = "bind" /\ conf'.val = world.yaml /\ conf'.env = conf.env
        /\ conf'.level = conf.level
    BY <2>1 DEF CInv, Loads
  <2>3. Searching' /\ Resolving'
    BY <1>1, <2>2 DEF CInv, Searching, FoundIsNearest, Resolving
  <2>4. Reading'
    BY <1>1, <2>2 DEF CInv, Reading, Environment
  <2> QED
    BY <1>1, <2>2, <2>3, <2>4 DEF CInv
<1> QED
  BY <1>2, <1>3

\* bindEnvVars puts the environment over the file, which is what was chosen.
LEMMA BindStep ==
  ASSUME CInv, bindEnvVars
  PROVE  CInv'
<1> DEFINE val  == [l \in Leaves |-> IF conf.env[l] # "none" THEN conf.env[l] ELSE conf.val[l]]
           todo == IF world.root \/ world.envType = "test" THEN {} ELSE {l \in Leaves : val[l] \in SecretForms}
<1>1. conf.pc = "bind" /\ world' = world /\ conf' = [conf EXCEPT !.pc = "secrets", !.val = val, !.todo = todo]
  BY DEF bindEnvVars, Loading
<1>2. val \in [Leaves -> Contents] /\ todo \in SUBSET Leaves
  BY LoadIs
<1>3. ASSUME NEW l \in Leaves PROVE val[l] = Chosen(l)
  BY <1>1 DEF CInv, Reading, Environment, Chosen
<1>4. \A l \in Leaves : l \in todo <=> (LooksUpSecrets /\ val[l] \in SecretForms)
  BY DEF LooksUpSecrets
<1> HIDE DEF val, todo
<1>5. /\ conf' \in Loads /\ conf'.pc = "secrets" /\ conf'.val = val /\ conf'.todo = todo
      /\ conf'.level = conf.level
  BY <1>1, <1>2 DEF CInv, Loads
<1>6. Searching' /\ Reading'
  BY <1>1, <1>5 DEF CInv, Searching, FoundIsNearest, Reading
<1>7. Resolving'
  BY <1>1, <1>3, <1>4, <1>5 DEF Resolving, Final, Chosen, LooksUpSecrets
<1> QED
  BY <1>1, <1>5, <1>6, <1>7 DEF CInv

\* traverse resolves one placeholder, or panics; below the top level the leaf keeps it.
LEMMA TraverseStep ==
  ASSUME CInv, NEW l \in Leaves, NEW ok \in BOOLEAN, traverse(l, ok)
  PROVE  CInv'
<1>1. conf.pc = "secrets" /\ world' = world /\ l \in conf.todo
  BY DEF traverse, Loading
<1>2. CASE conf' = [conf EXCEPT !.pc = "panic"]
  BY <1>1, <1>2, PanicStep
<1>3. CASE conf' = [conf EXCEPT !.todo = @ \ {l}, !.val = StoreSecret(l, Secret(conf.val[l]))]
  <2> DEFINE val == StoreSecret(l, Secret(conf.val[l]))
  <2>1. conf.val \in [Leaves -> Contents] /\ Secret(conf.val[l]) \in Contents /\ conf.todo \ {l} \in SUBSET Leaves
    BY LoadIs DEF Secret, Contents
  <2>2. /\ val \in [Leaves -> Contents]
        /\ \A x \in Leaves : val[x] = IF x = l /\ l \in Top THEN Secret(conf.val[l]) ELSE conf.val[x]
    BY <2>1 DEF StoreSecret
  <2>3. conf' = [conf EXCEPT !.todo = conf.todo \ {l}, !.val = val]
    BY <1>3
  <2> HIDE DEF val
  <2>4. /\ conf' \in Loads /\ conf'.pc = "secrets" /\ conf'.val = val /\ conf'.todo = conf.todo \ {l}
        /\ conf'.level = conf.level
    BY <1>1, <2>1, <2>2, <2>3 DEF CInv, Loads
  <2>5. Searching' /\ Reading'
    BY <1>1, <2>4 DEF CInv, Searching, FoundIsNearest, Reading
  <2>6. \A x \in Leaves : IF x \in conf.todo THEN LooksUpSecrets /\ conf.val[x] = Chosen(x) /\ Chosen(x) \in SecretForms
                          ELSE conf.val[x] = Final(x)
    BY <1>1 DEF CInv, Resolving
  <2>7. \A x \in Leaves : IF x \in conf.todo \ {l}
                          THEN LooksUpSecrets /\ val[x] = Chosen(x) /\ Chosen(x) \in SecretForms
                          ELSE val[x] = Final(x)
    BY <1>1, <2>2, <2>6 DEF Final
  <2>8. Resolving'
    BY <1>1, <2>4, <2>7 DEF Resolving, Final, Chosen, LooksUpSecrets
  <2> QED
    BY <1>1, <2>4, <2>5, <2>8 DEF CInv
<1> QED
  BY <1>2, <1>3 DEF traverse

\* The second decoding: nothing is left to resolve.
LEMMA DecodeStep ==
  ASSUME CInv, Decode
  PROVE  CInv'
<1>1. conf.pc = "secrets" /\ conf.todo = {} /\ world' = world /\ conf' = [conf EXCEPT !.pc = "done"]
  BY DEF Decode, Loading
<1>2. conf' \in Loads /\ conf'.pc = "done" /\ conf'.val = conf.val /\ conf'.level = conf.level
  BY <1>1 DEF CInv, Loads
<1>3. Searching' /\ Reading'
  BY <1>1, <1>2 DEF CInv, Searching, FoundIsNearest, Reading
<1>4. \A l \in Leaves : conf.val[l] = Final(l)
  BY <1>1 DEF CInv, Resolving
<1>5. Resolving'
  BY <1>1, <1>2, <1>4 DEF Resolving, Final, Chosen, LooksUpSecrets
<1> QED
  BY <1>1, <1>2, <1>3, <1>5 DEF CInv

\* A load starts in the current directory with the environment of the process.
LEMMA ConfigStart ==
  ASSUME ConfigInit
  PROVE  CInv
<1>1. world \in Worlds /\ conf = NewLoad
  BY DEF ConfigInit
<1>2. Depth \in Levels /\ ".env" \in Files /\ \A n \in Levels : ~(n > Depth)
  BY ConfigAssumption DEF Levels, Files
<1>3. world.os \in [Leaves -> Contents] /\ [l \in Leaves |-> "none"] \in [Leaves -> Contents]
  BY <1>1, WorldIs DEF Contents
<1>4. conf \in Loads
  BY <1>1, <1>2, <1>3 DEF NewLoad, Loads
<1>5. conf.pc = "find" /\ conf.file = ".env" /\ conf.level = Depth /\ conf.env = world.os
  BY <1>1 DEF NewLoad
<1>6. Searching /\ Reading /\ Resolving
  BY <1>2, <1>5 DEF Searching, FoundIsNearest, Reading, Resolving
<1> QED
  BY <1>1, <1>4, <1>6 DEF CInv

\* The invariant of a load.
LEMMA ConfigAlways == ConfigSpec => []CInv
<1>1. ConfigInit => CInv
  BY ConfigStart
<1>2. CInv /\ [ConfigNext]_configVars => CInv'
  <2> SUFFICES ASSUME CInv, [ConfigNext]_configVars PROVE CInv'
    OBVIOUS
  <2>1. CASE UNCHANGED configVars
    <3>1. world' = world /\ conf' = conf
      BY <2>1 DEF configVars
    <3>2. Searching'
      BY <3>1 DEF CInv, Searching, FoundIsNearest
    <3>3. Reading'
      BY <3>1 DEF CInv, Reading, Environment
    <3>4. Resolving'
      BY <3>1 DEF CInv, Resolving, Final, Chosen, LooksUpSecrets
    <3> QED
      BY <3>1, <3>2, <3>3, <3>4 DEF CInv
  <2>2. CASE StatFails \/ LoadFails
    BY <2>2, PanicStep DEF StatFails, LoadFails, Loading
  <2> QED
    BY <2>1, <2>2, FindStep, FinderStep, DotEnvStep, YamlStep, BindStep, DecodeStep, TraverseStep DEF ConfigNext
<1> QED
  BY <1>1, <1>2, PTL DEF ConfigSpec

\* loadConfig takes the nearest files, and for every leaf the process environment before
\* .env before config.yaml; no unresolved placeholder is left at the top level where
\* secrets are looked up.
THEOREM AlwaysByPrecedence == ConfigSpec => []LoadedByPrecedence
<1>1. CInv => LoadedByPrecedence
  BY DEF CInv, Searching, Resolving, Final, LoadedByPrecedence
<1> QED
  BY <1>1, ConfigAlways, PTL

-----------------------------------------------------------------------------
\* RouterMeta.  The metadata of a group, and of the nothing around the outermost one.
MetaOf(gs, g) == IF g = 0 THEN <<>> ELSE gs[g].metadata

Groups == [base : Seq(Segments), metadata : Seq(Metas), parent : Nat, own : Seq(Metas)]
Routes == [path : Seq(Segments), method : Methods, group : Nat, own : Seq(Metas)]

RouterType ==
  /\ router = [groups |-> router.groups, byPath |-> router.byPath, routes |-> router.routes,
               panicked |-> router.panicked]
  /\ router.groups \in Seq(Groups) /\ router.routes \in Seq(Routes) /\ router.panicked \in BOOLEAN

\* A group is inside an older one and has its metadata before its own.
Nesting ==
  \A g \in 1 .. Len(router.groups) :
    LET x == router.groups[g]
    IN  x.parent < g /\ x.metadata = MetaOf(router.groups, x.parent) \o x.own

Key(r) == <<r.path, r.method>>

\* The mapping has an entry for each route and no other, with the metadata of its group
\* and its own.
Mapping ==
  ~router.panicked =>
    /\ \A i \in 1 .. Len(router.routes) :
         LET r == router.routes[i]
         IN  /\ r.group \in 1 .. Len(router.groups)
             /\ Key(r) \in DOMAIN router.byPath
             /\ router.byPath[Key(r)] = MetaOf(router.groups, r.group) \o r.own
    /\ \A key \in DOMAIN router.byPath : \E i \in 1 .. Len(router.routes) : Key(router.routes[i]) = key

RInv == RouterType /\ Nesting /\ Mapping

\* Inherited meets its equation: the metadata that the groups keep does.
LEMMA InheritedIs ==
  ASSUME RInv
  PROVE  Inherited = [g \in 0 .. Len(router.groups) |->
                        IF g = 0 THEN <<>> ELSE Inherited[router.groups[g].parent] \o router.groups[g].own]
<1> DEFINE D    == 0 .. Len(router.groups)
           F(f) == [g \in D |-> IF g = 0 THEN <<>> ELSE f[router.groups[g].parent] \o router.groups[g].own]
           M    == [g \in D |-> MetaOf(router.groups, g)]
<1>1. Len(router.groups) \in Nat /\ \A g \in 1 .. Len(router.groups) : router.groups[g] \in Groups
  BY DEF RInv, RouterType
<1>2. ASSUME NEW g \in D, g # 0
      PROVE  /\ router.groups[g].parent \in D
             /\ MetaOf(router.groups, g) = MetaOf(router.groups, router.groups[g].parent) \o router.groups[g].own
  <2>1. g \in 1 .. Len(router.groups) /\ router.groups[g].parent \in Nat
    BY <1>1, <1>2 DEF Groups
  <2>2. router.groups[g].parent < g /\ router.groups[g].metadata = MetaOf(router.groups, router.groups[g].parent) \o router.groups[g].own
    BY <2>1 DEF RInv, Nesting
  <2>3. MetaOf(router.groups, g) = router.groups[g].metadata
    BY <1>2 DEF MetaOf
  <2>4. \A x, y, z \in Nat : x < y /\ y \in 0 .. z => x \in 0 .. z
    OBVIOUS
  <2> QED
    BY <1>1, <2>1, <2>2, <2>3, <2>4
<1>3. M = F(M)
  <2>1. ASSUME NEW g \in D
        PROVE  MetaOf(router.groups, g) = IF g = 0 THEN <<>> ELSE M[router.groups[g].parent] \o router.groups[g].own
    BY <1>2 DEF MetaOf
  <2> QED
    BY <2>1
<1>4. \E f : f = F(f)
  BY <1>3
<1>5. Inherited = CHOOSE f : f = F(f)
  BY DEF Inherited
<1> HIDE DEF F
<1>6. Inherited = F(Inherited)
  BY <1>4, <1>5
<1> QED
  BY <1>6 DEF F

\* A set of numbers has a least one.
LEMMA LeastOf ==
  ASSUME NEW T, T \subseteq Nat, T # {}
  PROVE  \E x \in T : \A y \in T : ~(y < x)
<1>1. IsWellFoundedOn(OpToRel(<, Nat), Nat)
  BY NatLessThanWellFounded
<1>2. PICK x \in T : \A y \in T : ~(<<y, x>> \in OpToRel(<, Nat))
  BY <1>1, WFMin
<1> QED
  BY <1>2 DEF OpToRel

\* What a group inherits is the metadata that it keeps: the least group for which it were
\* not would have a parent for which it is.
LEMMA InheritedIsKept ==
  ASSUME RInv
  PROVE  \A g \in 0 .. Len(router.groups) : Inherited[g] = MetaOf(router.groups, g)
<1> DEFINE D == 0 .. Len(router.groups)
           T == {g \in D : Inherited[g] # MetaOf(router.groups, g)}
<1>1. Len(router.groups) \in Nat /\ \A g \in 1 .. Len(router.groups) : router.groups[g] \in Groups
  BY DEF RInv, RouterType
<1>2. \A g \in D : Inherited[g] = IF g = 0 THEN <<>> ELSE Inherited[router.groups[g].parent] \o router.groups[g].own
  BY InheritedIs
<1> SUFFICES ASSUME T # {} PROVE FALSE
  OBVIOUS
<1>3. T \subseteq Nat
  BY <1>1
<1>4. PICK x \in T : \A y \in T : ~(y < x)
  BY <1>3, LeastOf
<1>5. x \in D /\ Inherited[x] # MetaOf(router.groups, x)
  BY <1>4
<1>6. x # 0
  BY <1>2, <1>5 DEF MetaOf
<1>7. x \in 1 .. Len(router.groups)
  BY <1>1, <1>5, <1>6
<1> DEFINE u == router.groups[x].parent
<1>8. u \in Nat /\ u < x /\ MetaOf(router.groups, x) = MetaOf(router.groups, u) \o router.groups[x].own
  BY <1>1, <1>6, <1>7 DEF RInv, Nesting, Groups, MetaOf
<1>9. u \in D
  BY <1>1, <1>7, <1>8
<1>10. Inherited[u] = MetaOf(router.groups, u)
  BY <1>4, <1>8, <1>9
<1> QED
  BY <1>2, <1>5, <1>6, <1>8, <1>10

\* The indices of a sequence that grows by one.
LEMMA Indices ==
  ASSUME NEW n \in Nat
  PROVE  /\ \A i \in 1 .. n : i \in Nat /\ i \in 0 .. n /\ i \in 1 .. n + 1
         /\ \A i \in 1 .. n + 1 : i = n + 1 \/ i \in 1 .. n
         /\ n + 1 \in 1 .. n + 1
OBVIOUS

\* A group inside another: the older groups and the routes are as they were.
LEMMA GroupStep ==
  ASSUME RInv, NEW g, NEW path \in Seq(Segments), NEW meta \in Seq(Metas), GroupWithMeta(g, path, meta)
  PROVE  RInv'
<1> DEFINE n  == Len(router.groups)
           x  == [base |-> router.groups[g].base \o path, metadata |-> router.groups[g].metadata \o meta,
                  parent |-> g, own |-> meta]
<1>1. /\ n \in Nat /\ g \in 1 .. n /\ router.groups \in Seq(Groups)
      /\ \A i \in 1 .. n : router.groups[i] \in Groups
  BY DEF GroupWithMeta, RInv, RouterType
<1>2. router' = [router EXCEPT !.groups = Append(router.groups, x)]
  BY DEF GroupWithMeta
<1>3. x \in Groups /\ x.parent = g /\ x.own = meta /\ x.metadata = router.groups[g].metadata \o meta
  <2>1. router.groups[g].base \in Seq(Segments) /\ router.groups[g].metadata \in Seq(Metas) /\ g \in Nat
    BY <1>1, Indices DEF Groups
  <2>2. router.groups[g].base \o path \in Seq(Segments) /\ router.groups[g].metadata \o meta \in Seq(Metas)
    BY <2>1
  <2> QED
    BY <2>1, <2>2 DEF Groups
<1> HIDE DEF x
<1>4. /\ router'.groups = Append(router.groups, x) /\ router'.routes = router.routes
      /\ router'.byPath = router.byPath /\ router'.panicked = router.panicked
      /\ router' = [groups |-> router'.groups, byPath |-> router'.byPath, routes |-> router'.routes,
                    panicked |-> router'.panicked]
  BY <1>2 DEF RInv, RouterType
<1>5. /\ router'.groups \in Seq(Groups) /\ Len(router'.groups) = n + 1 /\ router'.groups[n + 1] = x
      /\ \A i \in 1 .. n : router'.groups[i] = router.groups[i]
  BY <1>1, <1>3, <1>4
<1>6. \A i \in 0 .. n : MetaOf(router'.groups, i) = MetaOf(router.groups, i)
  BY <1>1, <1>5 DEF MetaOf
<1>7. RouterType'
  BY <1>4, <1>5 DEF RInv, RouterType
<1>8. Nesting'
  <2> SUFFICES ASSUME NEW i \in 1 .. n + 1
               PROVE  /\ router'.groups[i].parent < i
                      /\ router'.groups[i].metadata = MetaOf(router'.groups, router'.groups[i].parent) \o router'.groups[i].own
    BY <1>5 DEF Nesting
  <2>1. CASE i = n + 1
    <3>1. g \in 0 .. n /\ g < n + 1 /\ MetaOf(router.groups, g) = router.groups[g].metadata
      BY <1>1 DEF MetaOf
    <3> QED
      BY <1>3, <1>5, <1>6, <2>1, <3>1
  <2>2. CASE i \in 1 .. n
    <3>1. /\ router.groups[i].parent < i /\ router.groups[i].parent \in Nat
          /\ router.groups[i].metadata = MetaOf(router.groups, router.groups[i].parent) \o router.groups[i].own
      BY <1>1, <2>2 DEF RInv, Nesting, Groups
    <3>2. router.groups[i].parent \in 0 .. n
      BY <1>1, <2>2, <3>1
    <3> QED
      BY <1>5, <1>6, <2>2, <3>1, <3>2
  <2> QED
    BY <1>1, <2>1, <2>2, Indices
<1>9. Mapping'
  <2> SUFFICES ASSUME ~router.panicked PROVE Mapping'
    BY <1>4 DEF Mapping
  <2>1. ASSUME NEW i \in 1 .. Len(router.routes)
        PROVE  LET r == router.routes[i]
               IN  /\ r.group \in 1 .. n + 1
                   /\ Key(r) \in DOMAIN router.byPath
                   /\ router.byPath[Key(r)] = MetaOf(router'.groups, r.group) \o r.own
    <3>1. LET r == router.routes[i]
          IN  /\ r.group \in 1 .. n
              /\ Key(r) \in DOMAIN router.byPath
              /\ router.byPath[Key(r)] = MetaOf(router.groups, r.group) \o r.own
      BY <2>1 DEF RInv, Mapping
    <3>2. router.routes[i].group \in 0 .. n
      BY <1>1, <3>1, Indices
    <3> QED
      BY <1>1, <1>6, <3>1, <3>2, Indices
  <2>2. \A key \in DOMAIN router.byPath : \E i \in 1 .. Len(router.routes) : Key(router.routes[i]) = key
    BY DEF RInv, Mapping
  <2> QED
    BY <1>4, <1>5, <2>1, <2>2 DEF Mapping
<1> QED
  BY <1>7, <1>8, <1>9 DEF RInv

\* A route: a new one gets an entry with its group's metadata and its own, and one that
\* exists panics.
LEMMA RouteStep ==
  ASSUME RInv, NEW g, NEW method \in Methods, NEW path \in Seq(Segments), NEW meta \in Seq(Metas),
         HandleWithMeta(g, method, path, meta)
  PROVE  RInv'
<1> DEFINE n      == Len(router.groups)
           m      == Len(router.routes)
           full   == router.groups[g].base \o path
           r      == [path |-> full, method |-> method, group |-> g, own |-> meta]
           byPath == addMeta(g, path, method, meta)
<1>1. /\ n \in Nat /\ m \in Nat /\ g \in 1 .. n /\ router.routes \in Seq(Routes)
      /\ router.groups[g] \in Groups /\ ~router.panicked
  <2>1. g \in DOMAIN router.groups /\ ~router.panicked
    BY DEF HandleWithMeta
  <2>2. router.groups \in Seq(Groups) /\ router.routes \in Seq(Routes)
    BY DEF RInv, RouterType
  <2> QED
    BY <2>1, <2>2
<1>2. PICK exists \in BOOLEAN :
        /\ exists <=> \E i \in 1 .. m : router.routes[i].path = full /\ router.routes[i].method = method
        /\ router' = [router EXCEPT !.byPath = byPath, !.panicked = exists,
                                    !.routes = IF exists THEN router.routes ELSE Append(router.routes, r)]
  <2>1. PICK exists \in BOOLEAN :
          exists = (\E i \in DOMAIN router.routes : router.routes[i].path = full /\ router.routes[i].method = method)
    OBVIOUS
  <2>2. DOMAIN router.routes = 1 .. m
    BY <1>1
  <2>3. router' = [router EXCEPT !.byPath = byPath, !.panicked = exists,
                                 !.routes = IF exists THEN router.routes ELSE Append(router.routes, r)]
    BY <2>1 DEF HandleWithMeta
  <2> QED
    BY <2>1, <2>2, <2>3
<1>3. full \in Seq(Segments) /\ r \in Routes
  BY <1>1 DEF Groups, Routes
<1>4. r.path = full /\ r.method = method /\ r.group = g /\ r.own = meta
  OBVIOUS
<1> HIDE DEF r, byPath
<1>5. /\ router'.groups = router.groups /\ router'.byPath = byPath /\ router'.panicked = exists
      /\ router'.routes = IF exists THEN router.routes ELSE Append(router.routes, r)
      /\ router' = [groups |-> router'.groups, byPath |-> router'.byPath, routes |-> router'.routes,
                    panicked |-> router'.panicked]
  BY <1>2 DEF RInv, RouterType
<1>6. RouterType'
  BY <1>1, <1>3, <1>5 DEF RInv, RouterType
<1>7. \A i : MetaOf(router'.groups, i) = MetaOf(router.groups, i)
  BY <1>5 DEF MetaOf
<1>8. Nesting'
  BY <1>5, <1>7 DEF RInv, Nesting
<1>9. CASE exists
  <2>1. Mapping'
    BY <1>5, <1>9 DEF Mapping
  <2> QED
    BY <1>6, <1>8, <2>1 DEF RInv
<1>10. CASE ~exists
  <2> DEFINE key == <<full, method>>
  <2>1. /\ \A i \in 1 .. m : LET q == router.routes[i]
                             IN  /\ q.group \in 1 .. n
                                 /\ Key(q) \in DOMAIN router.byPath
                                 /\ router.byPath[Key(q)] = MetaOf(router.groups, q.group) \o q.own
        /\ \A k \in DOMAIN router.byPath : \E i \in 1 .. m : Key(router.routes[i]) = k
    BY <1>1 DEF RInv, Mapping
  <2>2. \A i \in 1 .. m : Key(router.routes[i]) # key
    BY <1>2, <1>10 DEF Key
  <2>3. key \notin DOMAIN router.byPath
    BY <2>1, <2>2
  <2>4. /\ DOMAIN byPath = {key} \cup DOMAIN router.byPath
        /\ byPath[key] = router.groups[g].metadata \o meta
        /\ \A k \in DOMAIN router.byPath : byPath[k] = router.byPath[k]
    <3>1. byPath = [k \in {key} \cup DOMAIN router.byPath |->
                      IF k = key THEN router.groups[g].metadata \o meta ELSE router.byPath[k]]
      BY <2>3 DEF byPath, addMeta
    <3> QED
      BY <2>3, <3>1
  <2>5. /\ Len(router'.routes) = m + 1 /\ router'.routes[m + 1] = r
        /\ \A i \in 1 .. m : router'.routes[i] = router.routes[i]
    BY <1>1, <1>3, <1>5, <1>10
  <2>6. Key(r) = key /\ MetaOf(router.groups, g) = router.groups[g].metadata
    BY <1>1, <1>4 DEF Key, MetaOf
  <2>7. ASSUME NEW i \in 1 .. m + 1
        PROVE  LET q == router'.routes[i]
               IN  /\ q.group \in 1 .. n
                   /\ Key(q) \in DOMAIN byPath
                   /\ byPath[Key(q)] = MetaOf(router.groups, q.group) \o q.own
    <3>1. CASE i = m + 1
      BY <1>1, <1>4, <2>4, <2>5, <2>6, <3>1
    <3>2. CASE i \in 1 .. m
      BY <2>1, <2>4, <2>5, <3>2
    <3> QED
      BY <1>1, <3>1, <3>2, Indices
  <2>8. ASSUME NEW k \in DOMAIN byPath
        PROVE  \E i \in 1 .. m + 1 : Key(router'.routes[i]) = k
    <3>1. CASE k = key
      BY <1>1, <2>5, <2>6, <3>1, Indices
    <3>2. CASE k \in DOMAIN router.byPath
      <4>1. PICK i \in 1 .. m : Key(router.routes[i]) = k
        BY <2>1, <3>2
      <4>2. i \in 1 .. m + 1 /\ router'.routes[i] = router.routes[i]
        BY <1>1, <2>5
      <4> QED
        BY <4>1, <4>2
    <3> QED
      BY <2>4, <3>1, <3>2
  <2>9. Mapping'
    BY <1>5, <1>7, <2>5, <2>7, <2>8 DEF Mapping
  <2> QED
    BY <1>6, <1>8, <2>9 DEF RInv
<1> QED
  BY <1>9, <1>10

\* The router starts with one group without metadata.
LEMMA RouterStart ==
  ASSUME RouterInit
  PROVE  RInv
<1> DEFINE x == NewGinRouterGroup
<1>1. x \in Groups /\ x.parent = 0 /\ x.own = <<>> /\ x.metadata = <<>>
  BY DEF NewGinRouterGroup, Groups
<1>2. router = [groups |-> <<x>>, byPath |-> <<>>, routes |-> <<>>, panicked |-> FALSE]
  BY DEF RouterInit
<1> HIDE DEF x
<1>3. /\ router.groups \in Seq(Groups) /\ Len(router.groups) = 1 /\ router.groups[1] = x
      /\ router.routes \in Seq(Routes) /\ Len(router.routes) = 0
      /\ DOMAIN router.byPath = {} /\ router.panicked = FALSE
  BY <1>1, <1>2
<1>4. RouterType
  BY <1>2, <1>3 DEF RouterType
<1>5. Nesting
  <2>1. \A g \in 1 .. 1 : g = 1
    OBVIOUS
  <2>2. MetaOf(router.groups, 0) \o <<>> = <<>>
    BY DEF MetaOf
  <2>3. SUFFICES ASSUME NEW g \in 1 .. 1
                 PROVE  /\ router.groups[g].parent < g
                        /\ router.groups[g].metadata = MetaOf(router.groups, router.groups[g].parent) \o router.groups[g].own
    BY <1>3 DEF Nesting
  <2>4. g = 1 /\ router.groups[g] = x
    BY <1>3, <2>1
  <2>5. router.groups[g].parent = 0 /\ router.groups[g].own = <<>> /\ router.groups[g].metadata = <<>>
    BY <1>1, <2>4
  <2>6. router.groups[g].parent < g
    BY <2>4, <2>5
  <2>7. router.groups[g].metadata = MetaOf(router.groups, router.groups[g].parent) \o router.groups[g].own
    BY <2>2, <2>5, Zenon
  <2> QED
    BY <2>6, <2>7
<1>6. Mapping
  BY <1>3 DEF Mapping
<1> QED
  BY <1>4, <1>5, <1>6 DEF RInv

\* The invariant of the router.
LEMMA RouterAlways == RouterSpec => []RInv
<1>1. RouterInit => RInv
  BY RouterStart
<1>2. RInv /\ [RouterNext]_router => RInv'
  <2> SUFFICES ASSUME RInv, [RouterNext]_router PROVE RInv'
    OBVIOUS
  <2>1. CASE UNCHANGED router
    BY <2>1 DEF RInv, RouterType, Nesting, Mapping
  <2>2. CASE RouterNext
    <3>1. PICK g \in 1 .. MaxGroups, path \in {<<>>} \cup {<<s>> : s \in Segments}, meta \in Meta :
            \/ \E method \in Methods : HandleWithMeta(g, method, path, meta)
            \/ GroupWithMeta(g, path, meta)
      BY <2>2 DEF RouterNext
    <3>2. path \in Seq(Segments) /\ meta \in Seq(Metas)
      <4>1. path = <<>> \/ \E s \in Segments : path = <<s>>
        OBVIOUS
      <4>2. meta = <<>> \/ \E s \in Metas : meta = <<s>>
        BY DEF Meta, NoMeta
      <4>3. /\ <<>> \in Seq(Segments) /\ \A s \in Segments : <<s>> \in Seq(Segments)
            /\ <<>> \in Seq(Metas) /\ \A s \in Metas : <<s>> \in Seq(Metas)
        OBVIOUS
      <4> QED
        BY <4>1, <4>2, <4>3, Zenon
    <3> QED
      BY <3>1, <3>2, RouteStep, GroupStep
  <2> QED
    BY <2>1, <2>2
<1> QED
  BY <1>1, <1>2, PTL DEF RouterSpec

\* However groups nest and whatever is registered before or after, GetMetaByFullPath gives a
\* route the metadata of the groups around it, outermost first, and then its own.
THEOREM MetaAlwaysFollowsGroups == RouterSpec => []MetaFollowsGroups
<1>1. ASSUME RInv PROVE MetaFollowsGroups
  <2> SUFFICES ASSUME ~router.panicked, NEW i \in DOMAIN router.routes
               PROVE  LET r == router.routes[i]
                      IN  GetMetaByFullPath(r.path, r.method) = Inherited[r.group] \o r.own
    BY DEF MetaFollowsGroups
  <2> DEFINE r == router.routes[i]
  <2>1. i \in 1 .. Len(router.routes)
    BY <1>1 DEF RInv, RouterType
  <2>2. /\ r.group \in 1 .. Len(router.groups) /\ Key(r) \in DOMAIN router.byPath
        /\ router.byPath[Key(r)] = MetaOf(router.groups, r.group) \o r.own
    BY <1>1, <2>1 DEF RInv, Mapping
  <2>3. Inherited[r.group] = MetaOf(router.groups, r.group)
    <3>1. Len(router.groups) \in Nat
      BY <1>1 DEF RInv, RouterType
    <3>2. r.group \in 0 .. Len(router.groups)
      BY <2>2, <3>1, Indices
    <3> QED
      BY <1>1, <3>2, InheritedIsKept
  <2> HIDE DEF r
  <2>4. GetMetaByFullPath(r.path, r.method) = Inherited[r.group] \o r.own
    BY <2>2, <2>3 DEF GetMetaByFullPath, Key
  <2> QED
    BY <2>4 DEF r
<1> QED
  BY <1>1, RouterAlways, PTL
=============================================================================
