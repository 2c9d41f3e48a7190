------------------------------ MODULE DynamoDB ------------------------------
(* aws/dynamodb: builders of PartiQL statements (Insert, Get, Query, Update, *)
(* Delete) and the loops over tables.  Several goroutines use one database;  *)
(* a statement takes effect at once, or not at all, and its answer may be    *)
(* lost.  The attributes of an item other than its key are left out.         *)
EXTENDS Integers, FiniteSets, FiniteSetsExt

CONSTANTS
  Procs, Keys,              \* goroutines; primary keys
  Ranged,                   \* the keys of the model that has a range key
  Own, Prefixed, Foreign,   \* tables of this environment, others with its prefix, and the rest
  MaxCalls, MaxSends        \* bounds: builders and loops, statements of a builder

ASSUME DynamoDBAssumption == /\ IsFiniteSet(Procs) /\ Ranged \subseteq Keys
                             /\ MaxCalls \in Nat /\ MaxSends \in Nat
                             /\ Own \cap Foreign = {} /\ Prefixed \cap Foreign = {}

VARIABLES
  items,    \* the keys that have an item
  tables,   \* the tables that exist
  c,        \* the builder, or the loop over tables, of each goroutine
  ledger    \* per key, the inserts and deletes told ok, and those whose outcome is open

dynamoVars == <<items, tables, c, ledger>>

\* The statements that change an item.
Writes == {"insert", "update", "delete"}

\* Result.Err is err; done and oks count the writes that took effect and those told;
\* listed and did are the tables of a loop and those it changed.
Builder(op, keys, calls) ==
  [op |-> op, keys |-> keys, err |-> "none", pc |-> "built", set |-> FALSE, answer |-> "none",
   slice |-> {}, scan |-> FALSE, sends |-> 0, done |-> 0, oks |-> 0, listed |-> {}, did |-> {}, todo |-> {},
   calls |-> calls]

Idle == [Builder("none", {}, 0) EXCEPT !.pc = "idle"]

DynamoDBInit ==
  /\ items = {}
  /\ tables \in {Foreign \cup Prefixed, Foreign \cup Own}
  /\ c = [p \in Procs |-> Idle]
  /\ ledger = [k \in Keys |-> [insertOk |-> 0, insertOpen |-> 0, deleteOk |-> 0, deleteOpen |-> 0]]

Becomes(p, b) == c' = [c EXCEPT ![p] = b]

\* A new builder; later steps fill it in.
New(p, op, keys) == Builder(op, keys, c[p].calls + 1)
MayCall(p)       == c[p].pc = "idle" /\ MapThenSumSet(LAMBDA q : c[q].calls, Procs) < MaxCalls

-----------------------------------------------------------------------------
\* Builders.
\* Without a hash one is generated, a key nobody has; that needs the range.
Insert(p, k, hashed, range) ==
  /\ MayCall(p)
  /\ hashed \/ (k \notin items /\ \A q \in Procs : k \notin c[q].keys)
  /\ Becomes(p, [New(p, "insert", {k}) EXCEPT
                   !.err = IF ~hashed /\ k \in Ranged /\ ~range THEN "badArgument" ELSE "none"])
  /\ UNCHANGED <<items, tables, ledger>>

Delete(p, k) == MayCall(p) /\ Becomes(p, New(p, "delete", {k})) /\ UNCHANGED <<items, tables, ledger>>

\* Without a primary key, or without the range it needs, there is nothing to update.
Update(p, k, keyed, range) ==
  /\ MayCall(p)
  /\ Becomes(p, [New(p, "update", {k}) EXCEPT
                   !.err = IF ~keyed \/ (k \in Ranged /\ ~range) THEN "badArgument" ELSE "none"])
  /\ UNCHANGED <<items, tables, ledger>>

\* Set, Increment and the collections: a field set twice is an error that
\* stays.  One field stands for all.
Set(p) ==
  /\ c[p].op = "update" /\ c[p].pc = "built" /\ c[p].sends = 0
  /\ Becomes(p, IF c[p].set THEN [c[p] EXCEPT !.err = "badArgument"] ELSE [c[p] EXCEPT !.set = TRUE])
  /\ UNCHANGED <<items, tables, ledger>>

Get(p, k) == MayCall(p) /\ Becomes(p, New(p, "get", {k})) /\ UNCHANGED <<items, tables, ledger>>

\* Of a prefilled slice by its keys; of an empty one, a scan, if that was allowed.
Query(p, model, slice, allowScan) ==
  /\ MayCall(p) /\ slice \subseteq model
  /\ Becomes(p, [New(p, "query", IF slice = {} THEN model ELSE slice) EXCEPT !.slice = slice, !.scan = allowScan])
  /\ UNCHANGED <<items, tables, ledger>>

checkForScan(b) ==
  IF b.op = "query" /\ b.slice = {} /\ ~b.scan THEN [b EXCEPT !.err = "badArgument"] ELSE b

\* WithPKs: question marks in the clause, and the arguments given for them: with a range
\* key all arguments are passed as one list.
Placeholders(b) == IF b.slice \subseteq Ranged THEN 2 * Cardinality(b.slice) ELSE Cardinality(b.slice)
Arguments(b)    == IF b.slice = {} THEN 0 ELSE IF b.slice \subseteq Ranged THEN 1 ELSE Cardinality(b.slice)

-----------------------------------------------------------------------------
\* The ledger, at the time a statement is sent and when its answer is known.
Open(b) ==
  [k \in Keys |-> IF k \notin b.keys THEN ledger[k]
                  ELSE CASE b.op = "insert" -> [ledger[k] EXCEPT !.insertOpen = @ + 1]
                         [] b.op = "delete" -> [ledger[k] EXCEPT !.deleteOpen = @ + 1]
                         [] OTHER           -> ledger[k]]

Close(b, ok) ==
  LET n == IF ok THEN 1 ELSE 0
  IN  [k \in Keys |-> IF k \notin b.keys THEN ledger[k]
                      ELSE CASE b.op = "insert" -> [ledger[k] EXCEPT !.insertOpen = @ - 1, !.insertOk = @ + n]
                             [] b.op = "delete" -> [ledger[k] EXCEPT !.deleteOpen = @ - 1, !.deleteOk = @ + n]
                             [] OTHER           -> ledger[k]]

\* Execute returns the error of the builder, fails to encode the item or the parameters,
\* which stays in the builder, or sends the statement.
Execute(p) ==
  /\ c[p].pc = "built" /\ c[p].sends < MaxSends
  /\ LET b == checkForScan(c[p])
     IN  \/ b.err # "none" /\ Becomes(p, b) /\ UNCHANGED ledger
         \/ b.err = "none" /\ Becomes(p, [b EXCEPT !.err = "unknown"]) /\ UNCHANGED ledger
         \/ b.err = "none" /\ Becomes(p, [b EXCEPT !.pc = "sent", !.sends = @ + 1]) /\ ledger' = Open(b)
  /\ UNCHANGED <<items, tables>>

-----------------------------------------------------------------------------
\* The service: a statement whose arguments do not match is invalid; an insert wants no
\* item, the others that name one key want its item.
Refusal(b) ==
  CASE b.op = "query"  -> IF Placeholders(b) # Arguments(b) THEN "invalid" ELSE "none"
    [] b.op = "insert" -> IF b.keys \subseteq items THEN "refused" ELSE "none"
    [] OTHER           -> IF b.keys \subseteq items THEN "none" ELSE "refused"

Serve(p, lost) ==
  /\ c[p].pc = "sent"
  /\ LET b  == c[p]
         ok == Refusal(b) = "none"
     IN  /\ items' = IF ok /\ b.op = "insert" THEN items \cup b.keys
                     ELSE IF ok /\ b.op = "delete" THEN items \ b.keys ELSE items
         /\ Becomes(p, [b EXCEPT !.pc = "answered", !.done = IF ok /\ b.op \in Writes THEN @ + 1 ELSE @,
                                 !.answer = IF lost THEN "lost" ELSE Refusal(b)])
  /\ UNCHANGED <<tables, ledger>>

\* The statement never arrived.
Unserved(p) ==
  /\ c[p].pc = "sent"
  /\ Becomes(p, [c[p] EXCEPT !.pc = "answered", !.answer = "lost"])
  /\ UNCHANGED <<items, tables, ledger>>

-----------------------------------------------------------------------------
\* Mutant: a delete that found nothing is a success.
ResultErr_Deleted(b) ==
  CASE b.answer = "none"    -> "none"
    [] b.answer = "refused" -> CASE b.op = "insert" -> "conflict" [] b.op = "delete" -> "none" [] OTHER -> "notFound"
    [] OTHER                -> IF b.op \in {"get", "query"} THEN "none" ELSE "unknown"

\* Mutant: an error of the service is returned and not kept.
ResultErr_Returned(b) ==
  CASE b.answer = "none"    -> "none"
    [] b.answer = "refused" -> IF b.op = "insert" THEN "conflict" ELSE "notFound"
    [] OTHER                -> "none"

\* Execute goes on with the answer: its error stays in the builder, except that of a
\* Query that failed, which is only returned.
ResultErr(b) ==
  CASE b.answer = "none"    -> "none"
    [] b.answer = "refused" -> IF b.op = "insert" THEN "conflict" ELSE "notFound"
    [] OTHER                -> IF b.op \in {"get", "query"} THEN "none" ELSE "unknown"

\* The item that comes back may not fit the target.
Unread(b) == IF b.answer = "none" /\ b.op \in {"get", "query", "update"} THEN {"unknown"} ELSE {}

ExecuteAnswered(p) ==
  /\ c[p].pc = "answered"
  /\ LET b == c[p]
     IN  \E err \in {ResultErr(b)} \cup Unread(b) :
           /\ Becomes(p, [b EXCEPT !.pc = "built", !.answer = "none", !.err = err,
                                   !.oks = IF b.op \in Writes /\ b.answer # "lost" /\ err = "none" THEN @ + 1 ELSE @])
           /\ ledger' = IF b.answer = "lost" THEN ledger ELSE Close(b, err = "none")
  /\ UNCHANGED <<items, tables>>

Drop(p) ==
  /\ c[p].pc \in {"built", "told"}
  /\ Becomes(p, [Idle EXCEPT !.calls = c[p].calls])
  /\ UNCHANGED <<items, tables, ledger>>

-----------------------------------------------------------------------------
\* CreateTables goes through the models, DeleteAllTables through what ListTables found; a
\* failure is collected and the loop goes on.
ListTables == tables \cap (Own \cup Prefixed)

Loop(p, op, todo) ==
  /\ MayCall(p)
  /\ Becomes(p, [New(p, op, {}) EXCEPT !.pc = "tables", !.todo = todo, !.listed = todo])
  /\ UNCHANGED <<items, tables, ledger>>

CreateTables(p)    == Loop(p, "create", Own)
DeleteAllTables(p) == Loop(p, "deleteAll", ListTables)

\* Mutant: a later success hides an earlier failure.
OneTable_LastErr(p, t, served) ==
  /\ c[p].pc = "tables" /\ t \in c[p].todo
  /\ LET create == c[p].op = "create"
         ok     == served /\ (create = (t \notin tables))
     IN  /\ tables' = IF ~ok THEN tables ELSE IF create THEN tables \cup {t} ELSE tables \ {t}
         /\ Becomes(p, [c[p] EXCEPT !.todo = @ \ {t}, !.did = IF ok THEN @ \cup {t} ELSE @,
                                    !.err = IF ok THEN "none" ELSE "unknown"])
  /\ UNCHANGED <<items, ledger>>

\* CreateTable of one that exists, and DeleteTable of one that does not, fail.
OneTable(p, t, served) ==
  /\ c[p].pc = "tables" /\ t \in c[p].todo
  /\ LET create == c[p].op = "create"
         ok     == served /\ (create = (t \notin tables))
     IN  /\ tables' = IF ~ok THEN tables ELSE IF create THEN tables \cup {t} ELSE tables \ {t}
         /\ Becomes(p, [c[p] EXCEPT !.todo = @ \ {t}, !.did = IF ok THEN @ \cup {t} ELSE @,
                                    !.err = IF ok THEN @ ELSE "unknown"])
  /\ UNCHANGED <<items, ledger>>

TablesDone(p) ==
  /\ c[p].pc = "tables" /\ c[p].todo = {}
  /\ Becomes(p, [c[p] EXCEPT !.pc = "told"])
  /\ UNCHANGED <<items, tables, ledger>>

StatementNext ==
  \E p \in Procs :
    \/ \E k \in Keys, hashed, range \in BOOLEAN : Insert(p, k, hashed, range)
    \/ \E k \in Keys : Delete(p, k)
    \/ \E k \in Keys : Get(p, k)
    \/ \E k \in Keys, keyed, range \in BOOLEAN : Update(p, k, keyed, range)
    \/ Set(p)
    \/ \E model \in {Ranged, Keys \ Ranged}, slice \in SUBSET Keys :
         \E allowScan \in IF slice = {} THEN BOOLEAN ELSE {FALSE} :   \* by key it makes no difference
           Query(p, model, slice, allowScan)
    \/ Execute(p) \/ \E lost \in BOOLEAN : Serve(p, lost)
    \/ Unserved(p) \/ ExecuteAnswered(p) \/ Drop(p)

TableNext ==
  \E p \in Procs :
    \/ CreateTables(p) \/ DeleteAllTables(p) \/ TablesDone(p) \/ Drop(p)
    \/ \E t \in Own \cup Prefixed, served \in BOOLEAN : OneTable(p, t, served)

DynamoDBSpec == DynamoDBInit /\ [][StatementNext \/ TableNext]_dynamoVars

-----------------------------------------------------------------------------
\* What callers were told adds up: an item that is there, or was deleted, was inserted by
\* a call that succeeded or whose outcome is open, and one that was inserted is still
\* there unless some delete succeeded or is open (Execute of Insert and Delete with lost
\* answers and other goroutines in between).
ToldAddsUp ==
  \A k \in Keys :
    LET there == IF k \in items THEN 1 ELSE 0
        l     == ledger[k]
    IN  /\ there + l.deleteOk <= l.insertOk + l.insertOpen
        /\ l.insertOk <= there + l.deleteOk + l.deleteOpen

\* A builder that does not know whether its statement took effect never sends it again:
\* the error stays in Result.Err (Execute of Insert, Update and Delete).
NeverTwiceUntold ==
  \A p \in Procs : c[p].op \in Writes => c[p].done <= c[p].oks + 1

\* The loops over tables report success exactly if every table was created or deleted by
\* them, also when another goroutine works on the same tables, and DeleteAllTables never
\* touches a table without the prefix.
PartialFailureIsTold ==
  /\ Foreign \subseteq tables
  /\ \A p \in Procs : c[p].pc = "told" => ((c[p].err = "none") <=> (c[p].did = c[p].listed))
=============================================================================
