-------------------------------- MODULE DBTx --------------------------------
(* Transactions in a context (database/database.go): WithTx begins one, or a *)
(* sub-transaction behind a savepoint when the context has one already; a    *)
(* function closes its transaction itself ("manual"), by deferring           *)
(* DeferredCommitOrRollback ("defer"), or by deferring a closure that calls  *)
(* it ("closure", distributedlock_postgres.go).  The database is external:   *)
(* sessions, savepoints, statements and commits that may fail.               *)
EXTENDS Integers, Sequences, FiniteSets

VARIABLE d   \* txs: the DBTx values, in the order they were made; sess: the session of
             \* each root; stack: the functions that have called WithTx and not returned;
             \* ctxTx: the transaction in the request's context (0: none); durable: the
             \* writes that are committed; panicking; dead: the process has exited

Save(i)  == [kind |-> "save", tx |-> i]
Write(i) == [kind |-> "write", tx |-> i]

DBInit == d = [txs |-> <<>>, sess |-> <<>>, stack |-> <<>>, ctxTx |-> 0, durable |-> {},
               panicking |-> FALSE, dead |-> FALSE]

Top(s)       == s.stack[Len(s.stack)]
Pop(s)       == [s EXCEPT !.stack = SubSeq(@, 1, Len(@) - 1)]
IsClosed(s, i) == s.txs[i].closed
Session(s, i)  == s.sess[s.txs[i].root]

-----------------------------------------------------------------------------
\* The database: a savepoint is released with all later ones; going back to it undoes
\* what came after; both fail without it, and a failed statement aborts the session.
Has(log, i)     == \E n \in DOMAIN log : log[n] = Save(i)
Release(log, i) == SelectSeq(log, LAMBDA e : e.kind = "write" \/ e.tx < i)
BackTo(log, i)  == SubSeq(log, 1, CHOOSE n \in DOMAIN log : log[n] = Save(i))
Writes(log)     == {log[n].tx : n \in {m \in DOMAIN log : log[m].kind = "write"}}

InSession(s, i, st, log) == [s EXCEPT !.sess[s.txs[i].root] = [st |-> st, log |-> log]]
Abort(s, i) == IF Session(s, i).st = "open" THEN InSession(s, i, "aborted", Session(s, i).log) ELSE s

\* What became of transaction i, as its function was told.
Told(s, i, what) == [s EXCEPT !.txs[i].told = what]
Closed(s, i)     == [s EXCEPT !.txs[i].closed = TRUE]
Panics(s)        == [s EXCEPT !.panicking = TRUE]

\* Mutant: the error of the database's COMMIT is dropped.
Commit_NoError(s, i) ==
  LET c   == Session(s, i)
      out == Closed(s, i)
  IN  IF IsClosed(s, i) THEN {Panics(s)}
      ELSE IF s.txs[i].root # i
      THEN IF c.st = "open" /\ Has(c.log, i)
           THEN {Told(InSession(out, i, "open", Release(c.log, i)), i, "ok")}
           ELSE {Told(Abort(out, i), i, "err")}
      ELSE {Told(InSession(out, i, "ended", <<>>), i, "ok")}
           \cup IF c.st = "open"
                THEN {Told([InSession(out, i, "ended", <<>>) EXCEPT !.durable = @ \cup Writes(c.log)], i, "ok")}
                ELSE {}

\* (t *DBTx) Commit: the possible states after it, with the error told; using a closed
\* transaction, whose gorm.DB is empty, is a nil dereference.
Commit(s, i) ==
  LET c   == Session(s, i)
      out == Closed(s, i)
  IN  IF IsClosed(s, i) THEN {Panics(s)}
      ELSE IF s.txs[i].root # i
      THEN IF c.st = "open" /\ Has(c.log, i)
           THEN {Told(InSession(out, i, "open", Release(c.log, i)), i, "ok")}
           ELSE {Told(Abort(out, i), i, "err")}
      ELSE {Told(InSession(out, i, "ended", <<>>), i, "err")}
           \cup IF c.st = "open"
                THEN {Told([InSession(out, i, "ended", <<>>) EXCEPT !.durable = @ \cup Writes(c.log)], i, "ok")}
                ELSE {}

\* (t *DBTx) Rollback; the savepoint is looked for in the parent, which must be open.
Rollback(s, i) ==
  LET c   == Session(s, i)
      out == Told(Closed(s, i), i, "err")
  IN  IF IsClosed(s, i) THEN Panics(s)
      ELSE IF s.txs[i].root = i THEN InSession(out, i, "ended", <<>>)
      ELSE IF IsClosed(s, s.txs[i].root) THEN Panics(out)
      ELSE IF c.st \in {"open", "aborted"} /\ Has(c.log, i)
      THEN InSession(out, i, "open", BackTo(c.log, i))
      ELSE Abort(out, i)

\* GetDBTxFromCtx for the function on top: a transaction begun on the request's context
\* is set in place, one begun on a context derived from it is seen below only.
TxOfCtx(s) ==
  LET own == {n \in DOMAIN s.stack : s.stack[n].own # 0}
  IN  IF own = {} THEN s.ctxTx ELSE s.stack[CHOOSE n \in own : \A m \in own : m <= n].own

Enclosing(s) == {s.stack[n].tx : n \in DOMAIN s.stack} \ {i \in DOMAIN s.txs : IsClosed(s, i)}

NewTx(s, root) == [root |-> root, closed |-> FALSE, told |-> "none", wrote |-> FALSE,
                   within |-> {i \in Enclosing(s) : s.txs[i].root = root}]

\* WithTx with a transaction in the context: a savepoint, or a panic if that fails.
SubTx(s, cur, style) ==
  LET r == s.txs[cur].root
      i == Len(s.txs) + 1
  IN  IF s.sess[r].st # "open" THEN Panics(s)
      ELSE [s EXCEPT !.txs = Append(@, NewTx(s, r)),
                     !.sess = Append([@ EXCEPT ![r].log = Append(@, Save(i))], [st |-> "none", log |-> <<>>]),
                     !.stack = Append(@, [tx |-> i, style |-> style, own |-> 0])]

\* WithTx without one: Begin, whose error is only met by the first statement.
RootTx(s, style, derived, st) ==
  LET i == Len(s.txs) + 1
  IN  [s EXCEPT !.txs = Append(@, NewTx(s, i)),
                !.sess = Append(@, [st |-> st, log |-> <<>>]),
                !.stack = Append(@, [tx |-> i, style |-> style, own |-> IF derived THEN i ELSE 0]),
                !.ctxTx = IF derived THEN @ ELSE i]

\* DeferredCommitOrRollback(&err) when nothing panics.
DeferredCommitOrRollback(s, i, err) == IF err THEN {Rollback(s, i)} ELSE Commit(s, i)

-----------------------------------------------------------------------------
Running == ~d.dead /\ ~d.panicking

\* At most bound transactions are begun.
WithTx(style, derived, bound) ==
  /\ Running /\ Len(d.txs) < bound
  /\ LET cur == TxOfCtx(d)
     IN  IF cur # 0 /\ ~IsClosed(d, cur) THEN d' = SubTx(d, cur, style)
         ELSE \E st \in {"open", "failed"} : d' = RootTx(d, style, derived, st)

\* A statement of the function on top, through its own transaction or through InTx: in
\* the context's transaction or, without one, on its own and at once durable.
Exec ==
  /\ Running /\ d.stack # <<>>
  /\ LET i == Top(d).tx
     IN  /\ ~IsClosed(d, i) /\ ~d.txs[i].wrote
         /\ \/ d' = Abort(d, i)
            \/ /\ Session(d, i).st = "open"
               /\ d' = [InSession(d, i, "open", Append(Session(d, i).log, Write(i)))
                          EXCEPT !.txs[i].wrote = TRUE]

InTx ==
  /\ Running
  /\ LET cur == TxOfCtx(d)
     IN  IF cur # 0 /\ ~IsClosed(d, cur) THEN d' = Abort(d, cur)
         ELSE d' = [d EXCEPT !.durable = @ \cup {0}]

\* The function on top commits or rolls back its transaction itself.
CloseTx ==
  /\ Running /\ d.stack # <<>>
  /\ d' \in Commit(d, Top(d).tx) \cup {Rollback(d, Top(d).tx)}

\* The function on top returns, with an error or without.
Return ==
  /\ Running /\ d.stack # <<>>
  /\ IF Top(d).style = "manual" THEN d' = Pop(d)
     ELSE \E err \in BOOLEAN : \E s \in DeferredCommitOrRollback(d, Top(d).tx, err) : d' = Pop(s)

\* The function panics, and the panic passes up: a deferred DeferredCommitOrRollback
\* recovers it and exits the process; in a closure its recover() returns nil, so it
\* commits, the error being nil, while the panic goes on.
Panic == Running /\ d.stack # <<>> /\ d' = Panics(d)

UnwindTx ==
  /\ ~d.dead /\ d.panicking /\ d.stack # <<>>
  /\ CASE Top(d).style = "manual"  -> d' = Pop(d)
       [] Top(d).style = "defer"   -> d' = [d EXCEPT !.dead = TRUE, !.stack = <<>>]
       [] Top(d).style = "closure" -> \E s \in Commit(d, Top(d).tx) : d' = Pop(s)

DBNext(bound) ==
  \/ \E style \in {"manual", "defer", "closure"}, derived \in BOOLEAN : WithTx(style, derived, bound)
  \/ Exec \/ InTx \/ CloseTx \/ Return \/ Panic \/ UnwindTx

-----------------------------------------------------------------------------
\* All or nothing: a write is durable exactly if its root was reported as committed and
\* neither its transaction nor one around it was reported as failed or rolled back (one
\* left open goes with its parent), whatever statements, commits and savepoints failed
\* in between and in whatever order they were closed.
AllOrNothing ==
  \A i \in DOMAIN d.txs :
    d.txs[i].wrote =>
      (i \in d.durable <=> /\ d.txs[d.txs[i].root].told = "ok"
                          /\ \A j \in d.txs[i].within \cup {i} : d.txs[j].told # "err")
=============================================================================
