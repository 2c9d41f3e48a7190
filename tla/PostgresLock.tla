---------------------------- MODULE PostgresLock ----------------------------
(* DistributedPostgresLock (distributedlock/distributedlock_postgres.go).    *)
(* The store is the row of the resource (owner None: no row yet), the        *)
(* transaction that holds its row lock or its pending insert (tx), and who   *)
(* has created the schema.  now() is the time at which a transaction began,  *)
(* so it lags behind by the age of the call.  A row is never deleted.        *)
EXTENDS DistributedLock

PostgresInit == BaseInit /\ srv = [owner |-> None, left |-> -MaxLag - 1, tx |-> None, schema |-> "absent"]

\* The end of p's transaction: its locks are freed, its schema is there or not.
Ended(p, store, committed) ==
  [store EXCEPT !.tx = IF @ = p THEN None ELSE @,
                !.schema = IF @ = p THEN IF committed THEN "done" ELSE "absent" ELSE @]

\* The row after a commit of p's transaction that has written it.
Committed(p) ==
  Ended(p, IF th[p].run.ok THEN [srv EXCEPT !.owner = p, !.left = TTL - th[p].run.age] ELSE srv, TRUE)

\* WithTx and setupDB: the schema is there, we create it, or another transaction is
\* creating it, which the database makes us wait for.
SetupDB(p) ==
  /\ At(p, "run", "try")
  /\ Goto(p, "run", IF srv.schema \in {"done", "absent"} THEN "select" ELSE "creating")
  /\ srv' = [srv EXCEPT !.schema = IF @ = "absent" THEN p ELSE @]
  /\ UNCHANGED <<lk, ctx, hctx, again, watch, late>>

\* errSchemaAlreadyInitialized when the other has committed: roll back, begin again.
SetupRace(p) ==
  /\ At(p, "run", "creating")
  /\ \/ srv.schema = "done" /\ Goto(p, "run", "select") /\ srv' = srv
     \/ srv.schema = "absent" /\ Move(p, "run", "select") /\ srv' = [srv EXCEPT !.schema = p]
  /\ UNCHANGED <<lk, ctx, hctx, again, watch, late>>

\* SELECT ... FOR UPDATE waits for the row lock and takes it, if there is a row.
SelectForUpdate(p) ==
  /\ At(p, "run", "select")
  /\ \/ srv.owner = None /\ Move(p, "run", "insert") /\ srv' = srv
     \/ /\ srv.owner # None /\ srv.tx = None
        /\ Move(p, "run", "update")
        /\ srv' = [srv EXCEPT !.tx = p]
  /\ UNCHANGED <<lk, ctx, hctx, again, watch, late>>

\* Mutant: UPDATE without looking at the expiration.
UpdateRow_Any(p) ==
  /\ At(p, "run", "update")
  /\ Answer(p, "run", "commit", TRUE)
  /\ lk' = [lk EXCEPT ![p].expiration = TTL - th[p].run.age]
  /\ UNCHANGED <<srv, ctx, hctx, again, watch, late>>

\* UPDATE ... WHERE expiration < now(); the expiration it returns is kept at once.
UpdateRow(p) ==
  /\ At(p, "run", "update")
  /\ LET expired == srv.left < -th[p].run.age
     IN  /\ Answer(p, "run", "commit", expired)
         /\ lk' = IF expired THEN [lk EXCEPT ![p].expiration = TTL - th[p].run.age] ELSE lk
  /\ UNCHANGED <<srv, ctx, hctx, again, watch, late>>

\* INSERT ... ON CONFLICT DO NOTHING, after the end of any transaction that is inserting.
InsertRow(p) ==
  /\ At(p, "run", "insert")
  /\ srv.tx = None
  /\ LET absent == srv.owner = None
     IN  /\ Answer(p, "run", "commit", absent)
         /\ srv' = IF absent THEN [srv EXCEPT !.tx = p] ELSE srv
         /\ lk' = IF absent THEN [lk EXCEPT ![p].expiration = TTL - th[p].run.age] ELSE lk
  /\ UNCHANGED <<ctx, hctx, again, watch, late>>

\* The deferred commit of TryLock; Lock returns or sleeps.
TryLockCommit(p) ==
  /\ At(p, "run", "commit")
  /\ srv' = Committed(p)
  /\ IF th[p].run.ok THEN Move(p, "run", "held") ELSE Goto(p, "run", "sleep")
  /\ UNCHANGED <<lk, ctx, hctx, again, watch, late>>

\* A statement or the commit fails, or the context is done: the transaction is rolled
\* back, or has committed and the answer is lost.  The fields keep what they have.
TryLockFails(p) ==
  /\ th[p].run.at \in {"try", "creating", "select", "update", "insert", "commit"}
  /\ Goto(p, "run", "failed")
  /\ \/ srv' = Ended(p, srv, FALSE)
     \/ At(p, "run", "commit") /\ srv' = Committed(p)
  /\ UNCHANGED <<lk, ctx, hctx, again, watch, late>>

\* Unlock: the statement begins, then waits for the row lock and is executed.
UnlockBegin(p) ==
  /\ At(p, "run", "unlock")
  /\ Goto(p, "run", "unlocking")
  /\ UNCHANGED <<srv, lk, ctx, hctx, again, watch, late>>

\* Rows of p whose expiration > now().
Mine(p, t) == srv.owner = p /\ srv.left > -th[p][t].age

UnlockUpdate(p) ==
  /\ At(p, "run", "unlocking") /\ srv.tx = None
  /\ Move(p, "run", "unlocked")
  /\ srv' = IF Mine(p, "run") THEN [srv EXCEPT !.left = -th[p].run.age] ELSE srv
  /\ UNCHANGED <<lk, ctx, hctx, again, watch, late>>

UnlockAnswer(p) ==
  /\ At(p, "run", "unlocked")
  /\ Goto(p, "run", "closed")
  /\ Forget(p)
  /\ UNCHANGED <<srv, hctx, again, watch, late>>

UnlockFails(p) ==
  /\ th[p].run.at \in {"unlocking", "unlocked"}
  /\ Goto(p, "run", "closed")
  /\ UNCHANGED <<srv, lk, ctx, hctx, again, watch, late>>

\* Extend: UPDATE ... RETURNING, which finds the row of p or none (sql.ErrNoRows).
ExtendUpdate(p) ==
  /\ At(p, "ext", "due") /\ srv.tx = None
  /\ Answer(p, "ext", "answer", Mine(p, "ext"))
  /\ srv' = IF Mine(p, "ext") THEN [srv EXCEPT !.left = TTL - th[p].ext.age] ELSE srv
  /\ UNCHANGED <<lk, ctx, hctx, again, watch, late>>

\* The expiration returned is the one the statement has set, age ticks ago by now.
ExtendAnswer(p) ==
  /\ At(p, "ext", "answer")
  /\ ExtenderGot(p, IF th[p].ext.ok THEN "extended" ELSE "lost")
  /\ lk' = [lk EXCEPT ![p].expiration = IF th[p].ext.ok THEN TTL - th[p].ext.age ELSE ZeroTime]
  /\ UNCHANGED <<srv, hctx, again, watch, late>>

ExtendFails(p) ==
  /\ At(p, "ext", "due") \/ At(p, "ext", "answer")
  /\ ExtenderGot(p, "done")
  /\ UNCHANGED <<srv, lk, hctx, again, watch, late>>

PostgresTick == Tick([srv EXCEPT !.left = Sooner(@, -MaxLag - 1)])

\* A process ends without notice: its transaction is rolled back, the row stays.
PostgresCrash(p) ==
  /\ Gone(p)
  /\ srv' = Ended(p, srv, FALSE)
  /\ UNCHANGED <<watch, late>>

PostgresStep(p) ==
  \/ SetupDB(p) \/ SetupRace(p) \/ SelectForUpdate(p) \/ UpdateRow(p) \/ InsertRow(p)
  \/ TryLockCommit(p) \/ TryLockFails(p) \/ LockSleep(p)
  \/ UnlockBegin(p) \/ UnlockUpdate(p) \/ UnlockAnswer(p) \/ UnlockFails(p)

PostgresExtender(p) == ExtendUpdate(p) \/ ExtendAnswer(p) \/ ExtendFails(p)
=============================================================================
