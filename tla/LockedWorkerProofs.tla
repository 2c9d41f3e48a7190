-------------------------- MODULE LockedWorkerProofs ------------------------
(* Proofs about LockedWorker, for any number of processes, any time to live  *)
(* and any delays that the assumption allows: each of the three locks        *)
(* implements a lease, a live worker context always has an extender behind   *)
(* it, and while nothing is late there is one live worker.  What the steps   *)
(* do to one process and its lease is in LockProofs.                         *)
EXTENDS LockedWorker, LockProofs

\* The inductive invariant, for the lock that was chosen.
WInv ==
  /\ backend \in {"redis", "postgres", "local"}
  /\ backend = "redis" => RedisAll
  /\ backend = "postgres" => PostgresAll
  /\ backend = "local" => LocalAll

\* The file of the local lock passes as a lease does.
FilePasses(p) ==
  \/ srv'.owner = srv.owner
  \/ srv.owner \in {None, p} /\ srv'.owner = p
  \/ /\ srv.owner = p /\ srv'.owner = None
     /\ th[p].run.at = "unlock" \/ watch[p].unlock > 0 \/ th'[p].run.at = "crashed"

-----------------------------------------------------------------------------
(* Redis.                                                                    *)

\* The parts that the lock modules share are the same in RedisLock as here.
LEMMA RedisParts ==
  ASSUME NEW p, NEW a
  PROVE  /\ Redis!ExtenderGot(p, a) => ExtenderGot(p, a)
         /\ Redis!Forget(p) => Forget(p)
         /\ Redis!LockSleep(p) => LockSleep(p)
         /\ Redis!Gone(p) => Gone(p)
  BY DEF Redis!At, At, Redis!Goto, Goto, Redis!Goroutine, Goroutine,
         Redis!ExtenderGot, ExtenderGot, Redis!Half, Half, Redis!Canceled, Canceled, Redis!Forget, Forget,
         Redis!ZeroTime, ZeroTime, Redis!LockSleep, LockSleep, Redis!Gone, Gone, Redis!NewLock, NewLock

\* LockSleep of Redis and Postgres ends with another attempt or with an error.
LEMMA SleepIs ==
  ASSUME NEW p, LockSleep(p)
  PROVE  /\ th[p].run.at = "sleep" /\ UNCHANGED <<srv, lk, ctx, hctx, again, watch, late>>
         /\ \E to \in {"try", "failed"} : th' = [th EXCEPT ![p]["run"] = Goroutine(to)]
  BY DEF LockSleep, At, Goto

\* The steps of Lock.
LEMMA RedisLocks ==
  ASSUME RedisAll, NEW p \in Procs,
         Redis!TryLockScript(p) \/ Redis!TryLockAnswer(p) \/ Redis!TryLockFails(p) \/ Redis!LockSleep(p)
  PROVE  RedisAll' /\ Passes
<1>0. again \in [Procs -> BOOLEAN] /\ (th[p].run.at \in Locking => ~again[p])
  BY DEF RedisAll, LeaseInv, Base, TypeOK, Fresh
<1>1. CASE Redis!TryLockScript(p)
  <2>1. PICK b \in BOOLEAN : b = (srv.owner = None)
    OBVIOUS
  <2>2. /\ th[p].run.at = "try" /\ th' = [th EXCEPT ![p]["run"].at = "answer", ![p]["run"].ok = b]
        /\ srv' = IF b THEN [owner |-> p, left |-> TTL] ELSE srv
        /\ UNCHANGED <<lk, ctx, hctx, again, watch, late>>
    BY <1>1, <2>1 DEF Redis!TryLockScript, Redis!At, Redis!Answer
  <2>3. b <=> srv.owner = None
    BY <2>1
  <2>4. RedisAll'
    BY <2>2, <2>3, RedisTryLock
  <2>5. Passes
    BY <2>2, <2>3, RedisPasses
  <2> QED BY <2>4, <2>5
<1>2. CASE Redis!TryLockAnswer(p)
  <2>1. th[p].run.at = "answer" /\ UNCHANGED <<srv, ctx, hctx, again, watch, late>>
    BY <1>2 DEF Redis!TryLockAnswer, Redis!At
  <2>2. ASSUME th[p].run.ok PROVE RedisAll'
    <3>1. th' = [th EXCEPT ![p]["run"].at = "held"]
      BY <1>2, <2>2 DEF Redis!TryLockAnswer, Redis!Move
    <3>2. PICK x \in {0, IF srv.owner = None THEN -1 ELSE srv.left} : lk' = [lk EXCEPT ![p].expiration = x]
      BY <1>2, <2>2 DEF Redis!TryLockAnswer, Redis!PTTL
    <3> QED BY <2>1, <2>2, <3>1, <3>2, RedisLocked
  <2>3. ASSUME ~th[p].run.ok PROVE RedisAll'
    <3>1. th' = [th EXCEPT ![p]["run"] = Goroutine("sleep")] /\ lk' = lk
      BY <1>2, <2>3 DEF Redis!TryLockAnswer, Redis!Goto, Redis!Goroutine, Goroutine
    <3> QED BY <1>0, <2>1, <3>1, RedisLeave DEF Locking
  <2>4. Passes
    BY <2>1, RedisPasses
  <2> QED BY <2>2, <2>3, <2>4
<1>3. CASE Redis!TryLockFails(p)
  <2>1. /\ th[p].run.at \in {"try", "answer"} /\ th' = [th EXCEPT ![p]["run"] = Goroutine("failed")]
        /\ UNCHANGED <<srv, lk, ctx, hctx, again, watch, late>>
    BY <1>3 DEF Redis!TryLockFails, Redis!At, Redis!Goto, Redis!Goroutine, Goroutine
  <2> QED BY <1>0, <2>1, RedisLeave, RedisPasses DEF Locking
<1>4. CASE Redis!LockSleep(p)
  <2>1. /\ th[p].run.at = "sleep" /\ UNCHANGED <<srv, lk, ctx, hctx, again, watch, late>>
        /\ \E to \in {"try", "failed"} : th' = [th EXCEPT ![p]["run"] = Goroutine(to)]
    BY <1>4, RedisParts, SleepIs
  <2> QED BY <1>0, <2>1, RedisLeave, RedisPasses DEF Locking
<1> QED BY <1>1, <1>2, <1>3, <1>4

\* The steps of Unlock.
LEMMA RedisUnlocks ==
  ASSUME RedisAll, NEW p \in Procs,
         Redis!UnlockScript(p) \/ Redis!UnlockAnswer(p) \/ Redis!UnlockFails(p)
  PROVE  RedisAll' /\ Passes
<1>1. CASE Redis!UnlockScript(p)
  <2>1. /\ th[p].run.at = "unlock" /\ th' = [th EXCEPT ![p]["run"].at = "unlocked"]
        /\ srv' = IF srv.owner = p THEN [owner |-> None, left |-> 0] ELSE srv
        /\ UNCHANGED <<lk, ctx, hctx, again, watch, late>>
    BY <1>1 DEF Redis!UnlockScript, Redis!At, Redis!Move
  <2>2. RedisAll'
    BY <2>1, RedisUnlock
  <2>3. Passes
    BY <2>1, RedisPasses
  <2> QED BY <2>2, <2>3
<1>2. CASE Redis!UnlockAnswer(p)
  <2>1. /\ th' = [th EXCEPT ![p]["run"] = Goroutine("closed")] /\ Forget(p)
        /\ UNCHANGED <<srv, hctx, again, watch, late>>
    BY <1>2, RedisParts DEF Redis!UnlockAnswer, Redis!Goto, Redis!Goroutine, Goroutine
  <2>2. LeaseInv'
    BY <2>1, UnlockedLease DEF RedisAll
  <2>3. Passes
    BY <2>1, RedisPasses
  <2> QED BY <2>1, <2>2, <2>3 DEF RedisAll, RedisStore
<1>3. CASE Redis!UnlockFails(p)
  <2>1. /\ th' = [th EXCEPT ![p]["run"] = Goroutine("closed")]
        /\ UNCHANGED <<srv, lk, ctx, hctx, again, watch, late>>
    BY <1>3 DEF Redis!UnlockFails, Redis!Goto, Redis!Goroutine, Goroutine
  <2>2. again \in [Procs -> BOOLEAN]
    BY DEF RedisAll, LeaseInv, Base, TypeOK
  <2> QED BY <2>1, <2>2, RedisLeave, RedisPasses DEF Locking
<1> QED BY <1>1, <1>2, <1>3

\* The steps of the extender.
LEMMA RedisExtends ==
  ASSUME RedisAll, NEW p \in Procs, Redis!RedisExtender(p)
  PROVE  RedisAll' /\ Passes
<1>1. CASE Redis!ExtendScript(p)
  <2>1. PICK b \in BOOLEAN : b = (srv.owner = p)
    BY Zenon
  <2>2. /\ th[p].ext.at = "due" /\ th' = [th EXCEPT ![p]["ext"].at = "answer", ![p]["ext"].ok = b]
        /\ srv' = IF b THEN [srv EXCEPT !.left = TTL] ELSE srv
        /\ UNCHANGED <<lk, ctx, hctx, again, watch, late>>
    BY <1>1, <2>1, Zenon DEF Redis!ExtendScript, Redis!At, Redis!Answer
  <2>3. b <=> srv.owner = p
    BY <2>1, Zenon
  <2>4. RedisAll'
    BY <2>2, <2>3, RedisExtend
  <2>5. Passes
    BY <2>2, <2>3, RedisPasses
  <2> QED BY <2>4, <2>5
<1>2. CASE Redis!ExtendAnswer(p)
  <2>1. th[p].ext.at = "answer" /\ UNCHANGED <<srv, hctx, again, watch, late>>
    BY <1>2 DEF Redis!ExtendAnswer, Redis!At
  <2>2. ASSUME th[p].ext.ok PROVE RedisAll'
    <3>1. ExtenderGot(p, "extended")
      BY <1>2, <2>2, RedisParts, Zenon DEF Redis!ExtendAnswer
    <3>2. PICK x \in {0, IF srv.owner = None THEN -1 ELSE srv.left} : lk' = [lk EXCEPT ![p].expiration = x]
      BY <1>2, <2>2 DEF Redis!ExtendAnswer, Redis!PTTL
    <3> QED BY <2>1, <2>2, <3>1, <3>2, RedisExtended
  <2>3. ASSUME ~th[p].ext.ok PROVE RedisAll'
    <3>1. ExtenderGot(p, "lost") /\ lk' = [lk EXCEPT ![p].expiration = ZeroTime]
      BY <1>2, <2>3, RedisParts, Zenon DEF Redis!ExtendAnswer, Redis!ZeroTime, ZeroTime
    <3>2. LeaseInv'
      BY <2>1, <3>1, LostLease DEF RedisAll
    <3> QED BY <2>1, <3>2 DEF RedisAll, RedisStore
  <2>4. Passes
    BY <2>1, RedisPasses
  <2> QED BY <2>2, <2>3, <2>4
<1>3. CASE Redis!ExtendFails(p)
  <2>1. ExtenderGot(p, "done") /\ UNCHANGED <<srv, lk, hctx, again, watch, late>>
    BY <1>3, RedisParts, Zenon DEF Redis!ExtendFails
  <2>2. LeaseInv'
    BY <2>1, LostLease DEF RedisAll
  <2>3. Passes
    BY <2>1, RedisPasses
  <2> QED BY <2>1, <2>2, <2>3 DEF RedisAll, RedisStore
<1> QED BY <1>1, <1>2, <1>3 DEF Redis!RedisExtender

\* A key stays when its process crashes, until it runs out.
LEMMA RedisRuns ==
  ASSUME RedisAll
  PROVE  /\ Redis!RedisTick => RedisAll' /\ Passes
         /\ \A p \in Procs : Redis!RedisCrash(p) => RedisAll' /\ Passes
<1>1. ASSUME Redis!RedisTick PROVE RedisAll' /\ Passes
  <2>1. Tick(IF srv.left > 1 THEN [srv EXCEPT !.left = @ - 1] ELSE [owner |-> None, left |-> 0])
    BY <1>1, Zenon DEF Redis!RedisTick, Redis!Tick, Tick, Redis!Busy, Busy, Redis!Overdue, Overdue, Redis!Idle, Idle,
                Redis!At, At, Redis!Older, Older, Redis!Sooner, Sooner
  <2>2. srv' = IF srv.left > 1 THEN [srv EXCEPT !.left = @ - 1] ELSE [owner |-> None, left |-> 0]
    BY <2>1, Zenon DEF Tick
  <2> QED BY <2>1, <2>2, RedisTicks, RedisElapses
<1>2. ASSUME NEW p \in Procs, Redis!RedisCrash(p) PROVE RedisAll' /\ Passes
  <2>1. Gone(p) /\ UNCHANGED <<srv, watch, late>>
    BY <1>2, RedisParts, Zenon DEF Redis!RedisCrash
  <2>2. LeaseInv'
    BY <2>1, CrashLease, Quiet DEF RedisAll
  <2>3. Passes
    BY <2>1, RedisPasses
  <2> QED BY <2>1, <2>2, <2>3 DEF RedisAll, RedisStore
<1> QED BY <1>1, <1>2

-----------------------------------------------------------------------------
(* Postgres.                                                                 *)

\* The parts that the lock modules share are the same in PostgresLock as here.
LEMMA PostgresParts ==
  ASSUME NEW p, NEW a
  PROVE  /\ Postgres!ExtenderGot(p, a) => ExtenderGot(p, a)
         /\ Postgres!Forget(p) => Forget(p)
         /\ Postgres!LockSleep(p) => LockSleep(p)
         /\ Postgres!Gone(p) => Gone(p)
  BY Zenon DEF Postgres!At, At, Postgres!Goto, Goto, Postgres!Goroutine, Goroutine,
         Postgres!ExtenderGot, ExtenderGot, Postgres!Half, Half, Postgres!Canceled, Canceled,
         Postgres!Forget, Forget, Postgres!ZeroTime, ZeroTime, Postgres!LockSleep, LockSleep,
         Postgres!Gone, Gone, Postgres!NewLock, NewLock

\* The end of a transaction, rolled back or committed.
LEMMA PostgresEnds ==
  ASSUME NEW p
  PROVE  /\ Postgres!Ended(p, srv, FALSE) = EndOf(p, srv, "absent")
         /\ Postgres!Committed(p) = EndOf(p, Written(p), "done")
  BY Zenon DEF Postgres!Ended, Postgres!Committed, EndOf, Written

\* The schema is set up, and the row is looked for.
LEMMA PostgresLooks ==
  ASSUME PostgresAll, NEW p \in Procs,
         Postgres!SetupDB(p) \/ Postgres!SetupRace(p) \/ Postgres!SelectForUpdate(p)
  PROVE  PostgresAll' /\ Passes
<1>1. CASE Postgres!SetupDB(p)
  <2>1. th[p].run.at = "try" /\ UNCHANGED <<lk, ctx, hctx, again, watch, late>>
    BY <1>1, Zenon DEF Postgres!SetupDB, Postgres!At
  <2>2. \E to \in {"select", "creating"} : th' = [th EXCEPT ![p]["run"] = Goroutine(to)]
    BY <1>1 DEF Postgres!SetupDB, Postgres!Goto, Postgres!Goroutine, Goroutine
  <2>3. \E m \in Procs \cup {"absent", "done"} : srv' = [srv EXCEPT !.schema = m]
    <3>1. srv.schema \in Procs \cup {"absent", "done"}
      BY DEF PostgresAll, PostgresStore, PostgresType
    <3>2. PICK m : m = IF srv.schema = "absent" THEN p ELSE srv.schema
      BY Zenon
    <3>3. srv' = [srv EXCEPT !.schema = m] /\ m \in Procs \cup {"absent", "done"}
      BY <1>1, <3>1, <3>2 DEF Postgres!SetupDB
    <3> QED BY <3>3, Zenon
  <2>4. PostgresAll'
    BY <2>1, <2>2, <2>3, PostgresSetup
  <2>5. Passes
    BY <2>3, PostgresStays, Zenon
  <2> QED BY <2>4, <2>5
<1>2. CASE Postgres!SetupRace(p)
  <2>1. th[p].run.at = "creating" /\ UNCHANGED <<lk, ctx, hctx, again, watch, late>>
    BY <1>2, Zenon DEF Postgres!SetupRace, Postgres!At
  <2>2. \/ \E to \in {"select", "creating"} : th' = [th EXCEPT ![p]["run"] = Goroutine(to)]
        \/ th' = [th EXCEPT ![p]["run"].at = "select"]
    BY <1>2, Zenon DEF Postgres!SetupRace, Postgres!Goto, Postgres!Move, Postgres!Goroutine, Goroutine
  <2>3. srv' = srv \/ \E m \in Procs \cup {"absent", "done"} : srv' = [srv EXCEPT !.schema = m]
    BY <1>2, Zenon DEF Postgres!SetupRace
  <2>4. PostgresAll'
    BY <2>1, <2>2, <2>3, PostgresSetup
  <2>5. Passes
    BY <2>3, PostgresStays, Zenon
  <2> QED BY <2>4, <2>5
<1>3. CASE Postgres!SelectForUpdate(p)
  <2>1. th[p].run.at = "select" /\ UNCHANGED <<lk, ctx, hctx, again, watch, late>>
    BY <1>3, Zenon DEF Postgres!SelectForUpdate, Postgres!At
  <2>2. \/ srv' = srv /\ th' = [th EXCEPT ![p]["run"].at = "insert"]
        \/ srv.tx = None /\ srv' = [srv EXCEPT !.tx = p] /\ th' = [th EXCEPT ![p]["run"].at = "update"]
    BY <1>3, Zenon DEF Postgres!SelectForUpdate, Postgres!Move
  <2>3. PostgresAll'
    BY <2>1, <2>2, PostgresSelect
  <2>4. Passes
    BY <2>2, PostgresStays, Zenon
  <2> QED BY <2>3, <2>4
<1> QED BY <1>1, <1>2, <1>3

\* The row is written, and the transaction ends.
LEMMA PostgresWrites ==
  ASSUME PostgresAll, NEW p \in Procs,
         \/ Postgres!UpdateRow(p) \/ Postgres!InsertRow(p) \/ Postgres!TryLockCommit(p)
         \/ Postgres!TryLockFails(p) \/ Postgres!LockSleep(p)
  PROVE  PostgresAll' /\ Passes
<1>1. CASE Postgres!UpdateRow(p)
  <2>1. PICK b \in BOOLEAN : b = (srv.left < -th[p].run.age)
    <3>1. srv.left \in Int /\ -th[p].run.age \in Int
      BY Fields DEF PostgresAll, LeaseInv, Base
    <3>2. (srv.left < -th[p].run.age) \in BOOLEAN
      BY <3>1
    <3> QED BY <3>2, Zenon
  <2>2. /\ th[p].run.at = "update" /\ th' = [th EXCEPT ![p]["run"].at = "commit", ![p]["run"].ok = b]
        /\ lk' = IF b THEN [lk EXCEPT ![p].expiration = TTL - th[p].run.age] ELSE lk
        /\ UNCHANGED <<srv, ctx, hctx, again, watch, late>>
    BY <1>1, <2>1, Zenon DEF Postgres!UpdateRow, Postgres!At, Postgres!Answer
  <2>3. b => srv.left < -th[p].run.age
    BY <2>1, Zenon
  <2>4. PostgresAll'
    BY <2>2, <2>3, PostgresWrite
  <2>5. Passes
    BY <2>2, PostgresStays, Zenon
  <2> QED BY <2>4, <2>5
<1>2. CASE Postgres!InsertRow(p)
  <2>1. PICK b \in BOOLEAN : b = (srv.owner = None)
    BY Zenon
  <2>2. /\ th[p].run.at = "insert" /\ th' = [th EXCEPT ![p]["run"].at = "commit", ![p]["run"].ok = b]
        /\ lk' = IF b THEN [lk EXCEPT ![p].expiration = TTL - th[p].run.age] ELSE lk
        /\ srv.tx = None /\ srv' = IF b THEN [srv EXCEPT !.tx = p] ELSE srv
        /\ UNCHANGED <<ctx, hctx, again, watch, late>>
    BY <1>2, <2>1, Zenon DEF Postgres!InsertRow, Postgres!At, Postgres!Answer
  <2>3. b => srv.owner = None
    BY <2>1, Zenon
  <2>4. PostgresAll'
    BY <2>2, <2>3, PostgresWrite
  <2>5. srv' = srv \/ srv' = [srv EXCEPT !.tx = p]
    BY <2>2, Zenon
  <2>6. Passes
    BY <2>5, PostgresStays, Zenon
  <2> QED BY <2>4, <2>6
<1>3. CASE Postgres!TryLockCommit(p)
  <2>1. /\ th[p].run.at = "commit" /\ srv' = EndOf(p, Written(p), "done")
        /\ IF th[p].run.ok THEN th' = [th EXCEPT ![p]["run"].at = "held"]
                           ELSE th' = [th EXCEPT ![p]["run"] = Goroutine("sleep")]
        /\ UNCHANGED <<lk, ctx, hctx, again, watch, late>>
    BY <1>3, PostgresEnds, Zenon
       DEF Postgres!TryLockCommit, Postgres!At, Postgres!Move, Postgres!Goto, Postgres!Goroutine, Goroutine
  <2>2. PostgresAll'
    BY <2>1, PostgresCommit, Zenon
  <2>3. Passes
    BY <2>1, PostgresAcquires, Zenon
  <2> QED BY <2>2, <2>3
<1>4. CASE Postgres!TryLockFails(p)
  <2>1. /\ th[p].run.at \in {"try", "creating", "select", "update", "insert", "commit"}
        /\ th' = [th EXCEPT ![p]["run"] = Goroutine("failed")] /\ UNCHANGED <<lk, ctx, hctx, again, watch, late>>
        /\ \/ srv' = EndOf(p, srv, "absent")
           \/ th[p].run.at = "commit" /\ srv' = EndOf(p, Written(p), "done")
    BY <1>4, PostgresEnds, Zenon DEF Postgres!TryLockFails, Postgres!At, Postgres!Goto, Postgres!Goroutine, Goroutine
  <2>2. PostgresAll'
    BY <2>1, PostgresFails, Zenon
  <2>3. Passes
    BY <2>1, PostgresStays, PostgresAcquires, Zenon
  <2> QED BY <2>2, <2>3
<1>5. CASE Postgres!LockSleep(p)
  <2>1. /\ th[p].run.at = "sleep" /\ UNCHANGED <<srv, lk, ctx, hctx, again, watch, late>>
        /\ \E to \in {"try", "failed"} : th' = [th EXCEPT ![p]["run"] = Goroutine(to)]
    BY <1>5, PostgresParts, SleepIs, Zenon
  <2>2. again \in [Procs -> BOOLEAN] /\ ~again[p]
    BY <2>1 DEF PostgresAll, LeaseInv, Base, TypeOK, Fresh, Locking
  <2>3. PostgresAll'
    BY <2>1, <2>2, PostgresLeave DEF Locking
  <2>4. Passes
    BY <2>1, PostgresStays, Zenon
  <2> QED BY <2>3, <2>4
<1> QED BY <1>1, <1>2, <1>3, <1>4, <1>5

\* The steps of Unlock.
LEMMA PostgresUnlocks ==
  ASSUME PostgresAll, NEW p \in Procs,
         \/ Postgres!UnlockBegin(p) \/ Postgres!UnlockUpdate(p)
         \/ Postgres!UnlockAnswer(p) \/ Postgres!UnlockFails(p)
  PROVE  PostgresAll' /\ Passes
<1>1. CASE Postgres!UnlockBegin(p)
  <2>1. /\ th[p].run.at = "unlock" /\ th' = [th EXCEPT ![p]["run"] = Goroutine("unlocking")]
        /\ UNCHANGED <<srv, lk, ctx, hctx, again, watch, late>>
    BY <1>1, Zenon DEF Postgres!UnlockBegin, Postgres!At, Postgres!Goto, Postgres!Goroutine, Goroutine
  <2> QED BY <2>1, PostgresUnlockBegin, PostgresStays, Zenon
<1>2. CASE Postgres!UnlockUpdate(p)
  <2>1. /\ th[p].run.at = "unlocking" /\ srv.tx = None /\ th' = [th EXCEPT ![p]["run"].at = "unlocked"]
        /\ srv' = IF srv.owner = p /\ srv.left > -th[p].run.age THEN [srv EXCEPT !.left = -th[p].run.age] ELSE srv
        /\ UNCHANGED <<lk, ctx, hctx, again, watch, late>>
    BY <1>2, Zenon DEF Postgres!UnlockUpdate, Postgres!At, Postgres!Move, Postgres!Mine
  <2> QED BY <2>1, PostgresUnlock, PostgresReleases, Zenon
<1>3. CASE Postgres!UnlockAnswer(p)
  <2>1. /\ th' = [th EXCEPT ![p]["run"] = Goroutine("closed")] /\ Forget(p)
        /\ UNCHANGED <<srv, hctx, again, watch, late>>
    BY <1>3, PostgresParts, Zenon DEF Postgres!UnlockAnswer, Postgres!Goto, Postgres!Goroutine, Goroutine
  <2> QED BY <2>1, PostgresUnlocked, PostgresStays, Zenon
<1>4. CASE Postgres!UnlockFails(p)
  <2>1. /\ th' = [th EXCEPT ![p]["run"] = Goroutine("closed")]
        /\ UNCHANGED <<srv, lk, ctx, hctx, again, watch, late>>
    BY <1>4, Zenon DEF Postgres!UnlockFails, Postgres!Goto, Postgres!Goroutine, Goroutine
  <2>2. again \in [Procs -> BOOLEAN]
    BY Zenon DEF PostgresAll, LeaseInv, Base, TypeOK
  <2>3. PostgresAll'
    BY <2>1, <2>2, PostgresLeave DEF Locking
  <2> QED BY <2>1, <2>3, PostgresStays, Zenon
<1> QED BY <1>1, <1>2, <1>3, <1>4

\* The steps of the extender.
LEMMA PostgresExtenders ==
  ASSUME PostgresAll, NEW p \in Procs, Postgres!PostgresExtender(p)
  PROVE  PostgresAll' /\ Passes
<1>1. CASE Postgres!ExtendUpdate(p)
  <2>1. PICK b \in BOOLEAN : b = Postgres!Mine(p, "ext")
    BY Zenon DEF Postgres!Mine
  <2>2. /\ th[p].ext.at = "due" /\ srv.tx = None
        /\ th' = [th EXCEPT ![p]["ext"].at = "answer", ![p]["ext"].ok = b]
        /\ srv' = IF b THEN [srv EXCEPT !.left = TTL - th[p].ext.age] ELSE srv
        /\ UNCHANGED <<lk, ctx, hctx, again, watch, late>>
    BY <1>1, <2>1, Zenon DEF Postgres!ExtendUpdate, Postgres!At, Postgres!Answer
  <2>3. b <=> srv.owner = p /\ srv.left > -th[p].ext.age
    BY <2>1, Zenon DEF Postgres!Mine
  <2>4. PostgresAll'
    BY <2>2, <2>3, PostgresExtend, Zenon
  <2>5. Passes
    BY <2>2, <2>3, PostgresExtends, Zenon
  <2> QED BY <2>4, <2>5
<1>2. CASE Postgres!ExtendAnswer(p)
  <2>1. PICK b \in BOOLEAN : b = th[p].ext.ok
    BY Fields, Zenon DEF PostgresAll, LeaseInv, Base
  <2>2. /\ th[p].ext.at = "answer" /\ ExtenderGot(p, IF b THEN "extended" ELSE "lost")
        /\ lk' = [lk EXCEPT ![p].expiration = IF b THEN TTL - th[p].ext.age ELSE ZeroTime]
        /\ UNCHANGED <<srv, hctx, again, watch, late>>
    BY <1>2, <2>1, PostgresParts, Zenon DEF Postgres!ExtendAnswer, Postgres!At, Postgres!ZeroTime, ZeroTime
  <2> QED BY <2>1, <2>2, PostgresExtended, PostgresStays, Zenon
<1>3. CASE Postgres!ExtendFails(p)
  <2>1. ExtenderGot(p, "done") /\ UNCHANGED <<srv, lk, hctx, again, watch, late>>
    BY <1>3, PostgresParts, Zenon DEF Postgres!ExtendFails
  <2>2. LeaseInv' /\ ExtIs(p, Goroutine("off"))
    BY <2>1, LostLease, Zenon DEF PostgresAll
  <2>3. PostgresAll'
    BY <2>1, <2>2, PostgresBeside, Zenon DEF ExtIs
  <2> QED BY <2>1, <2>3, PostgresStays, Zenon
<1> QED BY <1>1, <1>2, <1>3 DEF Postgres!PostgresExtender

\* A row stays when its process crashes, and expires with time.
LEMMA PostgresRuns ==
  ASSUME PostgresAll
  PROVE  /\ Postgres!PostgresTick => PostgresAll' /\ Passes
         /\ \A p \in Procs : Postgres!PostgresCrash(p) => PostgresAll' /\ Passes
<1>1. ASSUME Postgres!PostgresTick PROVE PostgresAll' /\ Passes
  <2>1. Tick([srv EXCEPT !.left = Sooner(@, -MaxLag - 1)])
    BY <1>1, Zenon DEF Postgres!PostgresTick, Postgres!Tick, Tick, Postgres!Busy, Busy, Postgres!Overdue, Overdue,
                Postgres!Idle, Idle, Postgres!At, At, Postgres!Older, Older, Postgres!Sooner, Sooner
  <2>2. srv' = [srv EXCEPT !.left = Sooner(@, -MaxLag - 1)]
    BY <2>1, Zenon DEF Tick
  <2> QED BY <2>1, <2>2, PostgresTicks, PostgresElapses, Zenon
<1>2. ASSUME NEW p \in Procs, Postgres!PostgresCrash(p) PROVE PostgresAll' /\ Passes
  <2>1. Gone(p) /\ srv' = EndOf(p, srv, "absent") /\ UNCHANGED <<watch, late>>
    BY <1>2, PostgresParts, PostgresEnds, Zenon DEF Postgres!PostgresCrash
  <2> QED BY <2>1, PostgresCrashes, PostgresStays, Zenon
<1> QED BY <1>1, <1>2

-----------------------------------------------------------------------------
(* The local lock.                                                           *)

\* The parts that the lock modules share are the same in LocalLock as here.
LEMMA LocalParts ==
  ASSUME NEW p, NEW a
  PROVE  /\ Local!ExtenderGot(p, a) => ExtenderGot(p, a)
         /\ Local!Forget(p) => Forget(p)
         /\ Local!LockSleep(p) => LockSleep(p)
         /\ Local!Gone(p) => Gone(p)
  BY Zenon DEF Local!At, At, Local!Goto, Goto, Local!Goroutine, Goroutine,
         Local!ExtenderGot, ExtenderGot, Local!Half, Half, Local!Canceled, Canceled,
         Local!Forget, Forget, Local!ZeroTime, ZeroTime, Local!LockSleep, LockSleep,
         Local!Gone, Gone, Local!NewLock, NewLock

\* doLock takes a file that is free or p's own.
LEMMA LocalDoes ==
  ASSUME LocalAll, NEW p \in Procs, th[p].run.at \in {"try", "flock"}, srv.owner \in {None, p},
         Local!doLock(p), UNCHANGED <<ctx, hctx, again, late>>
  PROVE  LocalAll' /\ FilePasses(p)
<1>1. /\ srv' = [owner |-> p]
      /\ lk' = [lk EXCEPT ![p].expiration = TTL, ![p].locked = TRUE, ![p].mu = "free"]
      /\ Moves(p, "off", "check") /\ th' = [th EXCEPT ![p]["run"] = Goroutine("held")]
  BY Zenon DEF Local!doLock, Local!watcher, Moves, Local!Goto, Local!Goroutine, Goroutine
<1>2. LocalAll'
  BY <1>1, DoLockStep, Zenon
<1>3. srv'.owner = p
  BY <1>1
<1> QED BY <1>2, <1>3, Zenon DEF FilePasses

\* The steps of the caller.
LEMMA LocalSteps ==
  ASSUME LocalAll, NEW p \in Procs, Local!LocalStep(p)
  PROVE  LocalAll' /\ FilePasses(p)
<1>1. CASE Local!LockBegin(p)
  <2>1. /\ th[p].run.at = "try" /\ lk' = [lk EXCEPT ![p].mu = "Lock"]
        /\ th' = [th EXCEPT ![p]["run"] = Goroutine("flock")] /\ UNCHANGED <<srv, ctx, hctx, again, watch, late>>
    BY <1>1, Zenon DEF Local!LockBegin, Local!At, Local!Goto, Local!Goroutine, Goroutine
  <2> QED BY <2>1, LockBeginStep, Zenon DEF FilePasses
<1>2. CASE Local!LockFile(p)
  <2>1. /\ th[p].run.at = "flock" /\ srv.owner \in {None, p}
        /\ Local!doLock(p) /\ UNCHANGED <<ctx, hctx, again, late>>
    BY <1>2, Zenon DEF Local!LockFile, Local!At
  <2> QED BY <2>1, LocalDoes, Zenon
<1>3. CASE Local!LockFails(p)
  <2>1. /\ th[p].run.at \in {"flock", "try"} /\ lk' = [lk EXCEPT ![p].mu = "free"]
        /\ th' = [th EXCEPT ![p]["run"] = Goroutine("failed")] /\ UNCHANGED <<srv, ctx, hctx, again, watch, late>>
    BY <1>3, Zenon DEF Local!LockFails, Local!At, Local!Goto, Local!Goroutine, Goroutine
  <2> QED BY <2>1, LocalFailsStep, Zenon DEF FilePasses
<1>4. CASE Local!TryLock(p)
  <2>1. th[p].run.at = "try" /\ UNCHANGED <<ctx, hctx, again, late>>
    BY <1>4, Zenon DEF Local!TryLock, Local!At
  <2>2. \/ srv.owner \in {None, p} /\ Local!doLock(p)
        \/ th' = [th EXCEPT ![p]["run"] = Goroutine("sleep")] /\ UNCHANGED <<srv, lk, watch>>
    BY <1>4, Zenon DEF Local!TryLock, Local!Goto, Local!Goroutine, Goroutine
  <2>3. CASE srv.owner \in {None, p} /\ Local!doLock(p)
    BY <2>1, <2>3, LocalDoes, Zenon
  <2>4. CASE th' = [th EXCEPT ![p]["run"] = Goroutine("sleep")] /\ UNCHANGED <<srv, lk, watch>>
    BY <2>1, <2>4, LocalFailsStep, Zenon DEF FilePasses
  <2> QED BY <2>2, <2>3, <2>4
<1>5. CASE Local!LockSleep(p)
  <2>1. /\ th[p].run.at = "sleep" /\ UNCHANGED <<srv, lk, ctx, hctx, again, watch, late>>
        /\ \E to \in {"try", "failed"} : th' = [th EXCEPT ![p]["run"] = Goroutine(to)]
    BY <1>5, LocalParts, SleepIs, Zenon
  <2> QED BY <2>1, LocalFailsStep, Zenon DEF FilePasses
<1>6. CASE Local!Unlock(p)
  <2>1. /\ th[p].run.at = "unlock" /\ Forget(p)
        /\ srv' = [owner |-> IF srv.owner = p THEN None ELSE srv.owner]
        /\ th' = [th EXCEPT ![p]["run"] = Goroutine("closed")] /\ UNCHANGED <<hctx, again, watch, late>>
    BY <1>6, LocalParts, Zenon DEF Local!Unlock, Local!unlock, Local!At, Local!Goto, Local!Goroutine, Goroutine
  <2>2. LocalAll'
    BY <2>1, UnlockStep, Zenon
  <2>3. srv'.owner = IF srv.owner = p THEN None ELSE srv.owner
    BY <2>1
  <2> QED BY <2>1, <2>2, <2>3, Zenon DEF FilePasses
<1> QED BY <1>1, <1>2, <1>3, <1>4, <1>5, <1>6 DEF Local!LocalStep

\* The steps of the extender and of the expiry goroutines.
LEMMA LocalExtenders ==
  ASSUME LocalAll, NEW p \in Procs, Local!Extend(p) \/ Local!LocalWatch(p)
  PROVE  LocalAll' /\ FilePasses(p)
<1>1. CASE Local!Extend(p)
  <2>1. PICK b \in BOOLEAN : b <=> lk[p].locked /\ lk[p].expiration >= 0
    BY Zenon
  <2>2. /\ th[p].ext.at = "due" /\ ExtenderGot(p, IF b THEN "extended" ELSE "lost")
        /\ lk' = IF b THEN [lk EXCEPT ![p].expiration = TTL] ELSE lk
        /\ UNCHANGED <<srv, hctx, again, watch, late>>
    BY <1>1, <2>1, LocalParts, Zenon DEF Local!Extend, Local!At
  <2>3. LocalAll'
    BY <2>1, <2>2, LocalExtendStep, Zenon
  <2> QED BY <2>2, <2>3, Zenon DEF FilePasses
<1>2. CASE Local!WatchLocked(p)
  <2>1. PICK to \in {"read", "off"} : watch[p]["check"] > 0 /\ Moves(p, "check", to)
    BY <1>2 DEF Local!WatchLocked, Local!watcher, Moves
  <2>2. UNCHANGED <<srv, lk, th, ctx, hctx, again, late>>
    BY <1>2, Zenon DEF Local!WatchLocked
  <2>3. to \in Fields4 /\ "check" \in {"check", "read"} /\ "check" # to /\ to # "unlock"
    BY DEF Fields4
  <2>4. LocalAll'
    BY <2>1, <2>2, <2>3, WatchStep, Zenon
  <2> QED BY <2>2, <2>4, Zenon DEF FilePasses
<1>3. CASE Local!WatchExpired(p)
  <2>1. PICK to \in {"check", "unlock"} : /\ watch[p]["read"] > 0 /\ Moves(p, "read", to)
                                          /\ to = "unlock" => ~(lk[p].expiration > 0)
    <3>1. CASE lk[p].expiration > 0
      BY <1>3, <3>1, Zenon DEF Local!WatchExpired, Local!watcher, Moves
    <3>2. CASE ~(lk[p].expiration > 0)
      BY <1>3, <3>2, Zenon DEF Local!WatchExpired, Local!watcher, Moves
    <3> QED BY <3>1, <3>2, Zenon
  <2>2. UNCHANGED <<srv, lk, th, ctx, hctx, again, late>>
    BY <1>3, Zenon DEF Local!WatchExpired
  <2>3. to \in Fields4 /\ "read" \in {"check", "read"} /\ "read" # to
    BY DEF Fields4
  <2>4. LocalAll'
    BY <2>1, <2>2, <2>3, WatchStep, Zenon
  <2> QED BY <2>2, <2>4, Zenon DEF FilePasses
<1>4. CASE Local!WatchUnlock(p)
  <2>1. /\ Forget(p) /\ srv' = [owner |-> IF srv.owner = p THEN None ELSE srv.owner]
        /\ watch[p].unlock > 0 /\ Moves(p, "unlock", "check") /\ UNCHANGED <<th, hctx, again, late>>
    BY <1>4, LocalParts, Zenon DEF Local!WatchUnlock, Local!watcher, Local!unlock, Moves
  <2>2. LocalAll'
    BY <2>1, WatchUnlockStep, Zenon
  <2>3. srv'.owner = IF srv.owner = p THEN None ELSE srv.owner
    BY <2>1
  <2> QED BY <2>1, <2>2, <2>3, Zenon DEF FilePasses
<1> QED BY <1>1, <1>2, <1>3, <1>4 DEF Local!LocalWatch

\* The file is kept while time passes, and released when its process crashes.
LEMMA LocalRuns ==
  ASSUME LocalAll
  PROVE  /\ Local!LocalTick => LocalAll' /\ srv' = srv
         /\ \A p \in Procs : Local!LocalCrash(p) => LocalAll' /\ FilePasses(p)
<1>1. ASSUME Local!LocalTick PROVE LocalAll' /\ srv' = srv
  <2>1. Tick(srv)
    BY <1>1, Zenon DEF Local!LocalTick, Local!Tick, Tick, Local!Busy, Busy, Local!Overdue, Overdue,
                Local!Idle, Idle, Local!At, At, Local!Older, Older, Local!Sooner, Sooner
  <2>2. srv' = srv
    BY <2>1, Zenon DEF Tick
  <2> QED BY <2>1, <2>2, LocalTicks, Zenon
<1>2. ASSUME NEW p \in Procs, Local!LocalCrash(p) PROVE LocalAll' /\ FilePasses(p)
  <2>1. /\ Gone(p) /\ srv' = [owner |-> IF srv.owner = p THEN None ELSE srv.owner]
        /\ watch' = [watch EXCEPT ![p] = NoWatchers] /\ late' = late
    BY <1>2, LocalParts, Zenon DEF Local!LocalCrash, Local!NoWatchers, NoWatchers
  <2>2. LocalAll' /\ th'[p].run.at = "crashed"
    BY <2>1, LocalCrashes, Zenon
  <2>3. srv'.owner = IF srv.owner = p THEN None ELSE srv.owner
    BY <2>1
  <2> QED BY <2>2, <2>3, Zenon DEF FilePasses
<1> QED BY <1>1, <1>2

-----------------------------------------------------------------------------
(* What is the same over the three locks.                                    *)

\* What the invariant says of any lock.
LEMMA AnyLock ==
  ASSUME WInv
  PROVE  /\ Base /\ (backend # "local" => LeaseInv /\ srv.left <= TTL) /\ (backend = "local" => LocalInv)
<1>1. CASE backend = "redis"
  <2>1. RedisAll
    BY <1>1, Zenon DEF WInv
  <2>2. LeaseInv /\ Base /\ srv.left \in 0 .. TTL
    BY <2>1 DEF RedisAll, RedisStore, LeaseInv
  <2> QED BY <1>1, <2>2, HalfTTL
<1>2. CASE backend = "postgres"
  <2>1. PostgresAll
    BY <1>2, Zenon DEF WInv
  <2> QED BY <1>2, <2>1, Zenon DEF PostgresAll, PostgresStore, LeaseInv
<1>3. CASE backend = "local"
  BY <1>3, Zenon DEF WInv, LocalAll, LocalInv
<1> QED BY <1>1, <1>2, <1>3, Zenon DEF WInv

\* A step that leaves the store and what the lock object says of it as they were.
LEMMA Beside ==
  ASSUME WInv, backend' = backend, NEW p \in Procs, Apart(p), srv' = srv,
         th'[p].run = th[p].run \/ th'[p].run.at \notin {"update", "commit"},
         lk'[p].locked = lk[p].locked, lk'[p].expiration = lk[p].expiration,
         backend # "local" => LeaseInv', backend = "local" => LocalInv'
  PROVE  WInv'
<1>1. Others(p) /\ \A q \in Procs \ {p} : lk'[q] = lk[q]
  BY Zenon DEF Apart
<1>2. CASE backend = "redis"
  <2>1. RedisAll /\ LeaseInv'
    BY <1>2 DEF WInv
  <2>2. RedisAll'
    BY <2>1 DEF RedisAll, RedisStore
  <2> QED BY <1>2, <2>2 DEF WInv
<1>3. CASE backend = "postgres"
  <2>1. PostgresAll /\ LeaseInv'
    BY <1>3 DEF WInv
  <2>2. PostgresAll'
    BY <1>1, <2>1, PostgresBeside, Zenon
  <2> QED BY <1>3, <2>2 DEF WInv
<1>4. CASE backend = "local"
  <2>1. LocalAll /\ LocalInv'
    BY <1>4 DEF WInv
  <2>2. LocalAll'
    BY <1>1, <2>1, LocalBeside, Zenon
  <2> QED BY <1>4, <2>2 DEF WInv
<1> QED BY <1>2, <1>3, <1>4 DEF WInv

\* AutoExtend, and the extender's select.
LEMMA ExtenderBeside ==
  ASSUME WInv, backend' = backend, NEW p \in Procs, AutoExtend(p) \/ AutoExtendSpawn(p) \/ ExtenderSelect(p)
  PROVE  WInv' /\ srv' = srv
<1>1. CASE AutoExtend(p)
  <2>1. /\ Apart(p) /\ UNCHANGED <<srv, lk>> /\ th'[p].run.at \in {"derive", "unlock"}
    BY <1>1, AnyLock, AutoExtendIs
  <2>2. (backend # "local" => LeaseInv') /\ (backend = "local" => LocalInv')
    BY <1>1, AnyLock, AutoExtendLease, AutoExtendLocal, Zenon
  <2> QED BY <2>1, <2>2, Beside
<1>2. CASE AutoExtendSpawn(p)
  <2>1. /\ Apart(p) /\ srv' = srv /\ th'[p].run.at = "work"
        /\ lk'[p].locked = lk[p].locked /\ lk'[p].expiration = lk[p].expiration
    BY <1>2, AnyLock, SpawnIs
  <2>2. (backend # "local" => LeaseInv') /\ (backend = "local" => LocalInv')
    BY <1>2, AnyLock, SpawnLease, SpawnLocal, Zenon
  <2> QED BY <2>1, <2>2, Beside
<1>3. CASE ExtenderSelect(p)
  <2>1. Apart(p) /\ UNCHANGED <<srv, lk>> /\ th'[p].run = th[p].run
    BY <1>3, AnyLock, SelectIs
  <2>2. (backend # "local" => LeaseInv') /\ (backend = "local" => LocalInv')
    BY <1>3, AnyLock, SelectLease, SelectLocal, Zenon
  <2> QED BY <2>1, <2>2, Beside
<1> QED BY <1>1, <1>2, <1>3

\* The handler is stopped.
LEMMA StopBeside ==
  ASSUME WInv, backend' = backend, NEW p \in Procs, Stop(p)
  PROVE  WInv' /\ srv' = srv
<1>1. /\ hctx' = [hctx EXCEPT ![p] = "done"] /\ ctx' = Canceled(p, "done")
      /\ UNCHANGED <<srv, lk, th, again, watch, late>>
  BY Zenon DEF Stop
<1>2. Apart(p)
  BY <1>1, AnyLock, StopIs, Zenon
<1>3. (backend # "local" => LeaseInv') /\ (backend = "local" => LocalInv')
  BY <1>1, AnyLock, StopLease, StopLocal, Zenon
<1> QED BY <1>1, <1>2, <1>3, Beside

\* The worker returns, or the closure does.
LEMMA ReturnsBeside ==
  ASSUME WInv, backend' = backend, NEW p \in Procs, WorkerReturns(p) \/ ClosureReturns(p)
  PROVE  WInv' /\ srv' = srv
<1>1. again \in [Procs -> BOOLEAN]
  BY AnyLock, Zenon DEF Base, TypeOK
<1>2. /\ UNCHANGED <<srv, lk, ctx, hctx, watch, late>>
      /\ again' \in [Procs -> BOOLEAN] /\ \A q \in Procs \ {p} : again'[q] = again[q]
      /\ again'[p] => again[p] \/ ctx[p] = "lost"
  <2>1. CASE WorkerReturns(p)
    BY <1>1, <2>1 DEF WorkerReturns
  <2>2. CASE ClosureReturns(p)
    BY <1>1, <2>2 DEF ClosureReturns
  <2> QED BY <2>1, <2>2
<1>3. PICK to \in {"try", "unlock", "done"} :
        /\ th' = [th EXCEPT ![p]["run"] = Goroutine(to)]
        /\ \/ th[p].run.at = "work" /\ to = "unlock"
           \/ th[p].run.at \in {"closed", "failed"} /\ to # "unlock" /\ (to = "try" => again[p] /\ ~again'[p])
  <2>1. CASE WorkerReturns(p)
    BY <2>1 DEF WorkerReturns, At, Goto
  <2>2. CASE ClosureReturns(p)
    BY <1>1, <2>2 DEF ClosureReturns, At, Goto
  <2> QED BY <2>1, <2>2
<1>4. /\ to \in {"try", "failed", "sleep", "unlock", "closed", "done"}
      /\ to \in Locking => (again[p] \/ th[p].run.at \in Locking) /\ ~again'[p]
  BY <1>3 DEF Locking
<1>5. backend = "redis" => RedisAll'
  BY <1>2, <1>3, <1>4, RedisLeave, Zenon DEF WInv
<1>6. backend = "postgres" => PostgresAll'
  BY <1>2, <1>3, <1>4, PostgresLeave, Zenon DEF WInv
<1>7. backend = "local" => LocalAll'
  BY <1>2, <1>3, LocalLeave, Zenon DEF WInv
<1> QED BY <1>2, <1>5, <1>6, <1>7, Zenon DEF WInv

-----------------------------------------------------------------------------
(* The invariant, and the steps as steps of a lease.                         *)

\* The invariant holds at the beginning.
LEMMA InitWInv ==
  ASSUME Init
  PROVE  WInv
<1>1. CASE backend = "redis" /\ Redis!RedisInit
  <2>1. BaseInit /\ srv = [owner |-> None, left |-> 0]
    BY <1>1, Zenon DEF Redis!RedisInit, Redis!BaseInit, BaseInit, Redis!NewLock, NewLock, Redis!ZeroTime, ZeroTime,
                Redis!Goroutine, Goroutine, Redis!NoWatchers, NoWatchers
  <2> QED BY <1>1, <2>1, InitStores DEF WInv
<1>2. CASE backend = "postgres" /\ Postgres!PostgresInit
  <2>1. BaseInit /\ srv = [owner |-> None, left |-> -MaxLag - 1, tx |-> None, schema |-> "absent"]
    BY <1>2, Zenon DEF Postgres!PostgresInit, Postgres!BaseInit, BaseInit, Postgres!NewLock, NewLock,
                Postgres!ZeroTime, ZeroTime, Postgres!Goroutine, Goroutine, Postgres!NoWatchers, NoWatchers
  <2> QED BY <1>2, <2>1, InitStores DEF WInv
<1>3. CASE backend = "local" /\ Local!LocalInit
  <2>1. BaseInit /\ srv = [owner |-> None]
    BY <1>3, Zenon DEF Local!LocalInit, Local!BaseInit, BaseInit, Local!NewLock, NewLock, Local!ZeroTime, ZeroTime,
                Local!Goroutine, Goroutine, Local!NoWatchers, NoWatchers
  <2> QED BY <1>3, <2>1, InitStores DEF WInv
<1> QED BY <1>1, <1>2, <1>3 DEF Init

\* The store, whatever the lock, passes as a lease does.
StorePasses ==
  \/ backend # "local" /\ Passes
  \/ backend = "local" /\ \E p \in Procs : FilePasses(p)
  \/ srv' = srv

\* Every step keeps the invariant.
LEMMA NextWInv ==
  ASSUME WInv, Next
  PROVE  WInv' /\ backend' = backend /\ StorePasses
<1>1. CASE TimePasses
  <2>1. backend' = backend
    BY <1>1, Zenon DEF TimePasses
  <2>2. CASE backend = "redis" /\ Redis!RedisTick
    BY <2>1, <2>2, RedisRuns, Zenon DEF WInv, StorePasses
  <2>3. CASE backend = "postgres" /\ Postgres!PostgresTick
    BY <2>1, <2>3, PostgresRuns, Zenon DEF WInv, StorePasses
  <2>4. CASE backend = "local" /\ Local!LocalTick
    BY <2>1, <2>4, LocalRuns, Zenon DEF WInv, StorePasses
  <2> QED BY <1>1, <2>1, <2>2, <2>3, <2>4, Zenon DEF TimePasses
<1>2. ASSUME NEW p \in Procs, Runner(p) PROVE WInv' /\ backend' = backend /\ StorePasses
  <2>1. backend' = backend
    BY <1>2, Zenon DEF Runner
  <2>2. CASE AutoExtend(p) \/ AutoExtendSpawn(p) \/ WorkerReturns(p) \/ ClosureReturns(p)
    BY <2>1, <2>2, ExtenderBeside, ReturnsBeside, Zenon DEF StorePasses
  <2>3. CASE backend = "redis" /\ Redis!RedisStep(p)
    <3>1. RedisAll' /\ Passes
      BY <2>3, RedisLocks, RedisUnlocks, Zenon DEF WInv, Redis!RedisStep
    <3> QED BY <2>1, <2>3, <3>1, Zenon DEF WInv, StorePasses
  <2>4. CASE backend = "postgres" /\ Postgres!PostgresStep(p)
    <3>1. PostgresAll' /\ Passes
      BY <2>4, PostgresLooks, PostgresWrites, PostgresUnlocks, Zenon DEF WInv, Postgres!PostgresStep
    <3> QED BY <2>1, <2>4, <3>1, Zenon DEF WInv, StorePasses
  <2>5. CASE backend = "local" /\ Local!LocalStep(p)
    <3>1. LocalAll' /\ FilePasses(p)
      BY <2>5, LocalSteps, Zenon DEF WInv
    <3> QED BY <2>1, <2>5, <3>1, Zenon DEF WInv, StorePasses
  <2> QED BY <1>2, <2>1, <2>2, <2>3, <2>4, <2>5, Zenon DEF Runner
<1>3. ASSUME NEW p \in Procs, Extender(p) PROVE WInv' /\ backend' = backend /\ StorePasses
  <2>1. backend' = backend
    BY <1>3, Zenon DEF Extender
  <2>2. CASE ExtenderSelect(p)
    BY <2>1, <2>2, ExtenderBeside, Zenon DEF StorePasses
  <2>3. CASE backend = "redis" /\ Redis!RedisExtender(p)
    <3>1. RedisAll' /\ Passes
      BY <2>3, RedisExtends, Zenon DEF WInv
    <3> QED BY <2>1, <2>3, <3>1, Zenon DEF WInv, StorePasses
  <2>4. CASE backend = "postgres" /\ Postgres!PostgresExtender(p)
    <3>1. PostgresAll' /\ Passes
      BY <2>4, PostgresExtenders, Zenon DEF WInv
    <3> QED BY <2>1, <2>4, <3>1, Zenon DEF WInv, StorePasses
  <2>5. CASE backend = "local" /\ (Local!Extend(p) \/ Local!LocalWatch(p))
    <3>1. LocalAll' /\ FilePasses(p)
      BY <2>5, LocalExtenders, Zenon DEF WInv
    <3> QED BY <2>1, <2>5, <3>1, Zenon DEF WInv, StorePasses
  <2> QED BY <1>3, <2>1, <2>2, <2>3, <2>4, <2>5, Zenon DEF Extender
<1>4. ASSUME NEW p \in Procs, Crash(p) PROVE WInv' /\ backend' = backend /\ StorePasses
  <2>1. backend' = backend
    BY <1>4, Zenon DEF Crash
  <2>2. CASE backend = "redis" /\ Redis!RedisCrash(p)
    BY <2>1, <2>2, RedisRuns, Zenon DEF WInv, StorePasses
  <2>3. CASE backend = "postgres" /\ Postgres!PostgresCrash(p)
    BY <2>1, <2>3, PostgresRuns, Zenon DEF WInv, StorePasses
  <2>4. CASE backend = "local" /\ Local!LocalCrash(p)
    BY <2>1, <2>4, LocalRuns, Zenon DEF WInv, StorePasses
  <2> QED BY <1>4, <2>1, <2>2, <2>3, <2>4, Zenon DEF Crash
<1>5. ASSUME NEW p \in Procs, Stop(p), UNCHANGED backend PROVE WInv' /\ backend' = backend /\ StorePasses
  BY <1>5, StopBeside, Zenon DEF StorePasses
<1> QED BY <1>1, <1>2, <1>3, <1>4, <1>5, Zenon DEF Next

\* A step that changes nothing keeps it too.
LEMMA StutterWInv ==
  ASSUME WInv, UNCHANGED allVars
  PROVE  WInv' /\ backend' = backend /\ StorePasses
<1>1. UNCHANGED <<srv, lk, th, ctx, hctx, again, watch, late, backend>>
  BY Zenon DEF allVars, vars
<1>2. Base => Base'
  BY <1>1, Zenon DEF Base, TypeOK, ThType, Fresh, Live
<1>3. ASSUME NEW p \in Procs, LeaseSafe(p) PROVE LeaseSafe(p)'
  BY <1>1, <1>3, Zenon DEF LeaseSafe, Live, Punctual, Got, Covered, Extended, Honest, Ahead, Leased
<1>4. ASSUME NEW p \in Procs, LocalSafe(p) PROVE LocalSafe(p)'
  BY <1>1, <1>4, Zenon DEF LocalSafe, Punctual
<1>5. (LeaseInv => LeaseInv') /\ (LocalInv => LocalInv')
  BY <1>1, <1>2, <1>3, <1>4, Zenon DEF LeaseInv, LocalInv
<1>6. (RedisStore => RedisStore') /\ (PostgresStore => PostgresStore') /\ (LocalStore => LocalStore')
  BY <1>1, Zenon DEF RedisStore, PostgresStore, LocalStore
<1> QED BY <1>1, <1>5, <1>6, Zenon DEF WInv, RedisAll, PostgresAll, LocalAll, StorePasses

\* Passing on the store is a step of the lease.
LEMMA LeaseMoves ==
  ASSUME WInv, backend' = backend, StorePasses
  PROVE  [lease!Next]_<<srv.owner, IF backend = "local" THEN IF srv.owner = None THEN 0 ELSE TTL ELSE srv.left,
                        {p \in Procs : Leaving(p)}>>
<1> DEFINE L == {p \in Procs : Leaving(p)}
           left == IF backend = "local" THEN IF srv.owner = None THEN 0 ELSE TTL ELSE srv.left
<1>1. L' \subseteq Procs
  OBVIOUS
<1>2. CASE srv' = srv
  <2>1. srv'.owner = srv.owner /\ left' = left
    BY <1>2
  <2> QED BY <1>1, <2>1 DEF lease!Next, lease!Leave
<1>3. CASE backend # "local" /\ Passes
  <2>1. left = srv.left /\ left' = srv'.left
    BY <1>3
  <2>2. CASE Stays
    BY <1>1, <2>1, <2>2 DEF Stays, lease!Next, lease!Leave
  <2>3. CASE Elapses
    BY <1>1, <2>1, <2>3 DEF Elapses, lease!Next, lease!Elapse
  <2>4. ASSUME NEW p \in Procs, Acquires(p) PROVE lease!Next
    BY <1>1, <2>1, <2>4 DEF Acquires, lease!Next, lease!Acquire
  <2>5. ASSUME NEW p \in Procs, Extends(p) PROVE lease!Next
    BY <1>1, <2>1, <2>5 DEF Extends, lease!Next, lease!Extend
  <2>6. ASSUME NEW p \in Procs, Releases(p) PROVE lease!Next
    <3>1. p \in L
      BY <2>6 DEF Releases, Leaving
    <3> QED BY <1>1, <2>1, <2>6, <3>1 DEF Releases, lease!Next, lease!Release
  <2> QED BY <1>3, <2>2, <2>3, <2>4, <2>5, <2>6 DEF Passes
<1>4. ASSUME backend = "local", NEW p \in Procs, FilePasses(p) PROVE lease!Next
  <2>1. /\ left = IF srv.owner = None THEN 0 ELSE TTL
        /\ left' = IF srv'.owner = None THEN 0 ELSE TTL
        /\ p # None /\ TTL \in 1 .. TTL /\ srv.owner \in Procs \cup {None}
    BY <1>4, LockAssumption, HalfTTL DEF WInv, LocalAll, LocalStore
  <2>2. CASE srv'.owner = srv.owner
    BY <1>1, <2>1, <2>2 DEF lease!Next, lease!Leave
  <2>3. CASE srv.owner = None /\ srv'.owner = p
    BY <1>1, <2>1, <2>3 DEF lease!Next, lease!Acquire
  <2>4. CASE srv.owner = p /\ srv'.owner = None /\
              (th[p].run.at = "unlock" \/ watch[p].unlock > 0 \/ th'[p].run.at = "crashed")
    <3>1. p \in L \cup L'
      BY <2>4 DEF Leaving
    <3> QED BY <1>1, <2>1, <2>4, <3>1 DEF lease!Next, lease!Release
  <2> QED BY <1>4, <2>2, <2>3, <2>4 DEF FilePasses
<1> QED BY <1>2, <1>3, <1>4 DEF StorePasses

-----------------------------------------------------------------------------
(* The theorems.                                                             *)

\* The invariant holds in every state.
LEMMA AlwaysWInv == Spec => []WInv
<1>1. Init => WInv
  BY InitWInv
<1>2. WInv /\ [Next]_allVars => WInv'
  BY NextWInv, StutterWInv
<1> QED BY <1>1, <1>2, PTL DEF Spec

\* singleWorkerRunner (worker/worker.go) over each of the three locks: late or not, a worker
\* whose context is live has an extender behind it, which ends only with the context.
THEOREM LiveContextAlwaysWatched == Spec => []LiveContextIsWatched
<1>1. WInv => LiveContextIsWatched
  <2> SUFFICES ASSUME WInv, NEW p \in Procs, Working(p) PROVE ~At(p, "ext", "off")
    BY DEF LiveContextIsWatched
  <2>1. Fresh(p)
    BY AnyLock, Zenon DEF Base
  <2> QED BY <2>1, Zenon DEF Fresh, Live, Working, At
<1> QED BY <1>1, AlwaysWInv, PTL

\* Over each of the three locks, as long as no call or goroutine is slower than MaxDelay, at
\* most one worker runs with a live context: AutoExtend extends early enough, whatever the
\* time to live, if half of it is more than two delays.
THEOREM AlwaysOneLiveWorker == Spec => []OneLiveWorker
<1>1. WInv => OneLiveWorker
  <2> SUFFICES ASSUME WInv, ~late, NEW p \in Procs, Working(p) PROVE srv.owner = p
    BY DEF OneLiveWorker
  <2>1. Live(p) /\ Base
    BY AnyLock, Zenon DEF Working, At, Live
  <2>2. TypeOK /\ Fresh(p) /\ th[p].ext.at \in {"off", "wait", "due", "answer"}
    BY <2>1 DEF Base, TypeOK, ThType, Gor, ExtPlaces
  <2>3. th[p].ext.at \in {"wait", "due", "answer"}
    BY <2>1, <2>2, Zenon DEF Fresh
  <2>4. CASE backend # "local"
    <3>1. Covered(p) /\ Extended(p)
      BY <2>4, AnyLock, Zenon DEF LeaseInv, LeaseSafe
    <3> QED BY <2>1, <2>3, <3>1, Zenon DEF Covered, Extended, Live, Leased
  <2>5. CASE backend = "local"
    <3>1. LocalStore /\ LocalSafe(p)
      BY <2>5, Zenon DEF WInv, LocalAll, LocalInv
    <3> QED BY <2>1, <3>1, Zenon DEF LocalStore, LocalSafe, Live
  <2> QED BY <2>4, <2>5
<1> QED BY <1>1, AlwaysWInv, PTL

\* Expiration() of each of the three locks never tells a punctual caller between Lock and
\* Unlock a time until which the resource is not its own.
THEOREM ExpirationAlwaysHonest == Spec => []ExpirationIsHonest
<1>1. WInv => ExpirationIsHonest
  <2> SUFFICES ASSUME WInv, ~late, NEW p \in Procs, th[p].run.at \in {"held", "derive", "work"}, lk[p].expiration > 0
               PROVE  srv.owner = p /\ (backend = "local" \/ srv.left >= lk[p].expiration)
    BY DEF ExpirationIsHonest
  <2>1. CASE backend # "local"
    <3>1. Honest(p)
      BY <2>1, AnyLock, Zenon DEF LeaseInv, LeaseSafe
    <3> QED BY <3>1, Zenon DEF Honest, Leased
  <2>2. CASE backend = "local"
    BY <2>2, Zenon DEF WInv, LocalAll, LocalStore
  <2> QED BY <2>1, <2>2
<1> QED BY <1>1, AlwaysWInv, PTL

\* The scripts of Redis, the statements of Postgres and the file lock, with crashes and lost
\* answers, late or not, implement Lease: the resource is never taken from a process that has
\* time left and has not begun to unlock.
THEOREM LocksImplementLease == Spec => ImplementsLease
<1> DEFINE left == IF backend = "local" THEN IF srv.owner = None THEN 0 ELSE TTL ELSE srv.left
           L    == {p \in Procs : Leaving(p)}
<1>1. Init => lease!Init
  <2> SUFFICES ASSUME Init PROVE lease!Init
    OBVIOUS
  <2>1. srv.owner = None /\ left <= 0
    BY HalfTTL DEF Init, Redis!RedisInit, Postgres!PostgresInit, Local!LocalInit
  <2> QED BY <2>1 DEF lease!Init
<1>2. WInv /\ [Next]_allVars => [lease!Next]_<<srv.owner, left, L>>
  BY NextWInv, StutterWInv, LeaseMoves
<1> QED BY <1>1, <1>2, AlwaysWInv, PTL DEF Spec, ImplementsLease, lease!Spec
=============================================================================
