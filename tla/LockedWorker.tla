---------------------------- MODULE LockedWorker ----------------------------
(* singleWorkerRunner (worker/worker.go) in several processes, over the lock *)
(* that the application has chosen: ModuleRedis, ModulePostgres or           *)
(* ModuleLocal.  The worker itself is external.  The rest of the handler is  *)
(* module WorkerHandler; here it is what ends the context of a process.      *)
EXTENDS DistributedLock

VARIABLE backend   \* the lock that was chosen

Redis    == INSTANCE RedisLock
Postgres == INSTANCE PostgresLock
Local    == INSTANCE LocalLock

allVars == <<vars, backend>>

Init ==
  \/ backend = "redis" /\ Redis!RedisInit
  \/ backend = "postgres" /\ Postgres!PostgresInit
  \/ backend = "local" /\ Local!LocalInit

\* worker.Run(wCtx): it may return or panic at any time, and does return, with the
\* cause or with another error, when its context is done.  Unlock is deferred.
WorkerReturns(p) ==
  /\ At(p, "run", "work")
  /\ \/ again' = again
     \/ ctx[p] = "lost" /\ again' = [again EXCEPT ![p] = TRUE]
  /\ Goto(p, "run", "unlock")
  /\ UNCHANGED <<srv, lk, ctx, hctx, watch, late>>

\* The closure has returned: try again after a lost lock, return otherwise.
ClosureReturns(p) ==
  /\ At(p, "run", "closed") \/ At(p, "run", "failed")
  /\ Goto(p, "run", IF again[p] THEN "try" ELSE "done")
  /\ again' = [again EXCEPT ![p] = FALSE]
  /\ UNCHANGED <<srv, lk, ctx, hctx, watch, late>>

\* The handler's context ends, by Stop or because a worker has ended (shutdownFxApp).
Stop(p) ==
  /\ hctx[p] = "live"
  /\ hctx' = [hctx EXCEPT ![p] = "done"]
  /\ ctx' = Canceled(p, "done")
  /\ UNCHANGED <<srv, lk, th, again, watch, late>>

Runner(p) ==
  /\ UNCHANGED backend
  /\ \/ AutoExtend(p) \/ AutoExtendSpawn(p) \/ WorkerReturns(p) \/ ClosureReturns(p)
     \/ backend = "redis" /\ Redis!RedisStep(p)
     \/ backend = "postgres" /\ Postgres!PostgresStep(p)
     \/ backend = "local" /\ Local!LocalStep(p)

Extender(p) ==
  /\ UNCHANGED backend
  /\ \/ ExtenderSelect(p)
     \/ backend = "redis" /\ Redis!RedisExtender(p)
     \/ backend = "postgres" /\ Postgres!PostgresExtender(p)
     \/ backend = "local" /\ (Local!Extend(p) \/ Local!LocalWatch(p))

Crash(p) ==
  /\ UNCHANGED backend
  /\ ~At(p, "run", "crashed")
  /\ \/ backend = "redis" /\ Redis!RedisCrash(p)
     \/ backend = "postgres" /\ Postgres!PostgresCrash(p)
     \/ backend = "local" /\ Local!LocalCrash(p)

TimePasses ==
  /\ UNCHANGED backend
  /\ \/ backend = "redis" /\ Redis!RedisTick
     \/ backend = "postgres" /\ Postgres!PostgresTick
     \/ backend = "local" /\ Local!LocalTick

Next ==
  \/ TimePasses
  \/ \E p \in Procs : Runner(p) \/ Extender(p) \/ Crash(p) \/ (Stop(p) /\ UNCHANGED backend)

Spec == Init /\ [][Next]_allVars

-----------------------------------------------------------------------------
\* The worker of p runs and has not been told to stop.
Working(p) == At(p, "run", "work") /\ ctx[p] = "live"

\* As long as calls and goroutines are punctual, at most one worker runs with a live
\* context, over each of the three locks: half the time to live is early enough to
\* extend, and a loss is never noticed too late.
OneLiveWorker == ~late => \A p, q \in Procs : Working(p) /\ Working(q) => p = q

\* A live worker context always has an extender behind it, even when everything is late:
\* a lost lease cannot go unnoticed.
LiveContextIsWatched == \A p \in Procs : Working(p) => ~At(p, "ext", "off")

\* What Expiration() tells a punctual caller between Lock and Unlock is true: until then
\* the resource is its own.  It is read from Redis in a second request, kept before the
\* commit in Postgres, and reset by the expiry goroutine of a local lock.
ExpirationIsHonest ==
  ~late => \A p \in Procs :
    th[p].run.at \in {"held", "derive", "work"} /\ lk[p].expiration > 0 =>
      srv.owner = p /\ (backend = "local" \/ srv.left >= lk[p].expiration)

\* p unlocks, its expiry goroutine does, or it has crashed.
Leaving(p) == th[p].run.at \in {"unlock", "unlocking", "crashed"} \/ watch[p].unlock > 0

\* The store passes from one process to another only as a lease may: the scripts, the
\* statements and the file lock never take the resource from a process that has time
\* left and has not begun to unlock.
lease == INSTANCE Lease WITH
  owner   <- srv.owner,
  left    <- IF backend = "local" THEN IF srv.owner = None THEN 0 ELSE TTL ELSE srv.left,
  leaving <- {p \in Procs : Leaving(p)}

ImplementsLease == lease!Spec
=============================================================================
