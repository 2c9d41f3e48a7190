----------------------------- MODULE LocalLock ------------------------------
(* LocalLock (distributedlock/distributedlock_local.go).  The store is the   *)
(* lock of the file, srv.owner.  It does not expire: each acquisition starts *)
(* a goroutine (watch) that unlocks the file once the expiration has passed. *)
(* That goroutine and AutoExtend read the fields without the mutex.  Freeing *)
(* the lock of an open file does not fail.                                   *)
EXTENDS DistributedLock

LocalInit == BaseInit /\ srv = [owner |-> None]

\* One of p's expiry goroutines moves.
watcher(p, from, to) ==
  /\ watch[p][from] > 0
  /\ watch' = [watch EXCEPT ![p][from] = @ - 1, ![p][to] = @ + 1]

\* doLock: the fields, and a new expiry goroutine.
doLock(p) ==
  /\ srv' = [owner |-> p]
  /\ lk' = [lk EXCEPT ![p].expiration = TTL, ![p].locked = TRUE, ![p].mu = "free"]
  /\ watcher(p, "off", "check")
  /\ Goto(p, "run", "held")

\* Lock takes the mutex and keeps it while it waits for the file.
LockBegin(p) ==
  /\ At(p, "run", "try") /\ lk[p].mu = "free"
  /\ lk' = [lk EXCEPT ![p].mu = "Lock"]
  /\ Goto(p, "run", "flock")
  /\ UNCHANGED <<srv, ctx, hctx, again, watch, late>>

LockFile(p) ==
  /\ At(p, "run", "flock")
  /\ srv.owner \in {None, p}
  /\ doLock(p)
  /\ UNCHANGED <<ctx, hctx, again, late>>

\* flock fails to lock in Lock or in TryLock; the deferred call frees the mutex.
LockFails(p) ==
  /\ At(p, "run", "flock") \/ (At(p, "run", "try") /\ lk[p].mu = "free" /\ ~lk[p].locked)
  /\ lk' = [lk EXCEPT ![p].mu = "free"]
  /\ Goto(p, "run", "failed")
  /\ UNCHANGED <<srv, ctx, hctx, again, watch, late>>

\* TryLock, for callers that poll; EWOULDBLOCK when another process has the file.
TryLock(p) ==
  /\ At(p, "run", "try")
  /\ IF lk[p].mu = "free" /\ ~lk[p].locked /\ srv.owner \in {None, p}
     THEN doLock(p)
     ELSE Goto(p, "run", "sleep") /\ UNCHANGED <<srv, lk, watch>>
  /\ UNCHANGED <<ctx, hctx, again, late>>

\* Unlock, under the mutex: LOCK_UN releases the file only if it is ours.
unlock(p) ==
  /\ lk[p].mu = "free"
  /\ srv' = [owner |-> IF srv.owner = p THEN None ELSE srv.owner]
  /\ Forget(p)

Unlock(p) ==
  /\ At(p, "run", "unlock")
  /\ unlock(p)
  /\ Goto(p, "run", "closed")
  /\ UNCHANGED <<hctx, again, watch, late>>

\* Extend, under the mutex: refused when unlocked or when the expiration has passed.
Extend(p) ==
  /\ At(p, "ext", "due") /\ lk[p].mu = "free"
  /\ LET extended == lk[p].locked /\ lk[p].expiration >= 0
     IN  /\ ExtenderGot(p, IF extended THEN "extended" ELSE "lost")
         /\ lk' = IF extended THEN [lk EXCEPT ![p].expiration = TTL] ELSE lk
  /\ UNCHANGED <<srv, hctx, again, watch, late>>

\* The goroutine of doLock: it looks whether the lock is locked, then whether it has
\* expired (the zero time has), and sleeps or unlocks before it looks again.  The sleep
\* may take any time, like any step.
WatchLocked(p) ==
  /\ watcher(p, "check", IF lk[p].locked THEN "read" ELSE "off")
  /\ UNCHANGED <<srv, lk, th, ctx, hctx, again, late>>

WatchExpired(p) ==
  /\ watcher(p, "read", IF lk[p].expiration > 0 THEN "check" ELSE "unlock")
  /\ UNCHANGED <<srv, lk, th, ctx, hctx, again, late>>

WatchUnlock(p) ==
  /\ watcher(p, "unlock", "check")
  /\ unlock(p)
  /\ UNCHANGED <<th, hctx, again, late>>

LocalTick == Tick(srv)

\* A process ends without notice and the system releases its file.
LocalCrash(p) ==
  /\ Gone(p)
  /\ srv' = [owner |-> IF srv.owner = p THEN None ELSE srv.owner]
  /\ watch' = [watch EXCEPT ![p] = NoWatchers]
  /\ UNCHANGED late

LocalStep(p) ==
  \/ LockBegin(p) \/ LockFile(p) \/ LockFails(p) \/ TryLock(p) \/ LockSleep(p)
  \/ Unlock(p)

LocalWatch(p) == WatchLocked(p) \/ WatchExpired(p) \/ WatchUnlock(p)
=============================================================================
