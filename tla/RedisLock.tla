----------------------------- MODULE RedisLock ------------------------------
(* DistributedRedisLock (distributedlock/distributedlock_redis.go).  The     *)
(* store is the key of the resource: srv.owner is its value, srv.left its    *)
(* remaining time to live.  A script runs atomically in the server; its      *)
(* answer arrives later or not at all.  The counter of extensions has no     *)
(* influence on the lock and is left out.                                    *)
EXTENDS DistributedLock

RedisInit == BaseInit /\ srv = [owner |-> None, left |-> 0]

\* time.Now().Add(pttl): the remaining time of the key, whoever owns it by now; just past
\* if there is none (PTTL answers -2), and now if PTTL fails, whose error Val() drops.
PTTL == {0, IF srv.owner = None THEN -1 ELSE srv.left}

\* setNXAndExtendedCountScript: SET NX PX.
TryLockScript(p) ==
  /\ At(p, "run", "try")
  /\ Answer(p, "run", "answer", srv.owner = None)
  /\ srv' = IF srv.owner = None THEN [owner |-> p, left |-> TTL] ELSE srv
  /\ UNCHANGED <<lk, ctx, hctx, again, watch, late>>

\* TryLock with the script's answer; when it did not get the lock, Lock sleeps.
TryLockAnswer(p) ==
  /\ At(p, "run", "answer")
  /\ IF th[p].run.ok
     THEN /\ Move(p, "run", "held")
          /\ \E pttl \in PTTL : lk' = [lk EXCEPT ![p].expiration = pttl]
     ELSE Goto(p, "run", "sleep") /\ lk' = lk
  /\ UNCHANGED <<srv, ctx, hctx, again, watch, late>>

\* The request or its answer is lost, or the context is done: TryLock and Lock fail,
\* whatever the script has done.
TryLockFails(p) ==
  /\ At(p, "run", "try") \/ At(p, "run", "answer")
  /\ Goto(p, "run", "failed")
  /\ UNCHANGED <<srv, lk, ctx, hctx, again, watch, late>>

\* Mutant: DEL without looking at the owner.
UnlockScript_Any(p) ==
  /\ At(p, "run", "unlock")
  /\ Move(p, "run", "unlocked")
  /\ srv' = [owner |-> None, left |-> 0]
  /\ UNCHANGED <<lk, ctx, hctx, again, watch, late>>

\* deleteKeysScript: DEL if the key is ours.
UnlockScript(p) ==
  /\ At(p, "run", "unlock")
  /\ Move(p, "run", "unlocked")
  /\ srv' = IF srv.owner = p THEN [owner |-> None, left |-> 0] ELSE srv
  /\ UNCHANGED <<lk, ctx, hctx, again, watch, late>>

UnlockAnswer(p) ==
  /\ At(p, "run", "unlocked")
  /\ Goto(p, "run", "closed")
  /\ Forget(p)
  /\ UNCHANGED <<srv, hctx, again, watch, late>>

\* Unlock fails before or after the script: it returns before it cancels the extender.
UnlockFails(p) ==
  /\ At(p, "run", "unlock") \/ At(p, "run", "unlocked")
  /\ Goto(p, "run", "closed")
  /\ UNCHANGED <<srv, lk, ctx, hctx, again, watch, late>>

\* extendSetsAndIncrExtendedCountScript: SET PX if the key is ours.
ExtendScript(p) ==
  /\ At(p, "ext", "due")
  /\ Answer(p, "ext", "answer", srv.owner = p)
  /\ srv' = IF srv.owner = p THEN [srv EXCEPT !.left = TTL] ELSE srv
  /\ UNCHANGED <<lk, ctx, hctx, again, watch, late>>

ExtendAnswer(p) ==
  /\ At(p, "ext", "answer")
  /\ IF th[p].ext.ok
     THEN /\ ExtenderGot(p, "extended")
          /\ \E pttl \in PTTL : lk' = [lk EXCEPT ![p].expiration = pttl]
     ELSE ExtenderGot(p, "lost") /\ lk' = [lk EXCEPT ![p].expiration = ZeroTime]
  /\ UNCHANGED <<srv, hctx, again, watch, late>>

ExtendFails(p) ==
  /\ At(p, "ext", "due") \/ At(p, "ext", "answer")
  /\ ExtenderGot(p, "done")
  /\ UNCHANGED <<srv, lk, hctx, again, watch, late>>

\* The key vanishes when its time has run out.
RedisTick == Tick(IF srv.left > 1 THEN [srv EXCEPT !.left = @ - 1] ELSE [owner |-> None, left |-> 0])

\* A process ends without notice; its key stays.
RedisCrash(p) ==
  /\ Gone(p)
  /\ UNCHANGED <<srv, watch, late>>

RedisStep(p) ==
  \/ TryLockScript(p) \/ TryLockAnswer(p) \/ TryLockFails(p) \/ LockSleep(p)
  \/ UnlockScript(p) \/ UnlockAnswer(p) \/ UnlockFails(p)

RedisExtender(p) == ExtendScript(p) \/ ExtendAnswer(p) \/ ExtendFails(p)
=============================================================================
