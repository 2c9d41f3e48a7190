-------------------------- MODULE DistributedLock ---------------------------
(* What the three distributed locks share (distributedlock/distributedlock.go): *)
(* the lock object of each process, the goroutine AutoExtend starts, and the *)
(* passage of time.  One resource, one lock object per process.  Times are   *)
(* relative to now: an expiration is the number of ticks left, at most zero  *)
(* once it has passed.                                                       *)
EXTENDS Integers, FiniteSets

CONSTANTS Procs,        \* the processes that compete for the resource
          None,         \* no process
          TTL,          \* the time to live of the lock, in ticks
          MaxDelay,     \* how long a call takes at most in a punctual behaviour
          MaxLag,       \* bound: how long a call takes at most
          MaxWatchers   \* bound: expiry goroutines of one local lock

ASSUME LockAssumption ==
  /\ IsFiniteSet(Procs) /\ None \notin Procs
  /\ MaxDelay \in Nat /\ MaxLag \in Nat /\ MaxDelay <= MaxLag
  /\ TTL \in Nat /\ TTL % 2 = 0 /\ TTL > TTL \div 2 + 2 * MaxDelay /\ TTL > MaxLag
  /\ MaxWatchers \in Nat \ {0}

VARIABLES srv,    \* the shared store, see the modules of the three locks
          lk,     \* lk[p]: the fields of p's lock object
          th,     \* th[p]: p's goroutines, "run" (the caller) and "ext" (the extender):
                  \* where it is, the answer it got, the age of its call, its timer
          ctx,    \* ctx[p]: the context AutoExtend returned, "live", "lost" if it was
                  \* cancelled with LOCK_NOT_AUTO_EXTENDED, "done" for any other cause
          hctx,   \* hctx[p]: the context the caller was given, "live" or "done"
          again,  \* again[p]: what p's caller returns is LOCK_NOT_AUTO_EXTENDED
          watch,  \* watch[p]: how many expiry goroutines of p's local lock are where
          late    \* a goroutine or a call has been slower than MaxDelay

vars == <<srv, lk, th, ctx, hctx, again, watch, late>>

ZeroTime == -100   \* time.Time{}

\* Mutant: the extender waits the whole time to live.
Half_Whole == TTL

\* time.After(ttl / 2)
Half == TTL \div 2

\* BaseDistributedLock, with the two fields of LocalLock.
NewLock == [expiration |-> ZeroTime, autoExtenderCancel |-> FALSE, locked |-> FALSE, mu |-> "free"]

NoWatchers == [off |-> MaxWatchers, check |-> 0, read |-> 0, unlock |-> 0]

Goroutine(at) == [at |-> at, ok |-> FALSE, age |-> 0, timer |-> 0]

BaseInit ==
  /\ lk = [p \in Procs |-> NewLock]
  /\ th = [p \in Procs |-> [run |-> Goroutine("try"), ext |-> Goroutine("off")]]
  /\ ctx = [p \in Procs |-> "none"]
  /\ hctx = [p \in Procs |-> "live"]
  /\ again = [p \in Procs |-> FALSE]
  /\ watch = [p \in Procs |-> NoWatchers]
  /\ late = FALSE

\* Goroutine t of p: where it is; it starts something new, goes on with the call
\* it is in, or goes on with an answer.
At(p, t, from)      == th[p][t].at = from
Goto(p, t, to)      == th' = [th EXCEPT ![p][t] = Goroutine(to)]
Move(p, t, to)      == th' = [th EXCEPT ![p][t].at = to]
Answer(p, t, to, b) == th' = [th EXCEPT ![p][t].at = to, ![p][t].ok = b]

\* Cancelling a context that is done changes nothing: the first cause stays.
Canceled(p, cause) == [ctx EXCEPT ![p] = IF @ = "live" THEN cause ELSE @]

\* The first half of autoExtend: the context must be live and the lock locked.
AutoExtend(p) ==
  /\ At(p, "run", "held")
  /\ IF hctx[p] = "live" /\ lk[p].expiration # ZeroTime
     THEN Move(p, "run", "derive")
     ELSE Goto(p, "run", "unlock")
  /\ UNCHANGED <<srv, lk, ctx, hctx, again, watch, late>>

\* The second half: derive a context, remember its cancel function, start the
\* extender, which waits before its first Extend.
AutoExtendSpawn(p) ==
  /\ At(p, "run", "derive")
  /\ ctx' = [ctx EXCEPT ![p] = hctx[p]]
  /\ lk' = [lk EXCEPT ![p].autoExtenderCancel = TRUE]
  /\ th' = [th EXCEPT ![p].run = Goroutine("work"),
                      ![p].ext = [Goroutine("wait") EXCEPT !.timer = Half]]
  /\ UNCHANGED <<srv, hctx, again, watch, late>>

\* The extender's select: its context is done, or the timer has fired.
ExtenderSelect(p) ==
  /\ At(p, "ext", "wait")
  /\ \/ ctx[p] # "live" /\ Goto(p, "ext", "off")
     \/ th[p].ext.timer = 0 /\ Goto(p, "ext", "due")
  /\ UNCHANGED <<srv, lk, ctx, hctx, again, watch, late>>

\* Mutant: the extender ends without a word when Extend has failed.
ExtenderGot_Silent(p, answer) ==
  IF answer = "extended"
  THEN th' = [th EXCEPT ![p].ext = [Goroutine("wait") EXCEPT !.timer = Half]] /\ ctx' = ctx
  ELSE Goto(p, "ext", "off") /\ ctx' = IF answer = "lost" THEN Canceled(p, answer) ELSE ctx

\* What the extender does with the answer of Extend: wait again, or cancel the
\* context with the error or with LOCK_NOT_AUTO_EXTENDED ("lost").
ExtenderGot(p, answer) ==
  IF answer = "extended"
  THEN th' = [th EXCEPT ![p].ext = [Goroutine("wait") EXCEPT !.timer = Half]] /\ ctx' = ctx
  ELSE Goto(p, "ext", "off") /\ ctx' = Canceled(p, answer)

\* The part of Unlock after the store has answered: cancel the extender's
\* context, if there is one, and forget the lease.
Forget(p) ==
  /\ ctx' = IF lk[p].autoExtenderCancel THEN Canceled(p, "done") ELSE ctx
  /\ lk' = [lk EXCEPT ![p].autoExtenderCancel = FALSE, ![p].expiration = ZeroTime,
                      ![p].locked = FALSE]

\* Lock of the Redis and Postgres locks: after a failed attempt, fwsync.Sleep
\* returns when its timer fires, or with the cause of the caller's context.
LockSleep(p) ==
  /\ At(p, "run", "sleep")
  /\ \/ Goto(p, "run", "try")
     \/ hctx[p] = "done" /\ Goto(p, "run", "failed")
  /\ UNCHANGED <<srv, lk, ctx, hctx, again, watch, late>>

-----------------------------------------------------------------------------
\* Where a goroutine waits for something else than the answer to a call.
Idle == {"try", "sleep", "flock", "work", "unlock", "failed", "closed", "done", "crashed",
         "off", "wait"}

Busy(p, t) == th[p][t].at \notin Idle

\* The goroutine is later than a punctual one would be, which an Unlock may be.
Overdue(p, t) == \/ Busy(p, t) /\ th[p][t].at \notin {"unlocking", "unlocked"} /\ th[p][t].age >= MaxDelay
                 \/ At(p, t, "wait") /\ th[p][t].timer = 0

Older(g, busy) == [g EXCEPT !.age = IF busy THEN @ + 1 ELSE @,
                            !.timer = IF @ > 0 THEN @ - 1 ELSE 0]
Sooner(left, past) == IF left <= past THEN left ELSE left - 1   \* no need to tell more than past

\* Time passes for every goroutine, timer and lease; elapsed is the store a tick later.
Tick(elapsed) ==
  /\ \A p \in Procs, t \in {"run", "ext"} : Busy(p, t) => th[p][t].age < MaxLag
  /\ late' = (late \/ \E p \in Procs, t \in {"run", "ext"} : Overdue(p, t))
  /\ th' = [p \in Procs |-> [t \in {"run", "ext"} |-> Older(th[p][t], Busy(p, t))]]
  /\ lk' = [p \in Procs |-> [lk[p] EXCEPT !.expiration = Sooner(@, -1)]]
  /\ srv' = elapsed
  /\ UNCHANGED <<ctx, hctx, again, watch>>

\* A process ends without notice: its goroutines and its lock object are gone.
Gone(p) ==
  /\ th' = [th EXCEPT ![p] = [run |-> Goroutine("crashed"), ext |-> Goroutine("off")]]
  /\ ctx' = [ctx EXCEPT ![p] = "none"]
  /\ hctx' = [hctx EXCEPT ![p] = "done"]
  /\ lk' = [lk EXCEPT ![p] = NewLock]
  /\ again' = [again EXCEPT ![p] = FALSE]
=============================================================================
