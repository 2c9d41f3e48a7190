----------------------------- MODULE LockProofs -----------------------------
(* Lemmas about DistributedLock, for any number of processes, any time to    *)
(* live and any delays that the assumption allows: what a step of one        *)
(* process leaves to the others, and why the lease of a punctual process     *)
(* outlasts its worker.  LockedWorkerProofs applies them to the three locks. *)
EXTENDS DistributedLock, TLAPS

RunPlaces == {"try", "answer", "held", "derive", "work", "unlock", "unlocking", "unlocked", "closed",
              "failed", "sleep", "done", "crashed", "creating", "select", "update", "insert", "commit",
              "flock"}
ExtPlaces == {"off", "wait", "due", "answer"}

Gor(places) == [at : places, ok : BOOLEAN, age : 0 .. MaxLag, timer : 0 .. TTL]
LockType    == [expiration : Int, autoExtenderCancel : BOOLEAN, locked : BOOLEAN, mu : {"free", "Lock"}]
WatchType   == [off : Int, check : Int, read : Int, unlock : Int]

\* The goroutines have their types, and one that waits for no answer has no call.
ThType ==
  /\ th \in [Procs -> [run : Gor(RunPlaces), ext : Gor(ExtPlaces)]]
  /\ \A p \in Procs : /\ th[p].run.at \in Idle => th[p].run.age = 0
                      /\ th[p].ext.at \in Idle => th[p].ext.age = 0

TypeOK ==
  /\ ThType
  /\ lk \in [Procs -> LockType]
  /\ ctx \in [Procs -> {"none", "live", "lost", "done"}] /\ hctx \in [Procs -> {"live", "done"}]
  /\ again \in [Procs -> BOOLEAN] /\ watch \in [Procs -> WatchType]
  /\ late \in BOOLEAN

\* Where the caller is before AutoExtend has started an extender.
Locking == {"try", "answer", "held", "derive", "flock", "sleep", "failed", "creating", "select", "update",
            "insert", "commit"}

\* The worker of p runs and has not been told to stop.
Live(p) == th[p].run.at = "work" /\ ctx[p] = "live"

\* The extender that has lost a lease has ended, so a process that locks again has none,
\* and a live worker has one.
Fresh(p) ==
  /\ ctx[p] = "lost" \/ again[p] \/ th[p].run.at \in Locking => th[p].ext.at = "off"
  /\ th[p].run.at \in Locking \cup {"work"} => ~again[p]
  /\ Live(p) => th[p].ext.at # "off"

-----------------------------------------------------------------------------
(* What holds as long as nothing is late.                                    *)

\* No answer has been waited for longer than MaxDelay; an Unlock may.
Punctual(p) ==
  /\ th[p].run.at \notin Idle \cup {"unlocking", "unlocked"} => th[p].run.age <= MaxDelay
  /\ th[p].ext.at \notin Idle => th[p].ext.age <= MaxDelay

\* The resource is p's for at least b ticks more.
Leased(p, b) == srv.owner = p /\ srv.left >= b

\* Lock has got the resource for p, which may not know it yet.
Got(p) == th[p].run.at \in {"held", "derive"} \/ (th[p].run.at = "answer" /\ th[p].run.ok)

\* Redis and Postgres: the lease of a process that works outlasts the wait of its
\* extender and the call of Extend that follows.
Covered(p) ==
  Live(p) => /\ th[p].ext.at = "wait" => Leased(p, th[p].ext.timer + Half - MaxDelay)
             /\ th[p].ext.at = "due" => Leased(p, Half - MaxDelay - th[p].ext.age)
             /\ th[p].ext.at = "answer" => th[p].ext.ok

\* A lease that Extend has extended is there while the worker runs.
Extended(p) ==
  th[p].run.at = "work" /\ th[p].ext.at = "answer" /\ th[p].ext.ok => Leased(p, TTL - th[p].ext.age)

\* The expiration a process has, or will have with the commit, is not after the real one.
Honest(p) ==
  lk[p].expiration > 0 =>
    /\ th[p].run.at \in {"held", "derive", "work"} => Leased(p, lk[p].expiration)
    /\ th[p].run.at = "commit" /\ th[p].run.ok => lk[p].expiration <= TTL - th[p].run.age

\* When the extender comes to extend, half the time to live has passed since the last time:
\* it never brings the expiration forward.
Ahead(p) ==
  th[p].run.at = "work" => /\ th[p].ext.at = "wait" => lk[p].expiration <= th[p].ext.timer + Half
                           /\ th[p].ext.at = "due" => lk[p].expiration <= Half - th[p].ext.age

LeaseSafe(p) ==
  /\ Punctual(p)
  /\ Got(p) => Leased(p, TTL - th[p].run.age)
  /\ Covered(p) /\ Extended(p) /\ Honest(p) /\ Ahead(p)

\* The local lock.  A punctual process locks once; its expiry goroutine does not unlock
\* before a worker context is there to be cancelled with it.
LocalSafe(p) ==
  /\ Punctual(p)
  /\ ~again[p] /\ ctx[p] # "lost"
  /\ th[p].run.at \in {"try", "flock", "sleep", "failed", "held", "derive"} => ctx[p] = "none" /\ watch[p].unlock = 0
  /\ th[p].run.at \in {"try", "flock", "sleep", "failed"} => watch[p].check = 0 /\ watch[p].read = 0
  /\ th[p].run.at \in {"held", "derive"} => lk[p].locked /\ lk[p].expiration >= TTL - th[p].run.age
  /\ ctx[p] = "live" =>
       /\ th[p].run.at \in {"work", "unlock"} /\ lk[p].locked /\ lk[p].autoExtenderCancel
       /\ \/ th[p].ext.at = "wait" /\ lk[p].expiration >= th[p].ext.timer + Half - MaxDelay
          \/ th[p].ext.at = "due" /\ lk[p].expiration >= Half - MaxDelay - th[p].ext.age

\* Late or not.
Base == TypeOK /\ \A p \in Procs : Fresh(p)

LeaseInv == Base /\ srv.left \in Int /\ (~late => \A p \in Procs : LeaseSafe(p))
LocalInv == Base /\ (~late => \A p \in Procs : LocalSafe(p))

-----------------------------------------------------------------------------
USE DEF RunPlaces, ExtPlaces, Gor, LockType, WatchType, Idle, Locking

\* Half the time to live is more than two delays, and an answer arrives before the whole of it.
LEMMA HalfTTL == /\ Half \in Nat /\ TTL = 2 * Half /\ Half > 2 * MaxDelay /\ MaxDelay \in Nat
                 /\ MaxLag \in Nat /\ TTL \in Nat /\ TTL > MaxLag /\ MaxDelay <= MaxLag
  BY LockAssumption DEF Half

\* One goroutine of p has become g.
Others(p) == \A q \in Procs \ {p} : th'[q] = th[q]
RunIs(p, g) == th'[p].run = g /\ th'[p].ext = th[p].ext /\ Others(p)
ExtIs(p, g) == th'[p].run = th[p].run /\ th'[p].ext = g /\ Others(p)

\* A step of the caller is a step of the caller alone.
LEMMA RunStep ==
  ASSUME ThType, NEW p \in Procs, NEW g \in Gor(RunPlaces), g.at \in Idle => g.age = 0,
         th' = [th EXCEPT ![p]["run"] = g]
  PROVE  ThType' /\ RunIs(p, g)
<1>1. th' \in [Procs -> [run : Gor(RunPlaces), ext : Gor(ExtPlaces)]]
  BY DEF ThType
<1>2. RunIs(p, g)
  BY DEF ThType, RunIs, Others
<1>3. \A q \in Procs : /\ th'[q].run.at \in Idle => th'[q].run.age = 0
                       /\ th'[q].ext.at \in Idle => th'[q].ext.age = 0
  <2> SUFFICES ASSUME NEW q \in Procs
               PROVE  /\ th'[q].run.at \in Idle => th'[q].run.age = 0
                      /\ th'[q].ext.at \in Idle => th'[q].ext.age = 0
    OBVIOUS
  <2> HIDE DEF Idle
  <2>1. CASE q = p
    BY <1>2, <2>1 DEF ThType, RunIs
  <2>2. CASE q # p
    BY <1>2, <2>2 DEF ThType, RunIs, Others
  <2> QED BY <2>1, <2>2
<1> QED BY <1>1, <1>2, <1>3 DEF ThType

\* A step of the extender is a step of the extender alone.
LEMMA ExtStep ==
  ASSUME ThType, NEW p \in Procs, NEW g \in Gor(ExtPlaces), g.at \in Idle => g.age = 0,
         th' = [th EXCEPT ![p]["ext"] = g]
  PROVE  ThType' /\ ExtIs(p, g)
<1>1. th' \in [Procs -> [run : Gor(RunPlaces), ext : Gor(ExtPlaces)]]
  BY DEF ThType
<1>2. ExtIs(p, g)
  BY DEF ThType, ExtIs, Others
<1>3. \A q \in Procs : /\ th'[q].run.at \in Idle => th'[q].run.age = 0
                       /\ th'[q].ext.at \in Idle => th'[q].ext.age = 0
  <2> SUFFICES ASSUME NEW q \in Procs
               PROVE  /\ th'[q].run.at \in Idle => th'[q].run.age = 0
                      /\ th'[q].ext.at \in Idle => th'[q].ext.age = 0
    OBVIOUS
  <2> HIDE DEF Idle
  <2>1. CASE q = p
    BY <1>2, <2>1 DEF ThType, ExtIs
  <2>2. CASE q # p
    BY <1>2, <2>2 DEF ThType, ExtIs, Others
  <2> QED BY <2>1, <2>2
<1> QED BY <1>1, <1>2, <1>3 DEF ThType

\* Goto, Move and Answer of the caller, Goto and Answer of the extender, as such steps.
LEMMA GotoRun ==
  ASSUME ThType, NEW p \in Procs, NEW to \in RunPlaces, th' = [th EXCEPT ![p]["run"] = Goroutine(to)]
  PROVE  ThType' /\ RunIs(p, Goroutine(to))
<1>1. PICK g : g = Goroutine(to)
  OBVIOUS
<1>2. g \in Gor(RunPlaces) /\ g.age = 0
  BY <1>1, HalfTTL DEF Goroutine
<1>3. th' = [th EXCEPT ![p]["run"] = g]
  BY <1>1
<1> QED BY <1>1, <1>2, <1>3, RunStep, Zenon

\* Move of the caller.
LEMMA MoveRun ==
  ASSUME ThType, NEW p \in Procs, NEW to \in RunPlaces \ Idle, th' = [th EXCEPT ![p]["run"].at = to]
  PROVE  ThType' /\ RunIs(p, [th[p].run EXCEPT !.at = to])
<1>1. PICK g : g = [th[p].run EXCEPT !.at = to]
  BY Zenon
<1>2. g \in Gor(RunPlaces) /\ g.at \notin Idle
  BY <1>1 DEF ThType
<1>3. th' = [th EXCEPT ![p]["run"] = g]
  BY <1>1 DEF ThType
<1> QED BY <1>1, <1>2, <1>3, RunStep, Zenon

\* Answer of the caller.
LEMMA AnswerRun ==
  ASSUME ThType, NEW p \in Procs, NEW to \in RunPlaces \ Idle, NEW b \in BOOLEAN,
         th' = [th EXCEPT ![p]["run"].at = to, ![p]["run"].ok = b]
  PROVE  /\ ThType' /\ RunIs(p, [th[p].run EXCEPT !.at = to, !.ok = b])
         /\ th'[p].run.at = to /\ th'[p].run.ok = b /\ th'[p].run.age = th[p].run.age
<1>1. PICK g : g = [th[p].run EXCEPT !.at = to, !.ok = b]
  OBVIOUS
<1>2. g \in Gor(RunPlaces) /\ g.at \notin Idle /\ g.at = to /\ g.ok = b /\ g.age = th[p].run.age
  <2>1. PICK h \in Gor(RunPlaces) : h = [th[p].run EXCEPT !.at = to]
    BY DEF ThType
  <2>2. g = [h EXCEPT !.ok = b]
    BY <1>1, <2>1
  <2>3. h.at = to /\ h.age = th[p].run.age
    BY <2>1 DEF ThType
  <2> QED BY <2>1, <2>2, <2>3, Zenon
<1>3. th' = [th EXCEPT ![p]["run"] = g]
  BY <1>1, Zenon DEF ThType
<1>4. ThType' /\ RunIs(p, g)
  BY <1>2, <1>3, RunStep, Zenon
<1> QED BY <1>1, <1>2, <1>4, Zenon DEF RunIs

\* Goto of the extender.
LEMMA GotoExt ==
  ASSUME ThType, NEW p \in Procs, NEW to \in ExtPlaces, th' = [th EXCEPT ![p]["ext"] = Goroutine(to)]
  PROVE  ThType' /\ ExtIs(p, Goroutine(to))
<1>1. PICK g : g = Goroutine(to)
  OBVIOUS
<1>2. g \in Gor(ExtPlaces) /\ g.age = 0
  BY <1>1, HalfTTL DEF Goroutine
<1>3. th' = [th EXCEPT ![p]["ext"] = g]
  BY <1>1
<1> QED BY <1>1, <1>2, <1>3, ExtStep, Zenon

\* Answer of the extender.
LEMMA AnswerExt ==
  ASSUME ThType, NEW p \in Procs, NEW b \in BOOLEAN,
         th' = [th EXCEPT ![p]["ext"].at = "answer", ![p]["ext"].ok = b]
  PROVE  /\ ThType' /\ ExtIs(p, [th[p].ext EXCEPT !.at = "answer", !.ok = b])
         /\ th'[p].ext.at = "answer" /\ th'[p].ext.ok = b /\ th'[p].ext.age = th[p].ext.age
<1>1. PICK g : g = [th[p].ext EXCEPT !.at = "answer", !.ok = b]
  OBVIOUS
<1>2. g \in Gor(ExtPlaces) /\ g.at \notin Idle /\ g.at = "answer" /\ g.ok = b /\ g.age = th[p].ext.age
  <2>1. PICK h \in Gor(ExtPlaces) : h = [th[p].ext EXCEPT !.at = "answer"]
    BY DEF ThType
  <2>2. g = [h EXCEPT !.ok = b]
    BY <1>1, <2>1
  <2>3. h.at = "answer" /\ h.age = th[p].ext.age
    BY <2>1 DEF ThType
  <2> QED BY <2>1, <2>2, <2>3, Zenon
<1>3. th' = [th EXCEPT ![p]["ext"] = g]
  BY <1>1, Zenon DEF ThType
<1>4. ThType' /\ ExtIs(p, g)
  BY <1>2, <1>3, ExtStep, Zenon
<1> QED BY <1>1, <1>2, <1>4, Zenon DEF ExtIs

\* The extender waits for half the time to live.
Waiting == [at |-> "wait", ok |-> FALSE, age |-> 0, timer |-> Half]

\* That is what AutoExtendSpawn and ExtenderGot make of it.
LEMMA WaitingType == Waiting \in Gor(ExtPlaces) /\ Waiting = [Goroutine("wait") EXCEPT !.timer = Half]
<1>1. Half \in 0 .. TTL /\ 0 \in 0 .. MaxLag
  BY HalfTTL
<1>2. Waiting \in Gor(ExtPlaces)
  BY <1>1 DEF Waiting
<1>3. Waiting = [Goroutine("wait") EXCEPT !.timer = Half]
  <2>1. PICK g : g = Goroutine("wait")
    OBVIOUS
  <2>. g \in Gor(ExtPlaces)
    BY <1>1, <2>1, HalfTTL DEF Goroutine
  <2>2. PICK h \in Gor(ExtPlaces) : h = [g EXCEPT !.timer = Half]
    BY <1>1, <2>1, Zenon
  <2>3. h.at = Waiting.at /\ h.ok = Waiting.ok /\ h.age = Waiting.age /\ h.timer = Waiting.timer
    BY <2>1, <2>2 DEF Waiting, Goroutine
  <2> QED BY <1>2, <2>1, <2>2, <2>3
<1> QED BY <1>2, <1>3

\* The extender waits after an answer, or ends with the context it has cancelled.
LEMMA GotExt ==
  ASSUME ThType, NEW p \in Procs, NEW answer \in {"extended", "lost", "done"}, ExtenderGot(p, answer)
  PROVE  /\ ThType' /\ ExtIs(p, IF answer = "extended" THEN Waiting ELSE Goroutine("off"))
         /\ ctx' = IF answer = "extended" THEN ctx ELSE Canceled(p, answer)
<1>1. CASE answer = "extended"
  <2>1. th' = [th EXCEPT ![p]["ext"] = Waiting]
    BY <1>1, WaitingType DEF ExtenderGot
  <2>2. ThType' /\ ExtIs(p, Waiting)
    BY <2>1, ExtStep, WaitingType, Zenon DEF Waiting
  <2> QED BY <1>1, <2>2 DEF ExtenderGot
<1>2. CASE answer # "extended"
  <2>1. ThType' /\ ExtIs(p, Goroutine("off"))
    BY <1>2, GotoExt DEF ExtenderGot, Goto
  <2> QED BY <1>2, <2>1 DEF ExtenderGot
<1> QED BY <1>1, <1>2

\* Both goroutines of p have changed.
LEMMA BothStep ==
  ASSUME ThType, NEW p \in Procs, th' \in [Procs -> [run : Gor(RunPlaces), ext : Gor(ExtPlaces)]],
         th'[p].run.age = 0, th'[p].ext.age = 0, Others(p)
  PROVE  ThType'
<1> HIDE DEF Idle
<1>1. ASSUME NEW q \in Procs
      PROVE  /\ th'[q].run.at \in Idle => th'[q].run.age = 0
             /\ th'[q].ext.at \in Idle => th'[q].ext.age = 0
  <2>1. CASE q = p
    BY <2>1
  <2>2. CASE q # p
    BY <2>2 DEF ThType, Others
  <2> QED BY <2>1, <2>2
<1> QED BY <1>1 DEF ThType

\* The lock object of p has become l.
LockIs(p, l) == lk' \in [Procs -> LockType] /\ lk'[p] = l /\ \A q \in Procs \ {p} : lk'[q] = lk[q]

\* A step that replaces the lock object of p.
LEMMA LockStep ==
  ASSUME lk \in [Procs -> LockType], NEW p \in Procs, NEW l \in LockType, lk' = [lk EXCEPT ![p] = l]
  PROVE  LockIs(p, l)
  BY DEF LockIs

\* A new expiration.
LEMMA SetExpiration ==
  ASSUME lk \in [Procs -> LockType], NEW p \in Procs, NEW x \in Int, lk' = [lk EXCEPT ![p].expiration = x]
  PROVE  \E l \in LockType : /\ LockIs(p, l) /\ l.expiration = x
                             /\ l.locked = lk[p].locked /\ l.autoExtenderCancel = lk[p].autoExtenderCancel
<1>1. PICK k \in LockType : k = lk[p]
  OBVIOUS
<1>2. PICK l : l = [k EXCEPT !.expiration = x]
  BY Zenon
<1>3. l \in LockType /\ l.expiration = x /\ l.locked = k.locked /\ l.autoExtenderCancel = k.autoExtenderCancel
  BY <1>1, <1>2
<1>4. lk' = [lk EXCEPT ![p] = l]
  BY <1>1, <1>2
<1> QED BY <1>1, <1>3, <1>4, LockStep, Zenon

\* The extender can be cancelled.
LEMMA SetCancel ==
  ASSUME lk \in [Procs -> LockType], NEW p \in Procs, lk' = [lk EXCEPT ![p].autoExtenderCancel = TRUE]
  PROVE  \E l \in LockType : /\ LockIs(p, l) /\ l.autoExtenderCancel = TRUE
                             /\ l.locked = lk[p].locked /\ l.expiration = lk[p].expiration
<1>1. PICK k \in LockType : k = lk[p]
  OBVIOUS
<1>2. PICK l : l = [k EXCEPT !.autoExtenderCancel = TRUE]
  BY Zenon
<1>3. l \in LockType /\ l.expiration = k.expiration /\ l.locked = k.locked /\ l.autoExtenderCancel = TRUE
  BY <1>1, <1>2, Zenon
<1>4. lk' = [lk EXCEPT ![p] = l]
  BY <1>1, <1>2
<1> QED BY <1>1, <1>3, <1>4, LockStep, Zenon

\* The lease is forgotten, and the context cancelled if the extender's cancel function is known.
LEMMA ForgetStep ==
  ASSUME TypeOK, NEW p \in Procs, Forget(p)
  PROVE  /\ \E l \in LockType : /\ LockIs(p, l) /\ l.autoExtenderCancel = FALSE
                                /\ l.locked = FALSE /\ l.expiration = ZeroTime
         /\ ctx' \in [Procs -> {"none", "live", "lost", "done"}]
         /\ \A q \in Procs \ {p} : ctx'[q] = ctx[q]
         /\ ctx'[p] = IF lk[p].autoExtenderCancel /\ ctx[p] = "live" THEN "done" ELSE ctx[p]
<1>1. PICK k \in LockType : k = lk[p]
  BY DEF TypeOK
<1>2. PICK l : l = [k EXCEPT !.autoExtenderCancel = FALSE, !.expiration = ZeroTime, !.locked = FALSE]
  OBVIOUS
<1>3. l = [expiration |-> ZeroTime, autoExtenderCancel |-> FALSE, locked |-> FALSE, mu |-> k.mu]
  BY <1>1, <1>2, Zenon
<1>4. l \in LockType /\ l.expiration = ZeroTime /\ l.locked = FALSE /\ l.autoExtenderCancel = FALSE
  BY <1>1, <1>3 DEF ZeroTime
<1>5. lk' = [lk EXCEPT ![p] = l]
  BY <1>1, <1>2, Zenon DEF Forget, TypeOK
<1>6. LockIs(p, l)
  BY <1>4, <1>5, LockStep, Zenon DEF TypeOK
<1>7. ctx' = IF lk[p].autoExtenderCancel THEN [ctx EXCEPT ![p] = IF @ = "live" THEN "done" ELSE @] ELSE ctx
  BY DEF Forget, Canceled
<1> HIDE DEF LockType
<1>8. /\ ctx' \in [Procs -> {"none", "live", "lost", "done"}]
      /\ \A q \in Procs \ {p} : ctx'[q] = ctx[q]
      /\ ctx'[p] = IF lk[p].autoExtenderCancel /\ ctx[p] = "live" THEN "done" ELSE ctx[p]
  <2>1. CASE lk[p].autoExtenderCancel
    BY <1>7, <2>1 DEF TypeOK
  <2>2. CASE ~lk[p].autoExtenderCancel
    BY <1>7, <2>2 DEF TypeOK
  <2> QED BY <2>1, <2>2
<1> QED BY <1>4, <1>6, <1>8

-----------------------------------------------------------------------------
(* A step of p leaves the others alone, and a lease of another is left to it. *)
Apart(p) ==
  /\ late' = late /\ Others(p)
  /\ \A q \in Procs \ {p} : lk'[q] = lk[q] /\ ctx'[q] = ctx[q] /\ again'[q] = again[q] /\ watch'[q] = watch[q]

Kept(p) ==
  /\ srv'.left \in Int
  /\ \A q \in Procs \ {p} : srv.owner = q /\ srv.left > 0 => srv'.owner = q /\ srv'.left >= srv.left

\* The types of p's fields.
LEMMA Fields ==
  ASSUME TypeOK, NEW p \in Procs
  PROVE  /\ p # None
         /\ th[p].run.age \in Nat /\ th[p].run.age <= MaxLag /\ th[p].run.ok \in BOOLEAN
         /\ th[p].ext.age \in Nat /\ th[p].ext.age <= MaxLag /\ th[p].ext.ok \in BOOLEAN
         /\ th[p].ext.timer \in Nat /\ th[p].ext.timer <= TTL
         /\ (th[p].run.at \in Idle => th[p].run.age = 0) /\ (th[p].ext.at \in Idle => th[p].ext.age = 0)
         /\ lk[p].expiration \in Int
<1>1. PICK r \in Gor(RunPlaces) : r = th[p].run
  BY DEF TypeOK, ThType
<1>2. PICK e \in Gor(ExtPlaces) : e = th[p].ext
  BY DEF TypeOK, ThType
<1>3. PICK l \in LockType : l = lk[p]
  BY DEF TypeOK
<1>4. (th[p].run.at \in Idle => th[p].run.age = 0) /\ (th[p].ext.at \in Idle => th[p].ext.age = 0)
  BY DEF TypeOK, ThType
<1>5. p # None
  BY LockAssumption
<1> HIDE DEF Idle
<1> QED BY <1>1, <1>2, <1>3, <1>4, <1>5, HalfTTL

\* What a step of another process leaves to q is as safe as before.
LEMMA LeaseFrame ==
  ASSUME TypeOK, NEW q \in Procs, LeaseSafe(q), srv.left \in Int, srv'.left \in Int,
         th'[q] = th[q], lk'[q] = lk[q], ctx'[q] = ctx[q],
         srv.owner = q /\ srv.left > 0 => srv'.owner = q /\ srv'.left >= srv.left
  PROVE  LeaseSafe(q)'
<1>1. PICK r \in Gor(RunPlaces) : r = th[q].run
  BY DEF TypeOK, ThType
<1>2. PICK e \in Gor(ExtPlaces) : e = th[q].ext
  BY DEF TypeOK, ThType
<1>3. PICK l \in LockType : l = lk[q]
  BY DEF TypeOK
<1>4. \A b \in Int : b > 0 /\ Leased(q, b) => Leased(q, b)'
  BY DEF Leased
<1>5. /\ e.timer + Half - MaxDelay \in Int /\ e.timer + Half - MaxDelay > 0
      /\ TTL - e.age \in Int /\ TTL - e.age > 0
      /\ TTL - r.age \in Int /\ TTL - r.age > 0
      /\ e.age <= MaxDelay => Half - MaxDelay - e.age \in Int /\ Half - MaxDelay - e.age > 0
  BY HalfTTL
<1>6. Punctual(q)' /\ (e.at = "due" => e.age <= MaxDelay)
  BY <1>2 DEF Punctual, LeaseSafe
<1>7. (Got(q) => Leased(q, TTL - th[q].run.age))'
  BY <1>1, <1>4, <1>5 DEF LeaseSafe, Got
<1>8. Covered(q)'
  BY <1>2, <1>4, <1>5, <1>6 DEF LeaseSafe, Covered, Live
<1>9. Extended(q)'
  BY <1>2, <1>4, <1>5 DEF LeaseSafe, Extended
<1>10. Honest(q)'
  BY <1>3, <1>4 DEF LeaseSafe, Honest
<1>11. Ahead(q)'
  BY DEF LeaseSafe, Ahead
<1> QED BY <1>6, <1>7, <1>8, <1>9, <1>10, <1>11 DEF LeaseSafe

\* It is enough to look at the process that takes the step.
LEMMA FreshOthers ==
  ASSUME Base, NEW p \in Procs, TypeOK', Apart(p), Fresh(p)'
  PROVE  Base'
<1>1. ASSUME NEW q \in Procs PROVE Fresh(q)'
  <2>1. CASE q = p
    BY <2>1
  <2>2. CASE q # p
    BY <2>2 DEF Base, Fresh, Live, Apart, Others
  <2> QED BY <2>1, <2>2
<1> QED BY <1>1 DEF Base

\* The same over Redis and Postgres, where the step must leave the leases of the others.
LEMMA LeaseClosing ==
  ASSUME LeaseInv, NEW p \in Procs, TypeOK', Apart(p), Kept(p), Fresh(p)', ~late => LeaseSafe(p)'
  PROVE  LeaseInv'
<1>1. Base'
  BY FreshOthers DEF LeaseInv
<1>2. ASSUME ~late', NEW q \in Procs PROVE LeaseSafe(q)'
  <2>1. CASE q = p
    BY <1>2, <2>1 DEF Apart
  <2>2. CASE q # p
    BY <1>2, <2>2, LeaseFrame DEF LeaseInv, Base, Apart, Others, Kept
  <2> QED BY <2>1, <2>2
<1> QED BY <1>1, <1>2 DEF LeaseInv, Kept

\* The same over the local lock.
LEMMA LocalClosing ==
  ASSUME LocalInv, NEW p \in Procs, TypeOK', Apart(p), Fresh(p)', ~late => LocalSafe(p)'
  PROVE  LocalInv'
<1>1. Base'
  BY FreshOthers DEF LocalInv
<1>2. ASSUME ~late', NEW q \in Procs PROVE LocalSafe(q)'
  <2>1. CASE q = p
    BY <1>2, <2>1 DEF Apart
  <2>2. CASE q # p
    BY <1>2, <2>2 DEF LocalInv, LocalSafe, Punctual, Apart, Others
  <2> QED BY <2>1, <2>2
<1> QED BY <1>1, <1>2 DEF LocalInv

-----------------------------------------------------------------------------
(* The steps of Redis and Postgres, by what they do to the process.          *)

\* The caller goes where it neither has nor asks for the resource.
LEMMA AwayStep ==
  ASSUME LeaseInv, NEW p \in Procs, NEW g, ThType', RunIs(p, g),
         g.at \notin {"held", "derive", "work", "answer", "commit"},
         \/ g.at \in Idle \cup {"unlocking", "unlocked"} \/ g.age = 0
         \/ g.age = th[p].run.age /\ th[p].run.at \notin Idle \cup {"unlocking", "unlocked"},
         g.at \in Locking => th[p].ext.at = "off" /\ ~again'[p],
         NEW l, LockIs(p, l),
         ctx' \in [Procs -> {"none", "live", "lost", "done"}], \A q \in Procs \ {p} : ctx'[q] = ctx[q],
         ctx'[p] = "lost" => ctx[p] = "lost",
         again' \in [Procs -> BOOLEAN], \A q \in Procs \ {p} : again'[q] = again[q],
         again'[p] => again[p] \/ ctx[p] = "lost",
         UNCHANGED <<hctx, watch, late>>, Kept(p)
  PROVE  LeaseInv'
<1>1. th'[p].run = g /\ th'[p].ext = th[p].ext
  BY DEF RunIs
<1>2. TypeOK' /\ Apart(p)
  BY DEF LeaseInv, Base, TypeOK, Apart, RunIs, LockIs
<1>3. Fresh(p)'
  BY <1>1 DEF LeaseInv, Base, Fresh, Live
<1>4. ASSUME ~late PROVE LeaseSafe(p)'
  <2>1. Punctual(p)'
    BY <1>1, <1>4, HalfTTL DEF LeaseInv, LeaseSafe, Punctual
  <2>2. ~Got(p)' /\ Covered(p)' /\ Extended(p)' /\ Honest(p)' /\ Ahead(p)'
    BY <1>1 DEF Got, Covered, Extended, Honest, Ahead, Live
  <2> QED BY <2>1, <2>2 DEF LeaseSafe
<1> QED BY <1>2, <1>3, <1>4, LeaseClosing

\* The same with the object and the contexts as they were.
LEMMA AwayGoto ==
  ASSUME LeaseInv, NEW p \in Procs,
         NEW to \in {"sleep", "failed", "try", "creating", "select", "unlock", "unlocking", "closed"},
         th' = [th EXCEPT ![p]["run"] = Goroutine(to)], UNCHANGED <<lk, ctx, hctx, again, watch, late>>,
         to \in Locking => th[p].run.at \in Locking, Kept(p)
  PROVE  LeaseInv' /\ RunIs(p, Goroutine(to))
<1>1. PICK g : g = Goroutine(to)
  OBVIOUS
<1>2. ThType' /\ RunIs(p, g) /\ g.at = to /\ g.age = 0
  BY <1>1, GotoRun, Zenon DEF LeaseInv, Base, TypeOK, Goroutine
<1>3. LockIs(p, lk[p]) /\ ctx \in [Procs -> {"none", "live", "lost", "done"}] /\ again \in [Procs -> BOOLEAN]
  BY DEF LeaseInv, Base, TypeOK, LockIs
<1>4. to \in Locking => th[p].ext.at = "off" /\ ~again[p]
  BY DEF LeaseInv, Base, Fresh
<1> QED BY <1>1, <1>2, <1>3, <1>4, AwayStep

\* The same while the call goes on.
LEMMA AwayMove ==
  ASSUME LeaseInv, NEW p \in Procs, NEW to \in {"select", "insert", "update", "unlocked"},
         th' = [th EXCEPT ![p]["run"].at = to], UNCHANGED <<lk, ctx, hctx, again, watch, late>>,
         to # "unlocked" => th[p].run.at \in {"creating", "select"}, Kept(p)
  PROVE  LeaseInv' /\ RunIs(p, [th[p].run EXCEPT !.at = to])
<1>1. PICK g : g = [th[p].run EXCEPT !.at = to]
  BY Zenon
<1>2. ThType' /\ RunIs(p, g)
  BY <1>1, MoveRun, Zenon DEF LeaseInv, Base, TypeOK
<1>3. g.at = to /\ g.age = th[p].run.age
  BY <1>1 DEF LeaseInv, Base, TypeOK, ThType
<1>4. LockIs(p, lk[p]) /\ ctx \in [Procs -> {"none", "live", "lost", "done"}] /\ again \in [Procs -> BOOLEAN]
  BY DEF LeaseInv, Base, TypeOK, LockIs
<1>5. to \in Locking => th[p].ext.at = "off" /\ ~again[p]
  BY DEF LeaseInv, Base, Fresh
<1> QED BY <1>1, <1>2, <1>3, <1>4, <1>5, AwayStep, Zenon

\* The script of Redis has answered TryLock: the key is ours if it says so.
LEMMA AnswerStep ==
  ASSUME LeaseInv, NEW p \in Procs, NEW b \in BOOLEAN, th[p].run.at = "try",
         th' = [th EXCEPT ![p]["run"].at = "answer", ![p]["run"].ok = b],
         UNCHANGED <<lk, ctx, hctx, again, watch, late>>,
         Kept(p), b => srv'.owner = p /\ srv'.left >= TTL
  PROVE  LeaseInv'
<1>1. /\ ThType' /\ RunIs(p, [th[p].run EXCEPT !.at = "answer", !.ok = b])
      /\ th'[p].run.at = "answer" /\ th'[p].run.ok = b /\ th'[p].run.age = th[p].run.age
  BY AnswerRun, Zenon DEF LeaseInv, Base, TypeOK
<1>2. th'[p].run.at = "answer" /\ th'[p].run.ok = b /\ th'[p].run.age = 0 /\ th'[p].ext = th[p].ext
  BY <1>1, Fields, Zenon DEF LeaseInv, Base, RunIs
<1>3. TypeOK' /\ Apart(p)
  BY <1>1 DEF LeaseInv, Base, TypeOK, Apart, RunIs
<1>4. Fresh(p)'
  BY <1>2, Zenon DEF LeaseInv, Base, Fresh, Live
<1>5. ASSUME ~late PROVE LeaseSafe(p)'
  <2>1. Punctual(p)'
    <3>1. Punctual(p) /\ 0 <= MaxDelay
      BY <1>5, HalfTTL DEF LeaseInv, LeaseSafe
    <3> QED BY <1>2, <3>1, Zenon DEF Punctual
  <2>2. (Got(p) => Leased(p, TTL - th[p].run.age))'
    BY <1>2, HalfTTL DEF Got, Leased, Kept
  <2>3. Covered(p)' /\ Extended(p)' /\ Honest(p)' /\ Ahead(p)'
    BY <1>2 DEF Covered, Extended, Honest, Ahead, Live
  <2> QED BY <2>1, <2>2, <2>3 DEF LeaseSafe
<1> QED BY <1>3, <1>4, <1>5, LeaseClosing

\* A statement of Postgres has written the row, if b, and the commit is next.
LEMMA CommitStep ==
  ASSUME LeaseInv, NEW p \in Procs, NEW b \in BOOLEAN, th[p].run.at \in {"update", "insert"},
         th' = [th EXCEPT ![p]["run"].at = "commit", ![p]["run"].ok = b],
         lk' = IF b THEN [lk EXCEPT ![p].expiration = TTL - th[p].run.age] ELSE lk,
         UNCHANGED <<ctx, hctx, again, watch, late>>, Kept(p)
  PROVE  LeaseInv' /\ RunIs(p, [th[p].run EXCEPT !.at = "commit", !.ok = b])
<1>1. /\ ThType' /\ RunIs(p, [th[p].run EXCEPT !.at = "commit", !.ok = b])
      /\ th'[p].run.at = "commit" /\ th'[p].run.ok = b /\ th'[p].run.age = th[p].run.age
  BY AnswerRun, Zenon DEF LeaseInv, Base, TypeOK
<1>2. th'[p].run.at = "commit" /\ th'[p].run.ok = b /\ th'[p].run.age = th[p].run.age /\ th'[p].ext = th[p].ext
  BY <1>1 DEF RunIs
<1>3. PICK x \in Int : x = TTL - th[p].run.age
  BY Fields, HalfTTL DEF LeaseInv, Base
<1>4. PICK l \in LockType : LockIs(p, l) /\ (b => l.expiration = x)
  <2> HIDE DEF LockType
  <2>1. lk \in [Procs -> LockType]
    BY DEF LeaseInv, Base, TypeOK
  <2>2. CASE b
    BY <1>3, <2>1, <2>2, SetExpiration, Zenon
  <2>3. CASE ~b
    BY <2>1, <2>3 DEF LockIs
  <2> QED BY <2>2, <2>3
<1>5. TypeOK' /\ Apart(p)
  BY <1>1, <1>4 DEF LeaseInv, Base, TypeOK, Apart, RunIs, LockIs
<1>6. Fresh(p)'
  BY <1>2 DEF LeaseInv, Base, Fresh, Live
<1>7. ASSUME ~late PROVE LeaseSafe(p)'
  <2>1. Punctual(p)'
    BY <1>2, <1>7 DEF LeaseInv, LeaseSafe, Punctual
  <2>2. ~Got(p)' /\ Covered(p)' /\ Extended(p)' /\ Ahead(p)'
    BY <1>2 DEF Got, Covered, Extended, Ahead, Live
  <2>3. Honest(p)'
    BY <1>2, <1>3, <1>4 DEF Honest, LockIs
  <2> QED BY <2>1, <2>2, <2>3 DEF LeaseSafe
<1> QED BY <1>1, <1>5, <1>6, <1>7, LeaseClosing

\* TryLock returns true: the resource is p's, for as long as p believes.
LEMMA HeldStep ==
  ASSUME LeaseInv, NEW p \in Procs, th[p].run.at \in {"answer", "commit"},
         th' = [th EXCEPT ![p]["run"].at = "held"], NEW l \in LockType, LockIs(p, l),
         UNCHANGED <<ctx, hctx, again, watch, late>>, Kept(p),
         ~late => /\ Leased(p, TTL - th[p].run.age)'
                  /\ l.expiration > 0 => srv'.left >= l.expiration
  PROVE  LeaseInv'
<1>1. ThType' /\ RunIs(p, [th[p].run EXCEPT !.at = "held"])
  BY MoveRun, Zenon DEF LeaseInv, Base, TypeOK
<1>2. th'[p].run.at = "held" /\ th'[p].run.age = th[p].run.age /\ th'[p].ext = th[p].ext /\ lk'[p] = l
  BY <1>1 DEF LeaseInv, Base, TypeOK, ThType, RunIs, LockIs
<1>3. TypeOK' /\ Apart(p)
  BY <1>1 DEF LeaseInv, Base, TypeOK, Apart, RunIs, LockIs
<1>4. Fresh(p)'
  BY <1>2 DEF LeaseInv, Base, Fresh, Live
<1>5. ASSUME ~late PROVE LeaseSafe(p)'
  <2>1. Punctual(p)'
    BY <1>2, <1>5 DEF LeaseInv, LeaseSafe, Punctual
  <2>2. Covered(p)' /\ Extended(p)' /\ Ahead(p)'
    BY <1>2 DEF Covered, Extended, Ahead, Live
  <2>3. Honest(p)'
    BY <1>2, <1>5 DEF Honest, Leased
  <2> QED BY <1>5, <2>1, <2>2, <2>3 DEF LeaseSafe
<1> QED BY <1>3, <1>4, <1>5, LeaseClosing

\* Extend of Redis or Postgres reaches the store: the lease is extended, if b, and it is
\* whenever p has time left.
LEMMA ExtendStep ==
  ASSUME LeaseInv, NEW p \in Procs, NEW b \in BOOLEAN, th[p].ext.at = "due",
         th' = [th EXCEPT ![p]["ext"].at = "answer", ![p]["ext"].ok = b],
         UNCHANGED <<lk, ctx, hctx, again, watch, late>>, Kept(p),
         b => srv'.owner = p /\ srv'.left >= TTL - th[p].ext.age,
         srv.owner = p /\ srv.left > 0 => b
  PROVE  LeaseInv' /\ ExtIs(p, [th[p].ext EXCEPT !.at = "answer", !.ok = b])
<1>1. /\ ThType' /\ ExtIs(p, [th[p].ext EXCEPT !.at = "answer", !.ok = b])
      /\ th'[p].ext.at = "answer" /\ th'[p].ext.ok = b /\ th'[p].ext.age = th[p].ext.age
  BY AnswerExt, Zenon DEF LeaseInv, Base, TypeOK
<1>2. /\ th'[p].ext.at = "answer" /\ th'[p].ext.ok = b /\ th'[p].ext.age = th[p].ext.age
      /\ th'[p].run = th[p].run
  BY <1>1, Zenon DEF ExtIs
<1>3. TypeOK' /\ Apart(p)
  BY <1>1 DEF LeaseInv, Base, TypeOK, Apart, ExtIs
<1>4. th[p].run.at \notin Locking /\ Fresh(p)'
  BY <1>2, Zenon DEF LeaseInv, Base, Fresh, Live
<1>5. ASSUME ~late PROVE LeaseSafe(p)'
  <2>1. /\ LeaseSafe(p) /\ th[p].ext.age \in Nat /\ th[p].ext.age <= MaxDelay
        /\ lk[p].expiration \in Int /\ srv.left \in Int
    BY <1>5, Fields DEF LeaseInv, Base, LeaseSafe, Punctual
  <2>2. Punctual(p)' /\ ~Got(p)' /\ Ahead(p)'
    BY <1>2, <1>4, <2>1, Zenon DEF LeaseSafe, Punctual, Got, Ahead
  <2>3. Extended(p)'
    BY <1>2 DEF Extended, Leased
  <2>4. Covered(p)'
    <3>1. ASSUME Live(p)' PROVE b
      <4>1. Leased(p, Half - MaxDelay - th[p].ext.age)
        BY <1>2, <2>1, <3>1 DEF Live, LeaseSafe, Covered
      <4> QED BY <2>1, <4>1, HalfTTL DEF Leased
    <3> QED BY <1>2, <3>1, Zenon DEF Covered
  <2>5. Honest(p)'
    <3>1. ASSUME lk[p].expiration > 0, th[p].run.at = "work" PROVE Leased(p, lk[p].expiration)'
      <4>1. Leased(p, lk[p].expiration) /\ lk[p].expiration <= Half - th[p].ext.age
        BY <2>1, <3>1 DEF LeaseSafe, Honest, Ahead
      <4>2. srv.owner = p /\ srv.left > 0
        BY <2>1, <3>1, <4>1 DEF Leased
      <4> QED BY <2>1, <4>1, <4>2, HalfTTL DEF Leased, Kept
    <3> QED BY <1>2, <1>4, <3>1 DEF Honest
  <2> QED BY <2>1, <2>2, <2>3, <2>4, <2>5 DEF LeaseSafe
<1> QED BY <1>1, <1>3, <1>4, <1>5, LeaseClosing

\* Extend has extended the lease, until x as far as p knows, and the extender waits again.
LEMMA ExtendedStep ==
  ASSUME LeaseInv, NEW p \in Procs, th[p].ext.at = "answer", th[p].ext.ok,
         ThType', ExtIs(p, Waiting), NEW x \in Int, lk' = [lk EXCEPT ![p].expiration = x],
         UNCHANGED <<srv, ctx, hctx, again, watch, late>>, x <= TTL,
         x > 0 /\ Leased(p, TTL - th[p].ext.age) => Leased(p, x)
  PROVE  LeaseInv'
<1>1. PICK l \in LockType : LockIs(p, l) /\ l.expiration = x
  <2>1. lk \in [Procs -> LockType]
    BY DEF LeaseInv, Base, TypeOK
  <2> HIDE DEF LockType
  <2> QED BY <2>1, SetExpiration, Zenon
<1>2. /\ th'[p].ext.at = "wait" /\ th'[p].ext.age = 0 /\ th'[p].ext.timer = Half
      /\ th'[p].run = th[p].run /\ lk'[p].expiration = x
  BY <1>1 DEF ExtIs, Waiting, LockIs
<1>3. TypeOK' /\ Apart(p) /\ Kept(p)
  BY <1>1 DEF LeaseInv, Base, TypeOK, Apart, ExtIs, LockIs, Kept
<1>4. th[p].run.at \notin Locking /\ Fresh(p)'
  BY <1>2 DEF LeaseInv, Base, Fresh, Live
<1>5. ASSUME ~late PROVE LeaseSafe(p)'
  <2>1. LeaseSafe(p) /\ th[p].ext.age \in Nat /\ th[p].ext.age <= MaxDelay /\ srv.left \in Int
    BY <1>5, Fields DEF LeaseInv, Base, LeaseSafe, Punctual
  <2>2. Punctual(p)' /\ ~Got(p)' /\ Extended(p)'
    BY <1>2, <1>4, <2>1 DEF LeaseSafe, Punctual, Got, Extended
  <2>3. Ahead(p)'
    BY <1>2, HalfTTL DEF Ahead
  <2>4. ASSUME th[p].run.at = "work" PROVE Leased(p, TTL - th[p].ext.age)
    BY <2>1, <2>4 DEF LeaseSafe, Extended
  <2>5. Covered(p)'
    BY <1>2, <2>1, <2>4, HalfTTL DEF Covered, Live, Leased
  <2>6. Honest(p)'
    BY <1>2, <1>4, <2>4 DEF Honest, Leased
  <2> QED BY <2>2, <2>3, <2>5, <2>6 DEF LeaseSafe
<1> QED BY <1>3, <1>4, <1>5, LeaseClosing

\* The extender ends and cancels the context: the lease is lost, or Extend has failed.
LEMMA LostStep ==
  ASSUME LeaseInv, NEW p \in Procs, NEW cause \in {"lost", "done"},
         ThType', ExtIs(p, Goroutine("off")), ctx' = Canceled(p, cause),
         lk' = lk \/ lk' = [lk EXCEPT ![p].expiration = ZeroTime],
         UNCHANGED <<srv, hctx, again, watch, late>>
  PROVE  LeaseInv'
<1>1. PICK l \in LockType : LockIs(p, l) /\ (l.expiration = lk[p].expiration \/ l.expiration = ZeroTime)
  <2>1. lk \in [Procs -> LockType] /\ ZeroTime \in Int
    BY DEF LeaseInv, Base, TypeOK, ZeroTime
  <2> HIDE DEF LockType
  <2>2. CASE lk' = lk
    BY <2>1, <2>2 DEF LockIs
  <2>3. CASE lk' = [lk EXCEPT ![p].expiration = ZeroTime]
    BY <2>1, <2>3, SetExpiration, Zenon
  <2> QED BY <2>2, <2>3
<1>2. /\ ctx' \in [Procs -> {"none", "live", "lost", "done"}] /\ \A q \in Procs \ {p} : ctx'[q] = ctx[q]
      /\ ctx'[p] # "live"
  BY DEF LeaseInv, Base, TypeOK, Canceled
<1>3. th'[p].ext.at = "off" /\ th'[p].ext.age = 0 /\ th'[p].run = th[p].run /\ lk'[p] = l
  BY <1>1 DEF ExtIs, Goroutine, LockIs
<1>4. TypeOK' /\ Apart(p) /\ Kept(p)
  BY <1>1, <1>2 DEF LeaseInv, Base, TypeOK, Apart, ExtIs, LockIs, Kept
<1>5. Fresh(p)' /\ ~Live(p)'
  BY <1>2, <1>3 DEF LeaseInv, Base, Fresh, Live
<1>6. ASSUME ~late PROVE LeaseSafe(p)'
  <2>1. LeaseSafe(p)
    BY <1>6 DEF LeaseInv
  <2>2. Punctual(p)' /\ Extended(p)' /\ Covered(p)' /\ Ahead(p)'
    BY <1>3, <1>5, <2>1 DEF LeaseSafe, Punctual, Extended, Covered, Ahead
  <2>3. (Got(p) => Leased(p, TTL - th[p].run.age))' /\ Honest(p)'
    BY <1>1, <1>3, <2>1 DEF LeaseSafe, Got, Honest, Leased, ZeroTime
  <2> QED BY <2>2, <2>3 DEF LeaseSafe
<1> QED BY <1>4, <1>5, <1>6, LeaseClosing

-----------------------------------------------------------------------------
(* AutoExtend, the extender's select, the worker and the handler, which are  *)
(* the same over the three locks: the store does not change.                 *)

\* No lease changes when the store does not.
LEMMA Quiet ==
  ASSUME LeaseInv, NEW p \in Procs, srv' = srv
  PROVE  Kept(p)
  BY DEF LeaseInv, Kept

\* The first half of AutoExtend.
LEMMA AutoExtendIs ==
  ASSUME Base, NEW p \in Procs, AutoExtend(p)
  PROVE  /\ TypeOK' /\ Apart(p) /\ Fresh(p)' /\ th[p].run.at = "held" /\ th'[p].ext = th[p].ext
         /\ UNCHANGED <<srv, lk, ctx, again, watch, late>>
         /\ \/ th'[p].run.at = "derive" /\ th'[p].run.age = th[p].run.age
            \/ th'[p].run.at = "unlock" /\ th'[p].run.age = 0
<1>1. th[p].run.at = "held" /\ ThType /\ UNCHANGED <<srv, lk, ctx, hctx, again, watch, late>>
  BY DEF Base, TypeOK, AutoExtend, At
<1>2. /\ ThType' /\ Others(p) /\ th'[p].ext = th[p].ext
      /\ \/ th'[p].run.at = "derive" /\ th'[p].run.age = th[p].run.age
         \/ th'[p].run.at = "unlock" /\ th'[p].run.age = 0
  <2>1. CASE hctx[p] = "live" /\ lk[p].expiration # ZeroTime
    <3>1. ThType' /\ RunIs(p, [th[p].run EXCEPT !.at = "derive"])
      BY <1>1, <2>1, MoveRun DEF AutoExtend, Move
    <3> QED BY <1>1, <3>1 DEF RunIs, ThType
  <2>2. CASE ~(hctx[p] = "live" /\ lk[p].expiration # ZeroTime)
    <3>1. ThType' /\ RunIs(p, Goroutine("unlock"))
      BY <1>1, <2>2, GotoRun DEF AutoExtend, Goto
    <3> QED BY <3>1 DEF RunIs, Goroutine
  <2> QED BY <2>1, <2>2
<1>3. TypeOK' /\ Apart(p)
  BY <1>1, <1>2 DEF Base, TypeOK, Apart
<1>4. Fresh(p)'
  BY <1>1, <1>2 DEF Base, Fresh, Live
<1> QED BY <1>1, <1>2, <1>3, <1>4

\* Over Redis and Postgres.
LEMMA AutoExtendLease ==
  ASSUME LeaseInv, NEW p \in Procs, AutoExtend(p)
  PROVE  LeaseInv'
<1>1. /\ TypeOK' /\ Apart(p) /\ Fresh(p)' /\ th[p].run.at = "held" /\ th'[p].ext = th[p].ext
      /\ UNCHANGED <<srv, lk, ctx, again, watch, late>>
      /\ \/ th'[p].run.at = "derive" /\ th'[p].run.age = th[p].run.age
         \/ th'[p].run.at = "unlock" /\ th'[p].run.age = 0
  BY AutoExtendIs DEF LeaseInv
<1>2. ASSUME ~late PROVE LeaseSafe(p)'
  <2>1. LeaseSafe(p)
    BY <1>2 DEF LeaseInv
  <2>2. Punctual(p)'
    BY <1>1, <2>1 DEF LeaseSafe, Punctual
  <2>3. (Got(p) => Leased(p, TTL - th[p].run.age))'
    BY <1>1, <2>1 DEF LeaseSafe, Got, Leased
  <2>4. Covered(p)' /\ Extended(p)' /\ Ahead(p)'
    BY <1>1 DEF Covered, Extended, Ahead, Live
  <2>5. Honest(p)'
    BY <1>1, <2>1 DEF LeaseSafe, Honest, Leased
  <2> QED BY <2>2, <2>3, <2>4, <2>5 DEF LeaseSafe
<1> QED BY <1>1, <1>2, Quiet, LeaseClosing

\* Over the local lock.
LEMMA AutoExtendLocal ==
  ASSUME LocalInv, NEW p \in Procs, AutoExtend(p)
  PROVE  LocalInv'
<1>1. /\ TypeOK' /\ Apart(p) /\ Fresh(p)' /\ th[p].run.at = "held" /\ th'[p].ext = th[p].ext
      /\ UNCHANGED <<srv, lk, ctx, again, watch, late>>
      /\ \/ th'[p].run.at = "derive" /\ th'[p].run.age = th[p].run.age
         \/ th'[p].run.at = "unlock" /\ th'[p].run.age = 0
  BY AutoExtendIs DEF LocalInv
<1>2. ASSUME ~late PROVE LocalSafe(p)'
  BY <1>1, <1>2 DEF LocalInv, LocalSafe, Punctual
<1> QED BY <1>1, <1>2, LocalClosing

\* The second half: the extender waits before its first Extend.
LEMMA SpawnIs ==
  ASSUME Base, NEW p \in Procs, AutoExtendSpawn(p)
  PROVE  /\ TypeOK' /\ Apart(p) /\ Fresh(p)' /\ th[p].run.at = "derive"
         /\ th'[p].run.at = "work" /\ th'[p].run.age = 0
         /\ th'[p].ext.at = "wait" /\ th'[p].ext.age = 0 /\ th'[p].ext.timer = Half
         /\ lk'[p].locked = lk[p].locked /\ lk'[p].expiration = lk[p].expiration
         /\ lk'[p].autoExtenderCancel = TRUE /\ ctx'[p] \in {"live", "done"}
         /\ UNCHANGED <<srv, again, watch, late>>
<1>1. /\ th[p].run.at = "derive" /\ ThType /\ UNCHANGED <<srv, hctx, again, watch, late>>
      /\ ctx' = [ctx EXCEPT ![p] = hctx[p]] /\ lk' = [lk EXCEPT ![p].autoExtenderCancel = TRUE]
  BY DEF Base, TypeOK, AutoExtendSpawn, At
<1>2. PICK g : g = Goroutine("work")
  OBVIOUS
<1>3. g \in Gor(RunPlaces) /\ g.at = "work" /\ g.age = 0
  BY <1>2, HalfTTL DEF Goroutine
<1>4. th' = [th EXCEPT ![p].run = g, ![p].ext = Waiting]
  BY <1>2, WaitingType DEF AutoExtendSpawn
<1>5. PICK l \in LockType : /\ LockIs(p, l) /\ l.autoExtenderCancel = TRUE
                            /\ l.locked = lk[p].locked /\ l.expiration = lk[p].expiration
  BY <1>1, SetCancel, Zenon DEF Base, TypeOK
<1>6. /\ ctx' \in [Procs -> {"none", "live", "lost", "done"}]
      /\ ctx'[p] \in {"live", "done"} /\ \A q \in Procs \ {p} : ctx'[q] = ctx[q]
  BY <1>1 DEF Base, TypeOK
<1>7. ThType' /\ th'[p].run = g /\ th'[p].ext = Waiting /\ Others(p)
  <2>1. th' \in [Procs -> [run : Gor(RunPlaces), ext : Gor(ExtPlaces)]]
    <3>1. PICK f : f = [th EXCEPT ![p].run = g]
      BY Zenon
    <3>2. f \in [Procs -> [run : Gor(RunPlaces), ext : Gor(ExtPlaces)]]
      BY <1>1, <1>3, <3>1 DEF ThType
    <3>3. PICK w \in Gor(ExtPlaces) : w = Waiting
      BY WaitingType
    <3>4. th' = [f EXCEPT ![p].ext = w]
      BY <1>4, <3>1, <3>3
    <3> QED BY <3>2, <3>4
  <2>2. th'[p].run = g /\ th'[p].ext = Waiting /\ Others(p)
    BY <1>1, <1>4 DEF ThType, Others
  <2>3. Waiting.age = 0
    BY DEF Waiting
  <2> QED BY <1>1, <1>3, <2>1, <2>2, <2>3, BothStep
<1>8. /\ th'[p].run.at = "work" /\ th'[p].run.age = 0
      /\ th'[p].ext.at = "wait" /\ th'[p].ext.age = 0 /\ th'[p].ext.timer = Half /\ lk'[p] = l
  BY <1>3, <1>5, <1>7 DEF Waiting, LockIs
<1>9. TypeOK' /\ Apart(p)
  BY <1>1, <1>5, <1>6, <1>7 DEF Base, TypeOK, Apart, Others, LockIs
<1>10. Fresh(p)'
  BY <1>1, <1>6, <1>8 DEF Base, Fresh, Live
<1> QED BY <1>1, <1>5, <1>6, <1>8, <1>9, <1>10

\* Over Redis and Postgres: the whole lease is left when the extender starts.
LEMMA SpawnLease ==
  ASSUME LeaseInv, srv.left <= TTL, NEW p \in Procs, AutoExtendSpawn(p)
  PROVE  LeaseInv'
<1>1. /\ TypeOK' /\ Apart(p) /\ Fresh(p)' /\ th[p].run.at = "derive"
      /\ th'[p].run.at = "work" /\ th'[p].run.age = 0
      /\ th'[p].ext.at = "wait" /\ th'[p].ext.age = 0 /\ th'[p].ext.timer = Half
      /\ lk'[p].expiration = lk[p].expiration /\ UNCHANGED <<srv, late>>
  BY SpawnIs, Zenon DEF LeaseInv
<1>2. ASSUME ~late PROVE LeaseSafe(p)'
  <2>1. LeaseSafe(p) /\ th[p].run.age \in Nat /\ lk[p].expiration \in Int /\ srv.left \in Int
    BY <1>2, Fields DEF LeaseInv, Base
  <2>2. srv.owner = p /\ srv.left >= TTL - MaxDelay
    BY <1>1, <2>1, HalfTTL DEF LeaseSafe, Punctual, Got, Leased
  <2>3. Covered(p)'
    BY <1>1, <2>1, <2>2, HalfTTL DEF Covered, Leased
  <2>4. Honest(p)'
    BY <1>1, <2>1 DEF LeaseSafe, Honest, Leased
  <2>5. lk[p].expiration > 0 => lk[p].expiration <= srv.left
    BY <1>1, <2>1 DEF LeaseSafe, Honest, Leased
  <2>6. lk[p].expiration <= Half + Half
    BY <2>1, <2>5, HalfTTL
  <2>7. Ahead(p)'
    BY <1>1, <2>6 DEF Ahead
  <2>8. Punctual(p)' /\ ~Got(p)' /\ Extended(p)'
    BY <1>1 DEF Punctual, Got, Extended
  <2> QED BY <2>3, <2>4, <2>7, <2>8 DEF LeaseSafe
<1> QED BY <1>1, <1>2, Quiet, LeaseClosing

\* Over the local lock.
LEMMA SpawnLocal ==
  ASSUME LocalInv, NEW p \in Procs, AutoExtendSpawn(p)
  PROVE  LocalInv'
<1>1. /\ TypeOK' /\ Apart(p) /\ Fresh(p)' /\ th[p].run.at = "derive"
      /\ th'[p].run.at = "work" /\ th'[p].run.age = 0
      /\ th'[p].ext.at = "wait" /\ th'[p].ext.age = 0 /\ th'[p].ext.timer = Half
      /\ lk'[p].locked = lk[p].locked /\ lk'[p].expiration = lk[p].expiration
      /\ lk'[p].autoExtenderCancel = TRUE /\ ctx'[p] \in {"live", "done"}
      /\ UNCHANGED <<srv, again, watch, late>>
  BY SpawnIs, Zenon DEF LocalInv
<1>2. ASSUME ~late PROVE LocalSafe(p)'
  <2>1. LocalSafe(p) /\ th[p].run.age \in Nat /\ lk[p].expiration \in Int
    BY <1>2, Fields DEF LocalInv, Base
  <2>2. lk[p].locked /\ lk[p].expiration >= Half + Half - MaxDelay
    BY <1>1, <2>1, HalfTTL DEF LocalSafe, Punctual
  <2> QED BY <1>1, <2>1, <2>2 DEF LocalSafe, Punctual
<1> QED BY <1>1, <1>2, LocalClosing

\* The extender's select.
LEMMA SelectIs ==
  ASSUME Base, NEW p \in Procs, ExtenderSelect(p)
  PROVE  /\ TypeOK' /\ Apart(p) /\ Fresh(p)' /\ th[p].ext.at = "wait" /\ th'[p].run = th[p].run
         /\ th'[p].ext.age = 0 /\ UNCHANGED <<srv, lk, ctx, again, watch, late>>
         /\ \/ ctx[p] # "live" /\ th'[p].ext.at = "off"
            \/ th[p].ext.timer = 0 /\ th'[p].ext.at = "due"
<1>1. th[p].ext.at = "wait" /\ ThType /\ UNCHANGED <<srv, lk, ctx, hctx, again, watch, late>>
  BY DEF Base, TypeOK, ExtenderSelect, At
<1>2. PICK to \in {"off", "due"} : /\ Goto(p, "ext", to)
                                   /\ \/ ctx[p] # "live" /\ to = "off"
                                      \/ th[p].ext.timer = 0 /\ to = "due"
  BY DEF ExtenderSelect
<1>3. ThType' /\ ExtIs(p, Goroutine(to))
  BY <1>1, <1>2, GotoExt, Zenon DEF Goto
<1>4. th'[p].ext.at = to /\ th'[p].ext.age = 0 /\ th'[p].run = th[p].run /\ Others(p)
  BY <1>3 DEF ExtIs, Goroutine
<1>5. TypeOK' /\ Apart(p)
  BY <1>1, <1>3, <1>4 DEF Base, TypeOK, Apart
<1>6. Fresh(p)'
  BY <1>1, <1>2, <1>4 DEF Base, Fresh, Live
<1> QED BY <1>1, <1>2, <1>4, <1>5, <1>6

\* Over Redis and Postgres.
LEMMA SelectLease ==
  ASSUME LeaseInv, NEW p \in Procs, ExtenderSelect(p)
  PROVE  LeaseInv'
<1>1. /\ TypeOK' /\ Apart(p) /\ Fresh(p)' /\ th[p].ext.at = "wait" /\ th'[p].run = th[p].run
      /\ th'[p].ext.age = 0 /\ UNCHANGED <<srv, lk, ctx, again, watch, late>>
      /\ \/ ctx[p] # "live" /\ th'[p].ext.at = "off"
         \/ th[p].ext.timer = 0 /\ th'[p].ext.at = "due"
  BY SelectIs DEF LeaseInv
<1>2. ASSUME ~late PROVE LeaseSafe(p)'
  <2>1. LeaseSafe(p) /\ lk[p].expiration \in Int /\ srv.left \in Int
    BY <1>2, Fields DEF LeaseInv, Base
  <2>2. Punctual(p)' /\ Extended(p)'
    BY <1>1, <2>1, HalfTTL DEF LeaseSafe, Punctual, Extended
  <2>3. (Got(p) => Leased(p, TTL - th[p].run.age))' /\ Honest(p)'
    BY <1>1, <2>1 DEF LeaseSafe, Got, Honest, Leased
  <2>4. Covered(p)'
    BY <1>1, <2>1, HalfTTL DEF LeaseSafe, Covered, Live, Leased
  <2>5. Ahead(p)'
    BY <1>1, <2>1, HalfTTL DEF LeaseSafe, Ahead
  <2> QED BY <2>2, <2>3, <2>4, <2>5 DEF LeaseSafe
<1> QED BY <1>1, <1>2, Quiet, LeaseClosing

\* Over the local lock.
LEMMA SelectLocal ==
  ASSUME LocalInv, NEW p \in Procs, ExtenderSelect(p)
  PROVE  LocalInv'
<1>1. /\ TypeOK' /\ Apart(p) /\ Fresh(p)' /\ th[p].ext.at = "wait" /\ th'[p].run = th[p].run
      /\ th'[p].ext.age = 0 /\ UNCHANGED <<srv, lk, ctx, again, watch, late>>
      /\ \/ ctx[p] # "live" /\ th'[p].ext.at = "off"
         \/ th[p].ext.timer = 0 /\ th'[p].ext.at = "due"
  BY SelectIs DEF LocalInv
<1>2. ASSUME ~late PROVE LocalSafe(p)'
  <2>1. LocalSafe(p) /\ lk[p].expiration \in Int
    BY <1>2, Fields DEF LocalInv, Base
  <2>2. Punctual(p)'
    BY <1>1, <2>1, HalfTTL DEF LocalSafe, Punctual
  <2> QED BY <1>1, <2>1, <2>2, HalfTTL DEF LocalSafe
<1> QED BY <1>1, <1>2, LocalClosing

\* The caller goes to a place where it has nothing: Lock sleeps or fails, the worker has
\* returned, Unlock has ended, the closure has.
LEMMA LeaveIs ==
  ASSUME Base, NEW p \in Procs, NEW to \in {"try", "failed", "sleep", "unlock", "closed", "done"},
         th' = [th EXCEPT ![p]["run"] = Goroutine(to)], UNCHANGED <<hctx, watch, late>>,
         NEW l, LockIs(p, l),
         ctx' \in [Procs -> {"none", "live", "lost", "done"}], \A q \in Procs \ {p} : ctx'[q] = ctx[q],
         ctx'[p] = "lost" => ctx[p] = "lost",
         again' \in [Procs -> BOOLEAN], \A q \in Procs \ {p} : again'[q] = again[q],
         again'[p] => again[p] \/ ctx[p] = "lost",
         to \in Locking => (again[p] \/ th[p].run.at \in Locking) /\ ~again'[p]
  PROVE  /\ TypeOK' /\ Apart(p) /\ Fresh(p)'
         /\ ThType' /\ RunIs(p, Goroutine(to)) /\ th'[p].run.at = to /\ th'[p].run.age = 0
<1>1. ThType' /\ RunIs(p, Goroutine(to))
  BY GotoRun, Zenon DEF Base, TypeOK
<1>2. th'[p].run.at = to /\ th'[p].run.age = 0 /\ th'[p].ext = th[p].ext
  BY <1>1 DEF RunIs, Goroutine
<1>3. TypeOK' /\ Apart(p)
  BY <1>1 DEF Base, TypeOK, Apart, RunIs, LockIs
<1>4. Fresh(p)'
  BY <1>2 DEF Base, Fresh, Live
<1> QED BY <1>1, <1>2, <1>3, <1>4

\* Over Redis and Postgres.
LEMMA LeaveLease ==
  ASSUME LeaseInv, NEW p \in Procs, NEW to \in {"try", "failed", "sleep", "unlock", "closed", "done"},
         th' = [th EXCEPT ![p]["run"] = Goroutine(to)], UNCHANGED <<hctx, watch, late>>,
         NEW l, LockIs(p, l),
         ctx' \in [Procs -> {"none", "live", "lost", "done"}], \A q \in Procs \ {p} : ctx'[q] = ctx[q],
         ctx'[p] = "lost" => ctx[p] = "lost",
         again' \in [Procs -> BOOLEAN], \A q \in Procs \ {p} : again'[q] = again[q],
         again'[p] => again[p] \/ ctx[p] = "lost",
         to \in Locking => (again[p] \/ th[p].run.at \in Locking) /\ ~again'[p],
         Kept(p)
  PROVE  LeaseInv' /\ RunIs(p, Goroutine(to)) /\ Apart(p)
<1>1. /\ TypeOK' /\ Apart(p) /\ Fresh(p)'
      /\ RunIs(p, Goroutine(to)) /\ th'[p].run.at = to /\ th'[p].run.age = 0
  BY LeaveIs, Zenon DEF LeaseInv
<1>2. ASSUME ~late PROVE LeaseSafe(p)'
  <2>1. Punctual(p)'
    BY <1>1, <1>2 DEF LeaseInv, LeaseSafe, Punctual, RunIs
  <2>2. ~Got(p)' /\ Covered(p)' /\ Extended(p)' /\ Honest(p)' /\ Ahead(p)'
    BY <1>1 DEF Got, Covered, Extended, Honest, Ahead, Live
  <2> QED BY <2>1, <2>2 DEF LeaseSafe
<1> QED BY <1>1, <1>2, LeaseClosing

\* Over the local lock: a punctual process leaves with a live context only to unlock.
LEMMA LeaveLocal ==
  ASSUME LocalInv, NEW p \in Procs, NEW to \in {"try", "failed", "sleep", "unlock", "closed", "done"},
         th' = [th EXCEPT ![p]["run"] = Goroutine(to)], UNCHANGED <<hctx, watch, late>>,
         NEW l, LockIs(p, l),
         ctx' \in [Procs -> {"none", "live", "lost", "done"}], \A q \in Procs \ {p} : ctx'[q] = ctx[q],
         ctx'[p] = "lost" => ctx[p] = "lost",
         again' \in [Procs -> BOOLEAN], \A q \in Procs \ {p} : again'[q] = again[q],
         again'[p] => again[p] \/ ctx[p] = "lost",
         to \in Locking => (again[p] \/ th[p].run.at \in Locking) /\ ~again'[p],
         ~late => /\ to \in Locking => th[p].run.at \in {"try", "flock", "sleep", "failed"} /\ ctx' = ctx
                  /\ ctx'[p] = "live" => ctx[p] = "live" /\ to = "unlock" /\ l = lk[p]
  PROVE  LocalInv' /\ RunIs(p, Goroutine(to)) /\ Apart(p)
<1>1. /\ TypeOK' /\ Apart(p) /\ Fresh(p)'
      /\ RunIs(p, Goroutine(to)) /\ th'[p].run.at = to /\ th'[p].run.age = 0
  BY LeaveIs, Zenon DEF LocalInv
<1>2. ASSUME ~late PROVE LocalSafe(p)'
  <2>1. LocalSafe(p)
    BY <1>2 DEF LocalInv
  <2>2. Punctual(p)'
    BY <1>1, <2>1 DEF LocalSafe, Punctual, RunIs
  <2> QED BY <1>1, <1>2, <2>1, <2>2 DEF LocalSafe, RunIs, LockIs
<1> QED BY <1>1, <1>2, LocalClosing

-----------------------------------------------------------------------------
(* Time passes.                                                              *)

\* A goroutine a tick later.
LEMMA OlderIs ==
  ASSUME NEW places, NEW g \in Gor(places), NEW busy \in BOOLEAN, busy => g.age < MaxLag
  PROVE  /\ Older(g, busy) \in Gor(places)
         /\ Older(g, busy).at = g.at /\ Older(g, busy).ok = g.ok
         /\ Older(g, busy).age = IF busy THEN g.age + 1 ELSE g.age
         /\ Older(g, busy).timer = IF g.timer > 0 THEN g.timer - 1 ELSE 0
<1>1. PICK a \in 0 .. MaxLag : a = IF busy THEN g.age + 1 ELSE g.age
  BY HalfTTL
<1>2. PICK t \in 0 .. TTL : t = IF g.timer > 0 THEN g.timer - 1 ELSE 0
  BY HalfTTL
<1>3. PICK h \in Gor(places) : h = [g EXCEPT !.age = a]
  BY Zenon
<1>4. h.timer = g.timer /\ h.at = g.at /\ h.ok = g.ok /\ h.age = a
  BY <1>3
<1>5. PICK o \in Gor(places) : o = [h EXCEPT !.timer = t]
  BY Zenon
<1>6. o.timer = t /\ o.at = g.at /\ o.ok = g.ok /\ o.age = a
  BY <1>4, <1>5
<1>7. Older(g, busy) = [g EXCEPT !.age = a, !.timer = t]
  BY <1>1, <1>2 DEF Older
<1>8. Older(g, busy) = o
  BY <1>3, <1>5, <1>7
<1> QED BY <1>1, <1>2, <1>5, <1>6, <1>8

\* A lock object a tick later.
LEMMA SoonerIs ==
  ASSUME NEW l \in LockType
  PROVE  LET m == [l EXCEPT !.expiration = Sooner(@, -1)]
         IN  /\ m \in LockType /\ m.locked = l.locked /\ m.autoExtenderCancel = l.autoExtenderCancel
             /\ m.expiration = IF l.expiration <= -1 THEN l.expiration ELSE l.expiration - 1
<1>1. PICK x \in Int : x = IF l.expiration <= -1 THEN l.expiration ELSE l.expiration - 1
  OBVIOUS
<1>2. PICK m : m = [l EXCEPT !.expiration = x]
  BY Zenon
<1>3. m = [l EXCEPT !.expiration = Sooner(@, -1)]
  BY <1>1, <1>2 DEF Sooner
<1>4. m \in LockType /\ m.locked = l.locked /\ m.autoExtenderCancel = l.autoExtenderCancel /\ m.expiration = x
  BY <1>2
<1> QED BY <1>1, <1>3, <1>4

\* The fields of q a tick later.
Ticked(q) ==
  /\ th'[q].run.at = th[q].run.at /\ th'[q].run.ok = th[q].run.ok
  /\ th'[q].run.age = IF th[q].run.at \notin Idle THEN th[q].run.age + 1 ELSE th[q].run.age
  /\ th'[q].ext.at = th[q].ext.at /\ th'[q].ext.ok = th[q].ext.ok
  /\ th'[q].ext.age = IF th[q].ext.at \notin Idle THEN th[q].ext.age + 1 ELSE th[q].ext.age
  /\ th'[q].ext.timer = IF th[q].ext.timer > 0 THEN th[q].ext.timer - 1 ELSE 0
  /\ lk'[q].locked = lk[q].locked /\ lk'[q].autoExtenderCancel = lk[q].autoExtenderCancel
  /\ lk'[q].expiration = IF lk[q].expiration <= -1 THEN lk[q].expiration ELSE lk[q].expiration - 1

\* The tick does that to every process.
LEMMA TickIs ==
  ASSUME Base, NEW s, Tick(s)
  PROVE  TypeOK' /\ \A q \in Procs : Ticked(q)
<1>1. /\ \A q \in Procs, t \in {"run", "ext"} : Busy(q, t) => th[q][t].age < MaxLag
      /\ th' = [q \in Procs |-> [t \in {"run", "ext"} |-> Older(th[q][t], Busy(q, t))]]
      /\ lk' = [q \in Procs |-> [lk[q] EXCEPT !.expiration = Sooner(@, -1)]]
      /\ UNCHANGED <<ctx, hctx, again, watch>>
      /\ late' \in BOOLEAN
  BY DEF Tick
<1>2. ASSUME NEW q \in Procs
      PROVE  /\ th'[q] \in [run : Gor(RunPlaces), ext : Gor(ExtPlaces)]
             /\ th'[q].run.at \in Idle => th'[q].run.age = 0
             /\ th'[q].ext.at \in Idle => th'[q].ext.age = 0
             /\ lk'[q] \in LockType /\ Ticked(q)
  <2>1. th[q].run \in Gor(RunPlaces) /\ th[q].ext \in Gor(ExtPlaces) /\ lk[q] \in LockType
    BY DEF Base, TypeOK, ThType
  <2>2. th'[q] = [run |-> Older(th[q].run, Busy(q, "run")), ext |-> Older(th[q].ext, Busy(q, "ext"))]
    BY <1>1
  <2>3. /\ Busy(q, "run") \in BOOLEAN /\ Busy(q, "run") <=> th[q].run.at \notin Idle
        /\ Busy(q, "ext") \in BOOLEAN /\ Busy(q, "ext") <=> th[q].ext.at \notin Idle
    BY DEF Busy
  <2>4. /\ Busy(q, "run") => th[q].run.age < MaxLag
        /\ Busy(q, "ext") => th[q].ext.age < MaxLag
    BY <1>1
  <2>5. lk'[q] = [lk[q] EXCEPT !.expiration = Sooner(@, -1)]
    BY <1>1
  <2> HIDE DEF Idle, RunPlaces, ExtPlaces, Gor, LockType
  <2>6. PICK r \in Gor(RunPlaces) :
          /\ r = Older(th[q].run, Busy(q, "run")) /\ r.at = th[q].run.at /\ r.ok = th[q].run.ok
          /\ r.age = IF Busy(q, "run") THEN th[q].run.age + 1 ELSE th[q].run.age
    <3>1. PICK g \in Gor(RunPlaces) : g = th[q].run
      BY <2>1
    <3>2. PICK b \in BOOLEAN : b = (th[q].run.at \notin Idle)
      BY Zenon
    <3>. b = Busy(q, "run")
      BY <3>2 DEF Busy
    <3>3. b => g.age < MaxLag
      BY <2>4, <3>1, <3>2
    <3>4. PICK o : o = Older(g, b)
      OBVIOUS
    <3>5. o \in Gor(RunPlaces) /\ o.at = g.at /\ o.ok = g.ok /\ o.age = (IF b THEN g.age + 1 ELSE g.age)
          /\ o.timer = IF g.timer > 0 THEN g.timer - 1 ELSE 0
      BY <3>1, <3>2, <3>3, <3>4, OlderIs
    <3> QED BY <3>1, <3>2, <3>4, <3>5
  <2>7. PICK e \in Gor(ExtPlaces) :
          /\ e = Older(th[q].ext, Busy(q, "ext")) /\ e.at = th[q].ext.at /\ e.ok = th[q].ext.ok
          /\ e.age = IF Busy(q, "ext") THEN th[q].ext.age + 1 ELSE th[q].ext.age
          /\ e.timer = IF th[q].ext.timer > 0 THEN th[q].ext.timer - 1 ELSE 0
    <3>1. PICK g \in Gor(ExtPlaces) : g = th[q].ext
      BY <2>1
    <3>2. PICK b \in BOOLEAN : b = (th[q].ext.at \notin Idle)
      BY Zenon
    <3>. b = Busy(q, "ext")
      BY <3>2 DEF Busy
    <3>3. b => g.age < MaxLag
      BY <2>4, <3>1, <3>2
    <3>4. PICK o : o = Older(g, b)
      OBVIOUS
    <3>5. o \in Gor(ExtPlaces) /\ o.at = g.at /\ o.ok = g.ok /\ o.age = (IF b THEN g.age + 1 ELSE g.age)
          /\ o.timer = IF g.timer > 0 THEN g.timer - 1 ELSE 0
      BY <3>1, <3>2, <3>3, <3>4, OlderIs
    <3> QED BY <3>1, <3>2, <3>4, <3>5
  <2>8. /\ lk'[q] \in LockType /\ lk'[q].locked = lk[q].locked
        /\ lk'[q].autoExtenderCancel = lk[q].autoExtenderCancel
        /\ lk'[q].expiration = IF lk[q].expiration <= -1 THEN lk[q].expiration ELSE lk[q].expiration - 1
    BY <2>1, <2>5, SoonerIs
  <2>9. th'[q] = [run |-> r, ext |-> e]
    BY <2>2, <2>6, <2>7
  <2>10. th'[q].run = r /\ th'[q].ext = e /\ th'[q] \in [run : Gor(RunPlaces), ext : Gor(ExtPlaces)]
    BY <2>9
  <2>11. Ticked(q)
    BY <2>3, <2>6, <2>7, <2>8, <2>10, Zenon DEF Ticked
  <2>12. /\ th[q].run.at \in Idle => th[q].run.age = 0
         /\ th[q].ext.at \in Idle => th[q].ext.age = 0
    BY Fields DEF Base
  <2> QED BY <2>8, <2>10, <2>11, <2>12 DEF Ticked
<1>3. th' \in [Procs -> [run : Gor(RunPlaces), ext : Gor(ExtPlaces)]]
  <2> DEFINE T == [run : Gor(RunPlaces), ext : Gor(ExtPlaces)]
  <2>1. th' = [q \in Procs |-> th'[q]]
    BY <1>1
  <2>2. \A q \in Procs : th'[q] \in T
    BY <1>2
  <2> HIDE DEF T
  <2>3. th' \in [Procs -> T]
    BY ONLY <2>1, <2>2
  <2> QED BY <2>3 DEF T
<1>4. ThType'
  BY <1>2, <1>3 DEF ThType
<1>5. lk' \in [Procs -> LockType]
  <2> DEFINE T == LockType
  <2>1. lk' = [q \in Procs |-> lk'[q]]
    BY <1>1
  <2>2. \A q \in Procs : lk'[q] \in T
    BY <1>2
  <2> HIDE DEF T
  <2>3. lk' \in [Procs -> T]
    BY ONLY <2>1, <2>2
  <2> QED BY <2>3 DEF T
<1> QED BY <1>1, <1>2, <1>4, <1>5 DEF Base, TypeOK

\* A process that has been punctual and is not overdue is punctual.
LEMMA TickPunctual ==
  ASSUME TypeOK, NEW q \in Procs, Ticked(q), Punctual(q), ~Overdue(q, "run"), ~Overdue(q, "ext")
  PROVE  /\ Punctual(q)'
         /\ th[q].run.at \notin Idle \cup {"unlocking", "unlocked"} => th[q].run.age < MaxDelay
         /\ th[q].ext.at \notin Idle => th[q].ext.age < MaxDelay
         /\ th[q].ext.at = "wait" => th[q].ext.timer > 0
<1>1. /\ th[q].run.at \notin Idle \cup {"unlocking", "unlocked"} => th[q].run.age < MaxDelay
      /\ th[q].ext.at \notin Idle => th[q].ext.age < MaxDelay
      /\ th[q].ext.at = "wait" => th[q].ext.timer > 0
  <2>1. th[q].ext.at \in ExtPlaces
    BY DEF TypeOK, ThType
  <2> QED BY <2>1, Fields, HalfTTL DEF Overdue, Busy, At
<1>2. Punctual(q)'
  BY <1>1, Fields, HalfTTL DEF Punctual, Ticked
<1> QED BY <1>1, <1>2

\* The lease of a punctual process lasts a tick less, and so does what it must last for.
LEMMA TickLeaseSafe ==
  ASSUME TypeOK, NEW q \in Procs, ctx' = ctx, LeaseSafe(q), Ticked(q),
         ~Overdue(q, "run"), ~Overdue(q, "ext"),
         \A b \in Int : b >= 2 /\ Leased(q, b) => Leased(q, b - 1)'
  PROVE  LeaseSafe(q)'
<1> DEFINE r == th[q].run
           e == th[q].ext
<1>1. /\ Punctual(q)'
      /\ r.at \notin Idle \cup {"unlocking", "unlocked"} => r.age < MaxDelay
      /\ e.at \notin Idle => e.age < MaxDelay
      /\ e.at = "wait" => e.timer > 0
  BY TickPunctual DEF LeaseSafe
<1>2. r.age \in Nat /\ e.age \in Nat /\ e.timer \in Nat /\ lk[q].expiration \in Int
  BY Fields
<1>3. (Got(q) => Leased(q, TTL - th[q].run.age))'
  <2> SUFFICES ASSUME Got(q)' PROVE Leased(q, TTL - th[q].run.age)'
    OBVIOUS
  <2>1. Got(q) /\ r.age < MaxDelay /\ th'[q].run.age = r.age + 1
    BY <1>1 DEF Got, Ticked
  <2>2. PICK b \in Int : b = TTL - r.age /\ b >= 2
    BY <1>2, <2>1, HalfTTL
  <2>3. Leased(q, b) /\ Leased(q, b - 1)'
    BY <2>1, <2>2 DEF LeaseSafe
  <2>4. TTL - th'[q].run.age = b - 1
    BY <1>2, <2>1, <2>2, HalfTTL
  <2> QED BY <2>3, <2>4 DEF Leased
<1>4. Covered(q)'
  <2> SUFFICES ASSUME Live(q)'
               PROVE  /\ (th[q].ext.at = "wait" => Leased(q, th[q].ext.timer + Half - MaxDelay))'
                      /\ (th[q].ext.at = "due" => Leased(q, Half - MaxDelay - th[q].ext.age))'
                      /\ (th[q].ext.at = "answer" => th[q].ext.ok)'
    BY DEF Covered
  <2>1. Live(q) /\ Covered(q)
    BY DEF Live, Ticked, LeaseSafe
  <2>2. ASSUME e.at = "wait" PROVE Leased(q, th[q].ext.timer + Half - MaxDelay)'
    <3>1. PICK b \in Int : b = e.timer + Half - MaxDelay /\ b >= 2
      BY <1>1, <1>2, <2>2, HalfTTL
    <3>2. Leased(q, b) /\ Leased(q, b - 1)'
      BY <2>1, <2>2, <3>1 DEF Covered
    <3>3. th'[q].ext.timer + Half - MaxDelay = b - 1
      BY <1>1, <1>2, <2>2, <3>1, HalfTTL DEF Ticked
    <3> QED BY <3>2, <3>3 DEF Leased
  <2>3. ASSUME e.at = "due" PROVE Leased(q, Half - MaxDelay - th[q].ext.age)'
    <3>1. PICK b \in Int : b = Half - MaxDelay - e.age /\ b >= 2
      BY <1>1, <1>2, <2>3, HalfTTL
    <3>2. Leased(q, b) /\ Leased(q, b - 1)'
      BY <2>1, <2>3, <3>1 DEF Covered
    <3>3. Half - MaxDelay - th'[q].ext.age = b - 1
      BY <1>1, <1>2, <2>3, <3>1, HalfTTL DEF Ticked
    <3> QED BY <3>2, <3>3 DEF Leased
  <2> QED BY <2>1, <2>2, <2>3 DEF Covered, Ticked
<1>5. Extended(q)'
  <2> SUFFICES ASSUME r.at = "work", e.at = "answer", e.ok
               PROVE  Leased(q, TTL - th[q].ext.age)'
    BY DEF Extended, Ticked
  <2>1. PICK b \in Int : b = TTL - e.age /\ b >= 2
    BY <1>1, <1>2, HalfTTL
  <2>2. Leased(q, b) /\ Leased(q, b - 1)'
    BY <2>1 DEF LeaseSafe, Extended
  <2>3. TTL - th'[q].ext.age = b - 1
    BY <1>2, <2>1, HalfTTL DEF Ticked
  <2> QED BY <2>2, <2>3 DEF Leased
<1>6. Honest(q)'
  <2> SUFFICES ASSUME lk'[q].expiration > 0
               PROVE  /\ (th[q].run.at \in {"held", "derive", "work"} => Leased(q, lk[q].expiration))'
                      /\ (th[q].run.at = "commit" /\ th[q].run.ok
                           => lk[q].expiration <= TTL - th[q].run.age)'
    BY DEF Honest
  <2>1. lk[q].expiration >= 2 /\ lk'[q].expiration = lk[q].expiration - 1 /\ Honest(q)
    BY <1>2 DEF Ticked, LeaseSafe
  <2>2. ASSUME r.at \in {"held", "derive", "work"} PROVE Leased(q, lk[q].expiration)'
    <3>1. Leased(q, lk[q].expiration)
      BY <1>2, <2>1, <2>2 DEF Honest
    <3> QED BY <1>2, <2>1, <3>1 DEF Leased
  <2>3. ASSUME r.at = "commit", r.ok PROVE (lk[q].expiration <= TTL - th[q].run.age)'
    BY <1>2, <2>1, <2>3, HalfTTL DEF Honest, Ticked
  <2> QED BY <2>2, <2>3 DEF Ticked
<1>7. Ahead(q)'
  BY <1>1, <1>2, HalfTTL DEF LeaseSafe, Ahead, Ticked
<1> QED BY <1>1, <1>3, <1>4, <1>5, <1>6, <1>7, Zenon DEF LeaseSafe

\* Time passes over Redis or Postgres; a lease of at least two ticks becomes one tick shorter.
LEMMA TickLease ==
  ASSUME LeaseInv, NEW s, Tick(s), s.left \in Int,
         \A q \in Procs, b \in Int : b >= 2 /\ srv.owner = q /\ srv.left >= b => s.owner = q /\ s.left >= b - 1
  PROVE  LeaseInv' /\ \A q \in Procs : Ticked(q)
<1>1. TypeOK' /\ \A q \in Procs : Ticked(q)
  BY TickIs DEF LeaseInv
<1>2. srv' = s /\ ctx' = ctx /\ again' = again /\ (~late' => ~late /\ \A q \in Procs : ~Overdue(q, "run") /\ ~Overdue(q, "ext"))
  BY Zenon DEF Tick
<1>3. \A q \in Procs : Fresh(q)'
  BY <1>1, <1>2 DEF LeaseInv, Base, Fresh, Live, Ticked
<1>4. ASSUME ~late', NEW q \in Procs PROVE LeaseSafe(q)'
  <2>1. LeaseSafe(q) /\ TypeOK
    BY <1>2, <1>4 DEF LeaseInv, Base
  <2>2. \A b \in Int : b >= 2 /\ Leased(q, b) => Leased(q, b - 1)'
    BY <1>2 DEF Leased
  <2> QED BY <1>1, <1>2, <1>4, <2>1, <2>2, TickLeaseSafe
<1> QED BY <1>1, <1>2, <1>3, <1>4 DEF LeaseInv, Base

\* Time passes over the local lock.
LEMMA TickLocal ==
  ASSUME LocalInv, NEW s, Tick(s)
  PROVE  LocalInv' /\ \A q \in Procs : Ticked(q)
<1>1. TypeOK' /\ \A q \in Procs : Ticked(q)
  BY TickIs DEF LocalInv
<1>2. /\ ctx' = ctx /\ again' = again /\ watch' = watch
      /\ ~late' => ~late /\ \A q \in Procs : ~Overdue(q, "run") /\ ~Overdue(q, "ext")
  BY Zenon DEF Tick
<1>3. \A q \in Procs : Fresh(q)'
  BY <1>1, <1>2 DEF LocalInv, Base, Fresh, Live, Ticked
<1>4. ASSUME ~late', NEW q \in Procs PROVE LocalSafe(q)'
  <2>1. LocalSafe(q) /\ TypeOK /\ Ticked(q)
    BY <1>1, <1>2, <1>4 DEF LocalInv, Base
  <2>2. /\ Punctual(q)'
        /\ th[q].run.at \notin Idle \cup {"unlocking", "unlocked"} => th[q].run.age < MaxDelay
        /\ th[q].ext.at \notin Idle => th[q].ext.age < MaxDelay
        /\ th[q].ext.at = "wait" => th[q].ext.timer > 0
    BY <1>2, <1>4, <2>1, TickPunctual DEF LocalSafe
  <2>3. /\ th[q].run.age \in Nat /\ th[q].ext.age \in Nat /\ th[q].ext.timer \in Nat
        /\ lk[q].expiration \in Int
    BY <2>1, Fields
  <2>4. (th[q].run.at \in {"held", "derive"} => lk[q].locked /\ lk[q].expiration >= TTL - th[q].run.age)'
    <3> SUFFICES ASSUME th[q].run.at \in {"held", "derive"}
                 PROVE  lk'[q].locked /\ lk'[q].expiration >= TTL - th'[q].run.age
      BY <2>1 DEF Ticked
    <3>1. th[q].run.at \notin Idle \cup {"unlocking", "unlocked"}
      BY DEF Idle
    <3>2. lk[q].locked /\ lk[q].expiration >= TTL - th[q].run.age
      BY <2>1, Zenon DEF LocalSafe
    <3>3. /\ lk'[q].locked = lk[q].locked /\ th'[q].run.age = th[q].run.age + 1
          /\ lk'[q].expiration = IF lk[q].expiration <= -1 THEN lk[q].expiration ELSE lk[q].expiration - 1
      BY <2>1, <3>1 DEF Ticked
    <3> QED BY <2>2, <2>3, <3>1, <3>2, <3>3, HalfTTL
  <2>5. ASSUME ctx[q] = "live"
        PROVE  (\/ th[q].ext.at = "wait" /\ lk[q].expiration >= th[q].ext.timer + Half - MaxDelay
                \/ th[q].ext.at = "due" /\ lk[q].expiration >= Half - MaxDelay - th[q].ext.age)'
    <3>1. \/ th[q].ext.at = "wait" /\ lk[q].expiration >= th[q].ext.timer + Half - MaxDelay
          \/ th[q].ext.at = "due" /\ lk[q].expiration >= Half - MaxDelay - th[q].ext.age
      BY <2>1, <2>5, Zenon DEF LocalSafe
    <3>2. /\ th'[q].ext.at = th[q].ext.at
          /\ th[q].ext.at = "wait" => th'[q].ext.timer = th[q].ext.timer - 1
          /\ th[q].ext.at = "due" => th'[q].ext.age = th[q].ext.age + 1
      BY <2>1, <2>2 DEF Ticked
    <3>3. lk'[q].expiration = IF lk[q].expiration <= -1 THEN lk[q].expiration ELSE lk[q].expiration - 1
      BY <2>1, Zenon DEF Ticked
    <3>4. th[q].ext.at = "due" => th[q].ext.age < MaxDelay
      BY <2>2
    <3>5. CASE th[q].ext.at = "wait"
      BY <2>2, <2>3, <3>1, <3>2, <3>3, <3>5, HalfTTL
    <3>6. CASE th[q].ext.at = "due"
      BY <2>3, <3>1, <3>2, <3>3, <3>4, <3>6, HalfTTL
    <3> QED BY <3>1, <3>5, <3>6
  <2>6. /\ th'[q].run.at = th[q].run.at /\ again' = again /\ ctx' = ctx /\ watch' = watch
        /\ lk'[q].locked = lk[q].locked /\ lk'[q].autoExtenderCancel = lk[q].autoExtenderCancel
    BY <1>2, <2>1, Zenon DEF Ticked
  <2> QED BY <2>1, <2>2, <2>4, <2>5, <2>6 DEF LocalSafe
<1> QED BY <1>1, <1>2, <1>3, <1>4 DEF LocalInv, Base

-----------------------------------------------------------------------------
(* A process crashes, or its handler is stopped.                             *)

\* A process that has crashed has nothing left of its own.
LEMMA GoneIs ==
  ASSUME Base, NEW p \in Procs, Gone(p)
  PROVE  /\ ThType' /\ Others(p)
         /\ th'[p].run.at = "crashed" /\ th'[p].run.age = 0 /\ th'[p].ext.at = "off" /\ th'[p].ext.age = 0
         /\ \E l \in LockType : LockIs(p, l) /\ l.expiration = ZeroTime /\ l.locked = FALSE
         /\ ctx' \in [Procs -> {"none", "live", "lost", "done"}] /\ ctx'[p] = "none"
         /\ hctx' \in [Procs -> {"live", "done"}] /\ again' \in [Procs -> BOOLEAN] /\ again'[p] = FALSE
         /\ \A q \in Procs \ {p} : ctx'[q] = ctx[q] /\ again'[q] = again[q]
<1>1. PICK g : g = Goroutine("crashed")
  OBVIOUS
<1>2. PICK h : h = Goroutine("off")
  OBVIOUS
<1>3. /\ g \in Gor(RunPlaces) /\ g.at = "crashed" /\ g.age = 0
      /\ h \in Gor(ExtPlaces) /\ h.at = "off" /\ h.age = 0
  BY <1>1, <1>2, HalfTTL DEF Goroutine
<1>4. th' = [th EXCEPT ![p] = [run |-> g, ext |-> h]] /\ ThType
  BY <1>1, <1>2 DEF Gone, Base, TypeOK
<1>5. /\ th' \in [Procs -> [run : Gor(RunPlaces), ext : Gor(ExtPlaces)]] /\ Others(p)
      /\ th'[p].run = g /\ th'[p].ext = h
  BY <1>3, <1>4 DEF ThType, Others
<1>6. ThType'
  BY <1>3, <1>4, <1>5, BothStep
<1>7. \E l \in LockType : LockIs(p, l) /\ l.expiration = ZeroTime /\ l.locked = FALSE
  <2>1. PICK l : l = NewLock
    OBVIOUS
  <2>2. l \in LockType /\ l.expiration = ZeroTime /\ l.locked = FALSE
    BY <2>1 DEF NewLock, ZeroTime
  <2>3. LockIs(p, l)
    BY <2>1, <2>2, LockStep, Zenon DEF Gone, Base, TypeOK
  <2> QED BY <2>2, <2>3
<1>8. /\ ctx' \in [Procs -> {"none", "live", "lost", "done"}] /\ ctx'[p] = "none"
      /\ hctx' \in [Procs -> {"live", "done"}] /\ again' \in [Procs -> BOOLEAN] /\ again'[p] = FALSE
      /\ \A q \in Procs \ {p} : ctx'[q] = ctx[q] /\ again'[q] = again[q]
  BY DEF Gone, Base, TypeOK
<1> QED BY <1>3, <1>5, <1>6, <1>7, <1>8

\* The others do not notice a crash.
LEMMA CrashIs ==
  ASSUME Base, NEW p \in Procs, Gone(p), late' = late, watch' \in [Procs -> WatchType],
         \A q \in Procs \ {p} : watch'[q] = watch[q]
  PROVE  TypeOK' /\ Apart(p) /\ Fresh(p)'
<1>1. /\ ThType' /\ Others(p) /\ ctx'[p] = "none" /\ again'[p] = FALSE
      /\ th'[p].run.at = "crashed" /\ th'[p].run.age = 0 /\ th'[p].ext.at = "off" /\ th'[p].ext.age = 0
  BY GoneIs, Zenon
<1>2. PICK l \in LockType : LockIs(p, l)
  BY GoneIs, Zenon
<1>3. /\ ctx' \in [Procs -> {"none", "live", "lost", "done"}]
      /\ hctx' \in [Procs -> {"live", "done"}] /\ again' \in [Procs -> BOOLEAN]
      /\ \A q \in Procs \ {p} : ctx'[q] = ctx[q] /\ again'[q] = again[q]
  BY GoneIs, Zenon
<1> HIDE DEF LockType, WatchType
<1>4. TypeOK' /\ Apart(p)
  BY <1>1, <1>2, <1>3 DEF LockIs, Base, TypeOK, Apart
<1>5. Fresh(p)'
  BY <1>1 DEF Fresh, Live
<1> QED BY <1>4, <1>5

\* Over Redis and Postgres.
LEMMA CrashLease ==
  ASSUME LeaseInv, NEW p \in Procs, Gone(p), UNCHANGED <<watch, late>>, Kept(p)
  PROVE  LeaseInv' /\ Apart(p) /\ th'[p].run.at = "crashed"
<1>1. th'[p].run.at = "crashed" /\ th'[p].run.age = 0 /\ th'[p].ext.at = "off" /\ th'[p].ext.age = 0
  BY GoneIs, Zenon DEF LeaseInv
<1>2. TypeOK' /\ Apart(p) /\ Fresh(p)'
  BY CrashIs DEF LeaseInv, Base, TypeOK
<1>3. LeaseSafe(p)'
  BY <1>1 DEF LeaseSafe, Punctual, Got, Covered, Live, Extended, Honest, Ahead
<1> QED BY <1>1, <1>2, <1>3, LeaseClosing

\* Over the local lock.
LEMMA CrashLocal ==
  ASSUME LocalInv, NEW p \in Procs, Gone(p), watch' = [watch EXCEPT ![p] = NoWatchers], late' = late
  PROVE  /\ LocalInv' /\ Apart(p) /\ th'[p].run.at = "crashed"
         /\ lk'[p].expiration = ZeroTime /\ lk'[p].locked = FALSE
<1>1. /\ th'[p].run.at = "crashed" /\ th'[p].run.age = 0 /\ th'[p].ext.at = "off" /\ th'[p].ext.age = 0
      /\ ctx'[p] = "none" /\ again'[p] = FALSE /\ lk'[p].expiration = ZeroTime /\ lk'[p].locked = FALSE
  <2>1. PICK l \in LockType : LockIs(p, l) /\ l.expiration = ZeroTime /\ l.locked = FALSE
    BY GoneIs, Zenon DEF LocalInv
  <2>2. /\ th'[p].run.at = "crashed" /\ th'[p].run.age = 0 /\ th'[p].ext.at = "off" /\ th'[p].ext.age = 0
        /\ ctx'[p] = "none" /\ again'[p] = FALSE
    BY GoneIs, Zenon DEF LocalInv
  <2> QED BY <2>1, <2>2 DEF LockIs
<1>2. PICK w : w = NoWatchers
  OBVIOUS
<1>3. w \in WatchType
  BY <1>2, LockAssumption DEF NoWatchers
<1>4. watch' \in [Procs -> WatchType] /\ \A q \in Procs \ {p} : watch'[q] = watch[q]
  BY <1>2, <1>3 DEF LocalInv, Base, TypeOK
<1>5. TypeOK' /\ Apart(p) /\ Fresh(p)'
  BY <1>4, CrashIs DEF LocalInv
<1>6. LocalSafe(p)'
  BY <1>1 DEF LocalSafe, Punctual
<1> QED BY <1>1, <1>5, <1>6, LocalClosing

\* The contexts of p are cancelled.
LEMMA StopIs ==
  ASSUME Base, NEW p \in Procs, UNCHANGED <<srv, lk, th, again, watch, late>>,
         hctx' = [hctx EXCEPT ![p] = "done"], ctx' = Canceled(p, "done")
  PROVE  TypeOK' /\ Apart(p) /\ Fresh(p)' /\ ctx'[p] = IF ctx[p] = "live" THEN "done" ELSE ctx[p]
<1>1. /\ ctx' \in [Procs -> {"none", "live", "lost", "done"}] /\ \A q \in Procs \ {p} : ctx'[q] = ctx[q]
      /\ ctx'[p] = IF ctx[p] = "live" THEN "done" ELSE ctx[p]
      /\ hctx' \in [Procs -> {"live", "done"}]
  BY DEF Base, TypeOK, Canceled
<1>2. TypeOK' /\ Apart(p)
  BY <1>1 DEF Base, TypeOK, ThType, Apart, Others
<1>3. Fresh(p)'
  BY <1>1 DEF Base, Fresh, Live
<1> QED BY <1>1, <1>2, <1>3

\* Over Redis and Postgres.
LEMMA StopLease ==
  ASSUME LeaseInv, NEW p \in Procs, UNCHANGED <<srv, lk, th, again, watch, late>>,
         hctx' = [hctx EXCEPT ![p] = "done"], ctx' = Canceled(p, "done")
  PROVE  LeaseInv'
<1>1. TypeOK' /\ Apart(p) /\ Fresh(p)' /\ ctx'[p] = IF ctx[p] = "live" THEN "done" ELSE ctx[p]
  BY StopIs, Zenon DEF LeaseInv
<1>2. ASSUME ~late PROVE LeaseSafe(p)'
  BY <1>1, <1>2 DEF LeaseInv, LeaseSafe, Punctual, Got, Covered, Live, Extended, Honest, Ahead, Leased
<1> QED BY <1>1, <1>2, Quiet, LeaseClosing

\* Over the local lock.
LEMMA StopLocal ==
  ASSUME LocalInv, NEW p \in Procs, UNCHANGED <<srv, lk, th, again, watch, late>>,
         hctx' = [hctx EXCEPT ![p] = "done"], ctx' = Canceled(p, "done")
  PROVE  LocalInv'
<1>1. TypeOK' /\ Apart(p) /\ Fresh(p)' /\ ctx'[p] = IF ctx[p] = "live" THEN "done" ELSE ctx[p]
  BY StopIs, Zenon DEF LocalInv
<1>2. ASSUME ~late PROVE LocalSafe(p)'
  BY <1>1, <1>2 DEF LocalInv, LocalSafe, Punctual
<1> QED BY <1>1, <1>2, LocalClosing

-----------------------------------------------------------------------------
(* The local lock: LocalLock.locked says who has the file, and an expiration *)
(* is ahead only while the lock is locked.                                   *)
LocalStore ==
  /\ srv.owner \in Procs \cup {None}
  /\ \A p \in Procs : /\ lk[p].locked <=> srv.owner = p
                      /\ lk[p].expiration > 0 => lk[p].locked

LocalAll == LocalStore /\ LocalInv

Fields4 == {"off", "check", "read", "unlock"}

\* One of p's expiry goroutines moves.
Moves(p, from, to) == watch' = [watch EXCEPT ![p][from] = @ - 1, ![p][to] = @ + 1]

\* The others do not move.
LEMMA WatcherIs ==
  ASSUME Base, NEW p \in Procs, NEW from \in Fields4, NEW to \in Fields4, from # to,
         Moves(p, from, to)
  PROVE  /\ watch' \in [Procs -> WatchType] /\ \A q \in Procs \ {p} : watch'[q] = watch[q]
         /\ \A f \in Fields4 \ {from, to} : watch'[p][f] = watch[p][f]
<1>1. PICK w \in WatchType : w = watch[p]
  BY DEF Base, TypeOK
<1>2. watch \in [Procs -> WatchType]
  BY DEF Base, TypeOK
<1>3. PICK u : u = [w EXCEPT ![from] = @ - 1]
  BY Zenon
<1>4. u \in WatchType /\ \A f \in Fields4 \ {from} : u[f] = w[f]
  <2>1. CASE from = "off"
    BY <1>3, <2>1 DEF Fields4
  <2>2. CASE from = "check"
    BY <1>3, <2>2 DEF Fields4
  <2>3. CASE from = "read"
    BY <1>3, <2>3 DEF Fields4
  <2>4. CASE from = "unlock"
    BY <1>3, <2>4 DEF Fields4
  <2> QED BY <2>1, <2>2, <2>3, <2>4 DEF Fields4
<1>5. PICK v : v = [u EXCEPT ![to] = @ + 1]
  BY Zenon
<1>6. v \in WatchType /\ \A f \in Fields4 \ {to} : v[f] = u[f]
  <2>1. CASE to = "off"
    BY <1>4, <1>5, <2>1 DEF Fields4
  <2>2. CASE to = "check"
    BY <1>4, <1>5, <2>2 DEF Fields4
  <2>3. CASE to = "read"
    BY <1>4, <1>5, <2>3 DEF Fields4
  <2>4. CASE to = "unlock"
    BY <1>4, <1>5, <2>4 DEF Fields4
  <2> QED BY <2>1, <2>2, <2>3, <2>4 DEF Fields4
<1>7. watch' = [watch EXCEPT ![p] = v]
  BY <1>1, <1>2, <1>3, <1>5, Zenon DEF Moves
<1> HIDE DEF WatchType
<1>8. watch' \in [Procs -> WatchType] /\ watch'[p] = v /\ \A q \in Procs \ {p} : watch'[q] = watch[q]
  BY <1>2, <1>6, <1>7
<1> QED BY <1>1, <1>4, <1>6, <1>8

\* It is enough to look at the process that takes the step, if it takes or frees the file for itself.
LEMMA LocalStoreStep ==
  ASSUME LocalStore, NEW p \in Procs, \A q \in Procs \ {p} : lk'[q] = lk[q],
         \/ srv'.owner = srv.owner
         \/ srv.owner \in {None, p} /\ srv'.owner = p
         \/ srv.owner = p /\ srv'.owner = None,
         lk'[p].locked <=> srv'.owner = p, lk'[p].expiration > 0 => lk'[p].locked
  PROVE  LocalStore'
<1>1. None \notin Procs
  BY LockAssumption
<1>2. ASSUME NEW q \in Procs
      PROVE  (lk'[q].locked <=> srv'.owner = q) /\ (lk'[q].expiration > 0 => lk'[q].locked)
  <2>1. CASE q = p
    BY <2>1
  <2>2. CASE q # p
    BY <1>1, <2>2 DEF LocalStore
  <2> QED BY <2>1, <2>2
<1> QED BY <1>1, <1>2 DEF LocalStore

\* doLock: the file is p's for the whole time to live, and an expiry goroutine starts.
LEMMA DoLockStep ==
  ASSUME LocalAll, NEW p \in Procs, th[p].run.at \in {"try", "flock"}, srv.owner \in {None, p},
         srv' = [owner |-> p],
         lk' = [lk EXCEPT ![p].expiration = TTL, ![p].locked = TRUE, ![p].mu = "free"],
         Moves(p, "off", "check"),
         th' = [th EXCEPT ![p]["run"] = Goroutine("held")], UNCHANGED <<ctx, hctx, again, late>>
  PROVE  LocalAll'
<1>1. ThType' /\ RunIs(p, Goroutine("held"))
  BY GotoRun, Zenon DEF LocalAll, LocalInv, Base, TypeOK
<1>2. th'[p].run.at = "held" /\ th'[p].run.age = 0 /\ th'[p].ext = th[p].ext /\ Others(p)
  BY <1>1 DEF RunIs, Goroutine
<1>3. PICK l \in LockType : LockIs(p, l) /\ l.expiration = TTL /\ l.locked = TRUE
  <2>1. PICK k \in LockType : k = lk[p]
    BY DEF LocalAll, LocalInv, Base, TypeOK
  <2>2. PICK l : l = [k EXCEPT !.expiration = TTL, !.locked = TRUE, !.mu = "free"]
    OBVIOUS
  <2>3. l = [expiration |-> TTL, autoExtenderCancel |-> k.autoExtenderCancel, locked |-> TRUE, mu |-> "free"]
    BY <2>1, <2>2, Zenon
  <2>4. l \in LockType /\ l.expiration = TTL /\ l.locked = TRUE
    BY <2>1, <2>3, HalfTTL
  <2>5. lk' = [lk EXCEPT ![p] = l] /\ lk \in [Procs -> LockType]
    BY <2>1, <2>2, Zenon DEF LocalAll, LocalInv, Base, TypeOK
  <2> HIDE DEF LockType
  <2> QED BY <2>4, <2>5, LockStep, Zenon
<1>4. /\ watch' \in [Procs -> WatchType] /\ \A q \in Procs \ {p} : watch'[q] = watch[q]
      /\ watch'[p].unlock = watch[p].unlock
  <2>1. /\ Base /\ "off" \in Fields4 /\ "check" \in Fields4 /\ "off" # "check"
        /\ "unlock" \in Fields4 \ {"off", "check"}
    BY DEF LocalAll, LocalInv, Fields4
  <2> HIDE DEF WatchType
  <2>2. /\ watch' \in [Procs -> WatchType] /\ \A q \in Procs \ {p} : watch'[q] = watch[q]
        /\ \A f \in Fields4 \ {"off", "check"} : watch'[p][f] = watch[p][f]
    BY <2>1, WatcherIs
  <2>3. watch'[p]["unlock"] = watch[p]["unlock"]
    BY <2>1, <2>2
  <2> QED BY <2>2, <2>3
<1>5. TypeOK' /\ Apart(p)
  <2> HIDE DEF LockType, WatchType
  <2> QED BY <1>1, <1>2, <1>3, <1>4 DEF LocalAll, LocalInv, Base, TypeOK, Apart, LockIs
<1>6. Fresh(p)'
  BY <1>2 DEF LocalAll, LocalInv, Base, Fresh, Live
<1>7. ASSUME ~late PROVE LocalSafe(p)'
  <2>1. LocalSafe(p)
    BY <1>7 DEF LocalAll, LocalInv
  <2>2. Punctual(p)'
    BY <1>2, <2>1, HalfTTL DEF LocalSafe, Punctual
  <2>3. lk'[p].locked /\ lk'[p].expiration >= TTL - th'[p].run.age
    BY <1>2, <1>3, HalfTTL DEF LockIs
  <2> QED BY <1>2, <1>4, <2>1, <2>2, <2>3 DEF LocalSafe
<1>8. LocalInv'
  BY <1>5, <1>6, <1>7, LocalClosing DEF LocalAll
<1>9. LocalStore'
  <2>1. lk'[p].locked /\ srv'.owner = p /\ \A q \in Procs \ {p} : lk'[q] = lk[q]
    BY <1>3 DEF LockIs
  <2> QED BY <2>1, LocalStoreStep, Zenon DEF LocalAll
<1> QED BY <1>8, <1>9 DEF LocalAll

\* Lock takes the mutex before it waits for the file.
LEMMA LockBeginStep ==
  ASSUME LocalAll, NEW p \in Procs, th[p].run.at = "try", lk' = [lk EXCEPT ![p].mu = "Lock"],
         th' = [th EXCEPT ![p]["run"] = Goroutine("flock")], UNCHANGED <<srv, ctx, hctx, again, watch, late>>
  PROVE  LocalAll'
<1>1. ThType' /\ RunIs(p, Goroutine("flock"))
  BY GotoRun, Zenon DEF LocalAll, LocalInv, Base, TypeOK
<1>2. th'[p].run.at = "flock" /\ th'[p].run.age = 0 /\ th'[p].ext = th[p].ext /\ Others(p)
  BY <1>1 DEF RunIs, Goroutine
<1>3. /\ lk' \in [Procs -> LockType] /\ \A q \in Procs \ {p} : lk'[q] = lk[q]
      /\ lk'[p].locked = lk[p].locked /\ lk'[p].expiration = lk[p].expiration
  BY DEF LocalAll, LocalInv, Base, TypeOK
<1>4. TypeOK' /\ Apart(p)
  BY <1>1, <1>2, <1>3 DEF LocalAll, LocalInv, Base, TypeOK, Apart
<1>5. Fresh(p)'
  BY <1>2 DEF LocalAll, LocalInv, Base, Fresh, Live
<1>6. ASSUME ~late PROVE LocalSafe(p)'
  BY <1>2, <1>6 DEF LocalAll, LocalInv, LocalSafe, Punctual
<1>7. LocalInv'
  BY <1>4, <1>5, <1>6, LocalClosing DEF LocalAll
<1>8. LocalStore'
  BY <1>3, LocalStoreStep DEF LocalAll, LocalStore
<1> QED BY <1>7, <1>8 DEF LocalAll

\* Unlock frees the file, if it is p's, and cancels the context: by the caller, which is
\* closed then, or by an expiry goroutine.
LEMMA UnlockStore ==
  ASSUME LocalAll, NEW p \in Procs, Forget(p), srv' = [owner |-> IF srv.owner = p THEN None ELSE srv.owner]
  PROVE  /\ LocalStore'
         /\ \E l \in LockType : LockIs(p, l)
         /\ ctx' \in [Procs -> {"none", "live", "lost", "done"}] /\ \A q \in Procs \ {p} : ctx'[q] = ctx[q]
         /\ ctx'[p] = IF lk[p].autoExtenderCancel /\ ctx[p] = "live" THEN "done" ELSE ctx[p]
         /\ ~late => ctx'[p] # "live"
<1>1. TypeOK
  BY DEF LocalAll, LocalInv, Base
<1>2. PICK l \in LockType : LockIs(p, l) /\ l.locked = FALSE /\ l.expiration = ZeroTime
  BY <1>1, ForgetStep, Zenon
<1>3. /\ ctx' \in [Procs -> {"none", "live", "lost", "done"}] /\ \A q \in Procs \ {p} : ctx'[q] = ctx[q]
      /\ ctx'[p] = IF lk[p].autoExtenderCancel /\ ctx[p] = "live" THEN "done" ELSE ctx[p]
  BY <1>1, ForgetStep, Zenon
<1>4. ASSUME ~late PROVE ctx'[p] # "live"
  BY <1>3, <1>4 DEF LocalAll, LocalInv, LocalSafe
<1>5. LocalStore'
  <2>1. /\ lk'[p].locked = FALSE /\ lk'[p].expiration = ZeroTime /\ \A q \in Procs \ {p} : lk'[q] = lk[q]
        /\ None # p
    BY <1>2, LockAssumption DEF LockIs
  <2>2. /\ srv'.owner # p
        /\ srv'.owner = srv.owner \/ (srv.owner = p /\ srv'.owner = None)
    BY <2>1
  <2> QED BY <2>1, <2>2, LocalStoreStep DEF LocalAll, ZeroTime
<1> QED BY <1>2, <1>3, <1>4, <1>5

\* By the caller.
LEMMA UnlockStep ==
  ASSUME LocalAll, NEW p \in Procs, Forget(p), srv' = [owner |-> IF srv.owner = p THEN None ELSE srv.owner],
         th' = [th EXCEPT ![p]["run"] = Goroutine("closed")], UNCHANGED <<hctx, again, watch, late>>
  PROVE  LocalAll'
<1>1. /\ LocalStore'
      /\ ctx' \in [Procs -> {"none", "live", "lost", "done"}] /\ \A q \in Procs \ {p} : ctx'[q] = ctx[q]
      /\ ctx'[p] = IF lk[p].autoExtenderCancel /\ ctx[p] = "live" THEN "done" ELSE ctx[p]
      /\ ~late => ctx'[p] # "live"
  BY UnlockStore
<1>2. PICK l \in LockType : LockIs(p, l)
  BY UnlockStore
<1>3. again' \in [Procs -> BOOLEAN]
  BY DEF LocalAll, LocalInv, Base, TypeOK
<1>4. LocalInv'
  BY <1>1, <1>2, <1>3, LeaveLocal, Zenon DEF LocalAll
<1> QED BY <1>1, <1>4 DEF LocalAll

\* By an expiry goroutine.
LEMMA WatchUnlockStep ==
  ASSUME LocalAll, NEW p \in Procs, Forget(p), srv' = [owner |-> IF srv.owner = p THEN None ELSE srv.owner],
         watch[p].unlock > 0, Moves(p, "unlock", "check"), UNCHANGED <<th, hctx, again, late>>
  PROVE  LocalAll'
<1>1. /\ LocalStore'
      /\ ctx' \in [Procs -> {"none", "live", "lost", "done"}] /\ \A q \in Procs \ {p} : ctx'[q] = ctx[q]
      /\ ctx'[p] = IF lk[p].autoExtenderCancel /\ ctx[p] = "live" THEN "done" ELSE ctx[p]
      /\ ~late => ctx'[p] # "live"
  BY UnlockStore
<1>2. PICK l \in LockType : LockIs(p, l)
  BY UnlockStore
<1>3. watch' \in [Procs -> WatchType] /\ \A q \in Procs \ {p} : watch'[q] = watch[q]
  <2>1. Base /\ "unlock" \in Fields4 /\ "check" \in Fields4 /\ "unlock" # "check"
    BY DEF LocalAll, LocalInv, Fields4
  <2> HIDE DEF WatchType
  <2> QED BY <2>1, WatcherIs
<1>4. TypeOK' /\ Apart(p)
  <2> HIDE DEF LockType, WatchType
  <2> QED BY <1>1, <1>2, <1>3 DEF LocalAll, LocalInv, Base, TypeOK, ThType, Apart, Others, LockIs
<1>5. Fresh(p)'
  BY <1>1, Zenon DEF LocalAll, LocalInv, Base, Fresh, Live
<1>6. ASSUME ~late PROVE LocalSafe(p)'
  <2>1. LocalSafe(p) /\ ctx'[p] # "live" /\ ctx'[p] # "lost" /\ th' = th /\ again' = again
    BY <1>1, <1>6 DEF LocalAll, LocalInv, LocalSafe
  <2>2. th[p].run.at \notin {"try", "flock", "sleep", "failed", "held", "derive"}
    BY <2>1 DEF LocalSafe
  <2> QED BY <2>1, <2>2 DEF LocalSafe, Punctual
<1>7. LocalInv'
  BY <1>4, <1>5, <1>6, LocalClosing DEF LocalAll
<1> QED BY <1>1, <1>7 DEF LocalAll

\* An expiry goroutine looks at the lock: it comes to unlock only after the expiration.
LEMMA WatchStep ==
  ASSUME LocalAll, NEW p \in Procs, NEW from \in {"check", "read"}, NEW to \in Fields4, from # to,
         watch[p][from] > 0, Moves(p, from, to), to = "unlock" => ~(lk[p].expiration > 0),
         UNCHANGED <<srv, lk, th, ctx, hctx, again, late>>
  PROVE  LocalAll'
<1>1. from \in Fields4 /\ Base
  BY DEF Fields4, LocalAll, LocalInv
<1>2. /\ watch' \in [Procs -> WatchType] /\ \A q \in Procs \ {p} : watch'[q] = watch[q]
      /\ \A f \in Fields4 \ {from, to} : watch'[p][f] = watch[p][f]
  <2> HIDE DEF WatchType
  <2> QED BY <1>1, WatcherIs
<1>3. TypeOK' /\ Apart(p)
  BY <1>1, <1>2 DEF Base, TypeOK, ThType, Apart, Others
<1>4. Fresh(p)'
  BY <1>1 DEF Base, Fresh, Live
<1>5. ASSUME ~late PROVE LocalSafe(p)'
  <2>1. LocalSafe(p) /\ th[p].run.age \in Nat /\ th[p].run.age <= MaxLag /\ lk[p].expiration \in Int
    BY <1>1, <1>5, Fields DEF LocalAll, LocalInv, Base
  <2>2. th[p].run.at \notin {"try", "flock", "sleep", "failed"}
    BY <2>1 DEF LocalSafe
  <2>3. th[p].run.at \in {"held", "derive"} => watch'[p].unlock = watch[p].unlock
    <3>1. th[p].run.at \in {"held", "derive"} => to # "unlock"
      BY <2>1, HalfTTL DEF LocalSafe
    <3>2. to # "unlock" => watch'[p]["unlock"] = watch[p]["unlock"]
      BY <1>2 DEF Fields4
    <3> QED BY <3>1, <3>2
  <2> QED BY <2>1, <2>2, <2>3 DEF LocalSafe, Punctual
<1>6. LocalInv'
  BY <1>3, <1>4, <1>5, LocalClosing DEF LocalAll
<1> QED BY <1>6 DEF LocalAll, LocalStore

\* Extend of the local lock: a live context has time left, so its extender waits again.
LEMMA LocalExtendStep ==
  ASSUME LocalAll, NEW p \in Procs, th[p].ext.at = "due", NEW b \in BOOLEAN,
         b <=> lk[p].locked /\ lk[p].expiration >= 0,
         ExtenderGot(p, IF b THEN "extended" ELSE "lost"),
         lk' = IF b THEN [lk EXCEPT ![p].expiration = TTL] ELSE lk,
         UNCHANGED <<srv, hctx, again, watch, late>>
  PROVE  LocalAll'
<1>1. PICK a \in {"extended", "lost"} : a = IF b THEN "extended" ELSE "lost"
  OBVIOUS
<1>2. /\ ThType' /\ ExtIs(p, IF a = "extended" THEN Waiting ELSE Goroutine("off"))
      /\ ctx' = IF a = "extended" THEN ctx ELSE Canceled(p, a)
  BY <1>1, GotExt DEF LocalAll, LocalInv, Base, TypeOK
<1>3. PICK l \in LockType : /\ LockIs(p, l) /\ l.locked = lk[p].locked /\ l.autoExtenderCancel = lk[p].autoExtenderCancel
                            /\ l.expiration = IF b THEN TTL ELSE lk[p].expiration
  <2>1. lk \in [Procs -> LockType] /\ TTL \in Int
    BY HalfTTL DEF LocalAll, LocalInv, Base, TypeOK
  <2> HIDE DEF LockType
  <2>2. CASE b
    BY <2>1, <2>2, SetExpiration, Zenon
  <2>3. CASE ~b
    BY <2>1, <2>3 DEF LockIs
  <2> QED BY <2>2, <2>3
<1>4. /\ ctx' \in [Procs -> {"none", "live", "lost", "done"}] /\ \A q \in Procs \ {p} : ctx'[q] = ctx[q]
      /\ ctx'[p] = IF b \/ ctx[p] # "live" THEN ctx[p] ELSE "lost"
  BY <1>1, <1>2 DEF LocalAll, LocalInv, Base, TypeOK, Canceled
<1>5. /\ th'[p].run = th[p].run /\ Others(p) /\ th'[p].ext.age = 0
      /\ b => th'[p].ext.at = "wait" /\ th'[p].ext.timer = Half
      /\ ~b => th'[p].ext.at = "off"
  BY <1>1, <1>2 DEF ExtIs, Waiting, Goroutine
<1>6. TypeOK' /\ Apart(p)
  <2> HIDE DEF LockType, WatchType
  <2> QED BY <1>2, <1>3, <1>4, <1>5 DEF LocalAll, LocalInv, Base, TypeOK, Apart, LockIs
<1>7. Fresh(p)'
  BY <1>4, <1>5 DEF LocalAll, LocalInv, Base, Fresh, Live
<1>8. ASSUME ~late PROVE LocalSafe(p)'
  <2>1. LocalSafe(p) /\ th[p].ext.age \in Nat /\ th[p].ext.age <= MaxDelay /\ lk[p].expiration \in Int
    BY <1>8, Fields DEF LocalAll, LocalInv, Base, LocalSafe, Punctual
  <2>2. ctx[p] = "live" => b
    <3>1. ctx[p] = "live" => lk[p].locked /\ lk[p].expiration >= 0
      BY <2>1, HalfTTL DEF LocalSafe
    <3> QED BY <3>1
  <2>3. th[p].run.at \notin Locking
    BY DEF LocalAll, LocalInv, Base, Fresh
  <2>4. Punctual(p)'
    BY <1>5, <2>1, HalfTTL DEF LocalSafe, Punctual
  <2>5. b => l.expiration >= Half + Half - MaxDelay
    BY <1>3, HalfTTL
  <2> QED BY <1>3, <1>4, <1>5, <2>1, <2>2, <2>3, <2>4, <2>5 DEF LocalSafe, LockIs
<1>9. LocalInv'
  BY <1>6, <1>7, <1>8, LocalClosing DEF LocalAll
<1>10. LocalStore'
  BY <1>3, LocalStoreStep DEF LocalAll, LocalStore, LockIs
<1> QED BY <1>9, <1>10 DEF LocalAll

\* Lock or TryLock fails, or TryLock finds the file locked.
LEMMA LocalFailsStep ==
  ASSUME LocalAll, NEW p \in Procs, th[p].run.at \in {"try", "flock", "sleep"},
         NEW to \in {"failed", "sleep", "try"},
         th' = [th EXCEPT ![p]["run"] = Goroutine(to)],
         lk' = lk \/ lk' = [lk EXCEPT ![p].mu = "free"], UNCHANGED <<srv, ctx, hctx, again, watch, late>>
  PROVE  LocalAll'
<1>1. PICK l \in LockType : LockIs(p, l) /\ l.locked = lk[p].locked /\ l.expiration = lk[p].expiration
  <2>1. PICK l : l = lk'[p]
    OBVIOUS
  <2>2. lk \in [Procs -> LockType]
    BY DEF LocalAll, LocalInv, Base, TypeOK
  <2>3. lk' \in [Procs -> LockType] /\ \A q \in Procs \ {p} : lk'[q] = lk[q]
    BY <2>2
  <2>4. l.locked = lk[p].locked /\ l.expiration = lk[p].expiration
    BY <2>1, <2>2
  <2> HIDE DEF LockType
  <2> QED BY <2>1, <2>3, <2>4 DEF LockIs
<1>2. again \in [Procs -> BOOLEAN] /\ ctx \in [Procs -> {"none", "live", "lost", "done"}] /\ ~again[p]
  BY DEF LocalAll, LocalInv, Base, TypeOK, Fresh
<1>3. ~late => ctx[p] # "live"
  BY DEF LocalAll, LocalInv, LocalSafe
<1>4. LocalInv'
  <2> HIDE DEF LockType
  <2> QED BY <1>1, <1>2, <1>3, LeaveLocal, Zenon DEF LocalAll
<1>5. LocalStore'
  BY <1>1, LocalStoreStep DEF LocalAll, LocalStore, LockIs
<1> QED BY <1>4, <1>5 DEF LocalAll

-----------------------------------------------------------------------------
(* Redis: a key has time left, or there is none.                             *)
RedisStore ==
  /\ srv \in [owner : Procs \cup {None}, left : 0 .. TTL]
  /\ srv.owner = None <=> srv.left = 0

RedisAll == RedisStore /\ LeaseInv

\* The script of TryLock takes the key if there is none.
LEMMA RedisTryLock ==
  ASSUME RedisAll, NEW p \in Procs, NEW b \in BOOLEAN, b <=> srv.owner = None, th[p].run.at = "try",
         th' = [th EXCEPT ![p]["run"].at = "answer", ![p]["run"].ok = b],
         srv' = IF b THEN [owner |-> p, left |-> TTL] ELSE srv,
         UNCHANGED <<lk, ctx, hctx, again, watch, late>>
  PROVE  RedisAll'
<1>1. RedisStore'
  <2>1. CASE b
    BY <2>1, HalfTTL, LockAssumption DEF RedisAll, RedisStore
  <2>2. CASE ~b
    BY <2>2 DEF RedisAll, RedisStore
  <2> QED BY <2>1, <2>2
<1>2. Kept(p) /\ (b => srv'.owner = p /\ srv'.left >= TTL)
  <2>1. CASE b
    BY <2>1, HalfTTL, LockAssumption DEF Kept
  <2>2. CASE ~b
    BY <2>2 DEF RedisAll, LeaseInv, Kept
  <2> QED BY <2>1, <2>2
<1>3. LeaseInv'
  BY <1>2, AnswerStep, Zenon DEF RedisAll
<1> QED BY <1>1, <1>3 DEF RedisAll

\* TryLock has got the key and reads its remaining time.
LEMMA RedisLocked ==
  ASSUME RedisAll, NEW p \in Procs, th[p].run.at = "answer", th[p].run.ok,
         th' = [th EXCEPT ![p]["run"].at = "held"],
         NEW x \in {0, IF srv.owner = None THEN -1 ELSE srv.left}, lk' = [lk EXCEPT ![p].expiration = x],
         UNCHANGED <<srv, ctx, hctx, again, watch, late>>
  PROVE  RedisAll'
<1>1. x \in Int /\ x <= srv.left /\ srv.left \in Int
  BY DEF RedisAll, RedisStore
<1>2. PICK l \in LockType : LockIs(p, l) /\ l.expiration = x
  <2>1. lk \in [Procs -> LockType]
    BY DEF RedisAll, LeaseInv, Base, TypeOK
  <2> HIDE DEF LockType
  <2> QED BY <1>1, <2>1, SetExpiration, Zenon
<1>3. ASSUME ~late PROVE Leased(p, TTL - th[p].run.age)
  BY <1>3 DEF RedisAll, LeaseInv, LeaseSafe, Got
<1>5. th'[p].run.age = th[p].run.age
  BY DEF RedisAll, LeaseInv, Base, TypeOK, ThType
<1>6. ~late => Leased(p, TTL - th[p].run.age)' /\ (l.expiration > 0 => srv'.left >= l.expiration)
  BY <1>1, <1>2, <1>3, <1>5 DEF Leased
<1>7. LeaseInv'
  <2> HIDE DEF LockType
  <2> QED BY <1>2, <1>6, Quiet, HeldStep, Zenon DEF RedisAll
<1> QED BY <1>7 DEF RedisAll, RedisStore

\* The caller goes away with the store as it is: TryLock has not got the key or has failed,
\* Lock tries again, Unlock has failed, the worker has returned, the closure has.
LEMMA RedisLeave ==
  ASSUME RedisAll, NEW p \in Procs, NEW to \in {"try", "failed", "sleep", "unlock", "closed", "done"},
         th' = [th EXCEPT ![p]["run"] = Goroutine(to)], UNCHANGED <<srv, lk, ctx, hctx, watch, late>>,
         again' \in [Procs -> BOOLEAN], \A q \in Procs \ {p} : again'[q] = again[q],
         again'[p] => again[p] \/ ctx[p] = "lost",
         to \in Locking => (again[p] \/ th[p].run.at \in Locking) /\ ~again'[p]
  PROVE  RedisAll'
<1>1. LockIs(p, lk[p]) /\ ctx \in [Procs -> {"none", "live", "lost", "done"}]
  BY DEF RedisAll, LeaseInv, Base, TypeOK, LockIs
<1>2. LeaseInv'
  BY <1>1, LeaveLease, Quiet, Zenon DEF RedisAll
<1> QED BY <1>2 DEF RedisAll, RedisStore

\* The script of Unlock deletes the key if it is p's.
LEMMA RedisUnlock ==
  ASSUME RedisAll, NEW p \in Procs, th[p].run.at = "unlock", th' = [th EXCEPT ![p]["run"].at = "unlocked"],
         srv' = IF srv.owner = p THEN [owner |-> None, left |-> 0] ELSE srv,
         UNCHANGED <<lk, ctx, hctx, again, watch, late>>
  PROVE  RedisAll'
<1>1. RedisStore' /\ Kept(p)
  <2>1. CASE srv.owner = p
    BY <2>1, HalfTTL, LockAssumption DEF RedisAll, RedisStore, Kept
  <2>2. CASE srv.owner # p
    BY <2>2 DEF RedisAll, RedisStore, Kept
  <2> QED BY <2>1, <2>2
<1>2. LeaseInv'
  BY <1>1, AwayMove, Zenon DEF RedisAll
<1> QED BY <1>1, <1>2 DEF RedisAll

\* Unlock of Redis or of Postgres has succeeded.
LEMMA UnlockedLease ==
  ASSUME LeaseInv, NEW p \in Procs, th' = [th EXCEPT ![p]["run"] = Goroutine("closed")], Forget(p),
         UNCHANGED <<srv, hctx, again, watch, late>>
  PROVE  LeaseInv' /\ RunIs(p, Goroutine("closed"))
<1>1. PICK l \in LockType : LockIs(p, l)
  BY ForgetStep, Zenon DEF LeaseInv, Base
<1>2. /\ ctx' \in [Procs -> {"none", "live", "lost", "done"}] /\ \A q \in Procs \ {p} : ctx'[q] = ctx[q]
      /\ ctx'[p] = "lost" => ctx[p] = "lost"
  BY ForgetStep, Zenon DEF LeaseInv, Base
<1>3. again' \in [Procs -> BOOLEAN]
  BY DEF LeaseInv, Base, TypeOK
<1> QED BY <1>1, <1>2, <1>3, LeaveLease, Quiet, Zenon

\* The script of Extend sets the time to live if the key is p's.
LEMMA RedisExtend ==
  ASSUME RedisAll, NEW p \in Procs, NEW b \in BOOLEAN, b <=> srv.owner = p, th[p].ext.at = "due",
         th' = [th EXCEPT ![p]["ext"].at = "answer", ![p]["ext"].ok = b],
         srv' = IF b THEN [srv EXCEPT !.left = TTL] ELSE srv,
         UNCHANGED <<lk, ctx, hctx, again, watch, late>>
  PROVE  RedisAll'
<1>1. RedisStore' /\ Kept(p) /\ (b => srv'.owner = p /\ srv'.left = TTL)
  <2>1. CASE b
    BY <2>1, HalfTTL, LockAssumption DEF RedisAll, RedisStore, Kept
  <2>2. CASE ~b
    BY <2>2 DEF RedisAll, RedisStore, Kept
  <2> QED BY <2>1, <2>2
<1>2. TTL >= TTL - th[p].ext.age
  BY Fields, HalfTTL DEF RedisAll, LeaseInv, Base
<1>3. LeaseInv'
  BY <1>1, <1>2, ExtendStep, Zenon DEF RedisAll
<1> QED BY <1>1, <1>3 DEF RedisAll

\* Extend has extended the lease and reads its remaining time.
LEMMA RedisExtended ==
  ASSUME RedisAll, NEW p \in Procs, th[p].ext.at = "answer", th[p].ext.ok, ExtenderGot(p, "extended"),
         NEW x \in {0, IF srv.owner = None THEN -1 ELSE srv.left}, lk' = [lk EXCEPT ![p].expiration = x],
         UNCHANGED <<srv, hctx, again, watch, late>>
  PROVE  RedisAll'
<1>1. ThType' /\ ExtIs(p, Waiting) /\ ctx' = ctx
  BY GotExt DEF RedisAll, LeaseInv, Base, TypeOK
<1>2. x \in Int /\ x <= TTL /\ x <= srv.left
  BY HalfTTL DEF RedisAll, RedisStore
<1>3. Leased(p, TTL - th[p].ext.age) => Leased(p, x)
  BY <1>2 DEF Leased
<1>4. LeaseInv'
  BY <1>1, <1>2, <1>3, ExtendedStep, Zenon DEF RedisAll
<1> QED BY <1>4 DEF RedisAll, RedisStore

\* Extend of Redis or of Postgres has failed or has not found the lease.
LEMMA LostLease ==
  ASSUME LeaseInv, NEW p \in Procs, NEW a \in {"lost", "done"}, ExtenderGot(p, a),
         lk' = lk \/ lk' = [lk EXCEPT ![p].expiration = ZeroTime], UNCHANGED <<srv, hctx, again, watch, late>>
  PROVE  LeaseInv' /\ ExtIs(p, Goroutine("off"))
<1>1. ThType' /\ ExtIs(p, Goroutine("off")) /\ ctx' = Canceled(p, a)
  BY GotExt DEF LeaseInv, Base, TypeOK
<1> QED BY <1>1, LostStep

\* A key that runs out vanishes.
LEMMA RedisTicks ==
  ASSUME RedisAll, Tick(IF srv.left > 1 THEN [srv EXCEPT !.left = @ - 1] ELSE [owner |-> None, left |-> 0])
  PROVE  RedisAll'
<1>1. PICK s : s = IF srv.left > 1 THEN [srv EXCEPT !.left = @ - 1] ELSE [owner |-> None, left |-> 0]
  OBVIOUS
<1>2. srv' = s /\ Tick(s)
  BY <1>1 DEF Tick
<1>3. CASE srv.left > 1
  <2>1. RedisStore' /\ s.left \in Int /\ s.owner = srv.owner /\ s.left = srv.left - 1
    BY <1>1, <1>2, <1>3, HalfTTL DEF RedisAll, RedisStore
  <2>2. srv.left \in Int
    BY DEF RedisAll, LeaseInv
  <2> QED BY <1>2, <2>1, <2>2, TickLease DEF RedisAll
<1>4. CASE ~(srv.left > 1)
  <2>1. RedisStore' /\ s.left \in Int /\ srv.left <= 1
    BY <1>1, <1>2, <1>4, HalfTTL DEF RedisAll, RedisStore
  <2>2. srv.left \in Int
    BY DEF RedisAll, LeaseInv
  <2> QED BY <1>2, <2>1, <2>2, TickLease DEF RedisAll
<1> QED BY <1>3, <1>4

-----------------------------------------------------------------------------
(* Postgres: a row is locked by the transaction that has selected it, and    *)
(* the one that will write it has found it expired or absent.                *)
PostgresType == [owner : Procs \cup {None}, left : Int, tx : Procs \cup {None},
                 schema : Procs \cup {"absent", "done"}]

PostgresStore ==
  /\ srv \in PostgresType
  /\ srv.left <= TTL
  /\ srv.owner = None => srv.left < 0
  /\ \A p \in Procs : /\ th[p].run.at = "update" => srv.tx = p
                      /\ th[p].run.at = "commit" /\ th[p].run.ok => srv.tx = p /\ srv.left < 0

PostgresAll == PostgresStore /\ LeaseInv

\* It is enough to look at the process that takes the step, if it leaves the transactions
\* of the others alone.
LEMMA PostgresFrame ==
  ASSUME PostgresStore, NEW p \in Procs, Others(p),
         srv' \in PostgresType, srv'.left <= TTL, srv'.owner = None => srv'.left < 0,
         th'[p].run.at = "update" => srv'.tx = p,
         th'[p].run.at = "commit" /\ th'[p].run.ok => srv'.tx = p /\ srv'.left < 0,
         \A q \in Procs \ {p} : srv.tx = q => srv'.tx = q /\ (srv.left < 0 => srv'.left < 0)
  PROVE  PostgresStore'
<1>1. ASSUME NEW q \in Procs
      PROVE  /\ th'[q].run.at = "update" => srv'.tx = q
             /\ th'[q].run.at = "commit" /\ th'[q].run.ok => srv'.tx = q /\ srv'.left < 0
  <2>1. CASE q = p
    BY <2>1
  <2>2. CASE q # p
    BY <2>2 DEF PostgresStore, Others
  <2> QED BY <2>1, <2>2
<1> QED BY <1>1 DEF PostgresStore

\* The same when the row stays, and with it every lease.
LEMMA PostgresRow ==
  ASSUME PostgresAll, NEW p \in Procs, Others(p),
         srv' \in PostgresType, srv'.owner = srv.owner, srv'.left = srv.left,
         th'[p].run.at = "update" => srv'.tx = p,
         th'[p].run.at = "commit" /\ th'[p].run.ok => srv'.tx = p /\ srv'.left < 0,
         \A q \in Procs \ {p} : srv.tx = q => srv'.tx = q
  PROVE  PostgresStore'
  BY PostgresFrame DEF PostgresAll, PostgresStore

\* Every lease stays with the row.
LEMMA KeptRow ==
  ASSUME PostgresAll, NEW p \in Procs, srv'.owner = srv.owner, srv'.left = srv.left
  PROVE  Kept(p)
  BY DEF PostgresAll, LeaseInv, Kept

\* The store after the end of p's transaction.
EndOf(p, s, c) == [s EXCEPT !.tx = IF @ = p THEN None ELSE @, !.schema = IF @ = p THEN c ELSE @]

\* The end of a transaction of p frees its locks.
LEMMA EndedIs ==
  ASSUME NEW s \in PostgresType, NEW p \in Procs, NEW c \in {"done", "absent"}
  PROVE  /\ EndOf(p, s, c) \in PostgresType
         /\ EndOf(p, s, c).owner = s.owner /\ EndOf(p, s, c).left = s.left
         /\ \A q \in Procs \ {p} : s.tx = q => EndOf(p, s, c).tx = q
<1>0. PICK e : e = EndOf(p, s, c)
  OBVIOUS
<1>1. PICK t : t = IF s.tx = p THEN None ELSE s.tx
  OBVIOUS
<1>2. PICK m : m = IF s.schema = p THEN c ELSE s.schema
  OBVIOUS
<1>3. t \in Procs \cup {None} /\ \A q \in Procs \ {p} : s.tx = q => t = q
  BY <1>1 DEF PostgresType
<1>4. m \in Procs \cup {"absent", "done"}
  BY <1>2 DEF PostgresType
<1>5. PICK u \in PostgresType : u = [s EXCEPT !.tx = t]
  BY <1>3, Zenon DEF PostgresType
<1>6. u.owner = s.owner /\ u.left = s.left /\ u.tx = t /\ u.schema = s.schema
  BY <1>5 DEF PostgresType
<1>7. e = [u EXCEPT !.schema = m]
  BY <1>0, <1>1, <1>2, <1>5 DEF EndOf
<1>8. e \in PostgresType /\ e.owner = u.owner /\ e.left = u.left /\ e.tx = u.tx
  BY <1>4, <1>7 DEF PostgresType
<1> QED BY <1>0, <1>3, <1>6, <1>8

\* The schema is created, or another transaction is creating it.
LEMMA PostgresSetup ==
  ASSUME PostgresAll, NEW p \in Procs, th[p].run.at \in {"try", "creating"},
         \/ \E to \in {"select", "creating"} : th' = [th EXCEPT ![p]["run"] = Goroutine(to)]
         \/ th[p].run.at = "creating" /\ th' = [th EXCEPT ![p]["run"].at = "select"],
         \/ srv' = srv
         \/ \E m \in Procs \cup {"absent", "done"} : srv' = [srv EXCEPT !.schema = m],
         UNCHANGED <<lk, ctx, hctx, again, watch, late>>
  PROVE  PostgresAll'
<1>1. /\ srv' \in PostgresType /\ srv'.owner = srv.owner /\ srv'.left = srv.left /\ srv'.tx = srv.tx
  <2>1. srv \in PostgresType
    BY DEF PostgresAll, PostgresStore
  <2> QED BY <2>1 DEF PostgresType
<1>2. Kept(p)
  BY <1>1, KeptRow
<1>3. LeaseInv' /\ \E g : RunIs(p, g) /\ g.at \in {"select", "creating"}
  <2>1. ASSUME NEW to \in {"select", "creating"}, th' = [th EXCEPT ![p]["run"] = Goroutine(to)]
        PROVE  LeaseInv' /\ \E g : RunIs(p, g) /\ g.at \in {"select", "creating"}
    <3>1. LeaseInv' /\ RunIs(p, Goroutine(to))
      BY <1>2, <2>1, AwayGoto, Zenon DEF PostgresAll
    <3>2. Goroutine(to).at = to
      BY DEF Goroutine
    <3> QED BY <3>1, <3>2
  <2>2. ASSUME th[p].run.at = "creating", th' = [th EXCEPT ![p]["run"].at = "select"]
        PROVE  LeaseInv' /\ \E g : RunIs(p, g) /\ g.at \in {"select", "creating"}
    <3>1. LeaseInv' /\ RunIs(p, [th[p].run EXCEPT !.at = "select"])
      BY <1>2, <2>2, AwayMove, Zenon DEF PostgresAll
    <3>2. [th[p].run EXCEPT !.at = "select"].at = "select"
      BY DEF PostgresAll, LeaseInv, Base, TypeOK, ThType
    <3> QED BY <3>1, <3>2, Zenon
  <2> QED BY <2>1, <2>2
<1>4. th'[p].run.at \in {"select", "creating"} /\ Others(p)
  BY <1>3 DEF RunIs
<1>5. PostgresStore'
  BY <1>1, <1>4, PostgresRow
<1> QED BY <1>3, <1>5 DEF PostgresAll

\* SELECT ... FOR UPDATE finds no row, or locks it.
LEMMA PostgresSelect ==
  ASSUME PostgresAll, NEW p \in Procs, th[p].run.at = "select", NEW to \in {"insert", "update"},
         th' = [th EXCEPT ![p]["run"].at = to],
         \/ to = "insert" /\ srv' = srv
         \/ to = "update" /\ srv.tx = None /\ srv' = [srv EXCEPT !.tx = p],
         UNCHANGED <<lk, ctx, hctx, again, watch, late>>
  PROVE  PostgresAll'
<1>1. /\ srv' \in PostgresType /\ srv'.owner = srv.owner /\ srv'.left = srv.left
      /\ \A q \in Procs \ {p} : srv.tx = q => srv'.tx = q
      /\ to = "update" => srv'.tx = p
  <2>1. srv \in PostgresType
    BY DEF PostgresAll, PostgresStore
  <2> QED BY <2>1, LockAssumption DEF PostgresType
<1>2. Kept(p)
  BY <1>1, KeptRow
<1>3. LeaseInv' /\ RunIs(p, [th[p].run EXCEPT !.at = to])
  BY <1>2, AwayMove, Zenon DEF PostgresAll
<1>4. th'[p].run.at = to /\ Others(p)
  BY <1>3 DEF RunIs, PostgresAll, LeaseInv, Base, TypeOK, ThType
<1>5. PostgresStore'
  BY <1>1, <1>4, PostgresRow
<1> QED BY <1>3, <1>5 DEF PostgresAll

\* UPDATE finds the row expired, or INSERT finds none, if b, and the expiration is kept.
LEMMA PostgresWrite ==
  ASSUME PostgresAll, NEW p \in Procs, NEW b \in BOOLEAN, th[p].run.at \in {"update", "insert"},
         th' = [th EXCEPT ![p]["run"].at = "commit", ![p]["run"].ok = b],
         lk' = IF b THEN [lk EXCEPT ![p].expiration = TTL - th[p].run.age] ELSE lk,
         \/ th[p].run.at = "update" /\ srv' = srv /\ (b => srv.left < -th[p].run.age)
         \/ /\ th[p].run.at = "insert" /\ srv.tx = None /\ (b => srv.owner = None)
            /\ srv' = IF b THEN [srv EXCEPT !.tx = p] ELSE srv,
         UNCHANGED <<ctx, hctx, again, watch, late>>
  PROVE  PostgresAll'
<1>1. /\ srv' \in PostgresType /\ srv'.owner = srv.owner /\ srv'.left = srv.left
      /\ \A q \in Procs \ {p} : srv.tx = q => srv'.tx = q
      /\ b => srv'.tx = p /\ srv.left < 0
  <2>1. srv \in PostgresType /\ th[p].run.age \in Nat /\ (th[p].run.at = "update" => srv.tx = p)
        /\ (srv.owner = None => srv.left < 0)
    BY Fields DEF PostgresAll, PostgresStore, LeaseInv, Base
  <2>2. CASE th[p].run.at = "update"
    BY <2>1, <2>2 DEF PostgresType
  <2>3. CASE th[p].run.at = "insert"
    BY <2>1, <2>3, LockAssumption DEF PostgresType
  <2> QED BY <2>2, <2>3
<1>2. Kept(p)
  BY <1>1, KeptRow
<1>3. LeaseInv' /\ RunIs(p, [th[p].run EXCEPT !.at = "commit", !.ok = b])
  BY <1>2, CommitStep, Zenon DEF PostgresAll
<1>4. th'[p].run.at = "commit" /\ th'[p].run.ok = b /\ Others(p)
  BY <1>3, AnswerRun, Zenon DEF RunIs, PostgresAll, LeaseInv, Base, TypeOK
<1>5. PostgresStore'
  BY <1>1, <1>4, PostgresRow, Zenon
<1> QED BY <1>3, <1>5 DEF PostgresAll

Written(p) == IF th[p].run.ok THEN [srv EXCEPT !.owner = p, !.left = TTL - th[p].run.age] ELSE srv

\* A commit that has written the row makes it p's; nobody else had time left.
LEMMA CommittedIs ==
  ASSUME PostgresAll, NEW p \in Procs, th[p].run.at = "commit", srv' = EndOf(p, Written(p), "done")
  PROVE  /\ srv' \in PostgresType /\ srv'.left <= TTL /\ (srv'.owner = None => srv'.left < 0)
         /\ Kept(p) /\ (th[p].run.ok => srv'.owner = p /\ srv'.left = TTL - th[p].run.age)
         /\ \A q \in Procs \ {p} : srv.tx = q => srv'.tx = q /\ (srv.left < 0 => srv'.left < 0)
<1>1. /\ srv \in PostgresType /\ srv.left <= TTL /\ (srv.owner = None => srv.left < 0)
      /\ th[p].run.ok => srv.tx = p /\ srv.left < 0
      /\ th[p].run.age \in Nat /\ p # None
  BY Fields DEF PostgresAll, PostgresStore, LeaseInv, Base
<1>2. PICK s : s = Written(p)
  OBVIOUS
<1>3. PICK n \in Int : n = TTL - th[p].run.age
  BY <1>1, HalfTTL
<1>4. /\ s \in PostgresType /\ s.tx = srv.tx
      /\ th[p].run.ok => s.owner = p /\ s.left = n
      /\ ~th[p].run.ok => s.owner = srv.owner /\ s.left = srv.left
  <2>1. CASE th[p].run.ok
    <3>1. PICK u : u = [srv EXCEPT !.owner = p]
      BY Zenon
    <3>2. u \in PostgresType /\ u.owner = p /\ u.tx = srv.tx
      BY <1>1, <3>1 DEF PostgresType
    <3>3. s = [u EXCEPT !.left = n]
      BY <1>2, <1>3, <2>1, <3>1 DEF Written
    <3>4. s \in PostgresType /\ s.owner = p /\ s.tx = u.tx /\ s.left = n
      BY <3>2, <3>3 DEF PostgresType
    <3> QED BY <2>1, <3>2, <3>4
  <2>2. CASE ~th[p].run.ok
    BY <1>1, <1>2, <2>2 DEF Written
  <2> QED BY <2>1, <2>2
<1>5. /\ srv' \in PostgresType /\ srv'.owner = s.owner /\ srv'.left = s.left
      /\ \A q \in Procs \ {p} : s.tx = q => srv'.tx = q
  <2>1. srv' = EndOf(p, s, "done")
    BY <1>2
  <2> HIDE DEF PostgresType
  <2>2. s \in PostgresType /\ "done" \in {"done", "absent"}
    BY <1>4
  <2>3. PICK e : e = EndOf(p, s, "done")
    OBVIOUS
  <2>4. /\ e \in PostgresType /\ e.owner = s.owner /\ e.left = s.left
        /\ \A q \in Procs \ {p} : s.tx = q => e.tx = q
    BY <2>2, <2>3, EndedIs, Zenon
  <2> QED BY <2>1, <2>3, <2>4
<1>6. n <= TTL
  BY <1>1, <1>3, HalfTTL
<1>7. srv.left \in Int /\ srv'.left \in Int
  BY <1>1, <1>5 DEF PostgresType
<1> HIDE DEF PostgresType
<1>8. CASE th[p].run.ok
  <2>1. srv'.owner = p /\ srv'.left = n /\ srv.tx = p /\ srv.left < 0
    BY <1>1, <1>4, <1>5, <1>8
  <2>2. Kept(p)
    BY <1>7, <2>1 DEF Kept
  <2>3. \A q \in Procs \ {p} : srv.tx # q
    BY <2>1
  <2> QED BY <1>1, <1>3, <1>5, <1>6, <2>1, <2>2, <2>3
<1>9. CASE ~th[p].run.ok
  <2>1. srv'.owner = srv.owner /\ srv'.left = srv.left /\ \A q \in Procs \ {p} : srv.tx = q => srv'.tx = q
    BY <1>4, <1>5, <1>9
  <2>2. Kept(p)
    BY <1>7, <2>1 DEF Kept
  <2> QED BY <1>1, <1>5, <1>9, <2>1, <2>2
<1> QED BY <1>8, <1>9

\* The deferred commit of TryLock.
LEMMA PostgresCommit ==
  ASSUME PostgresAll, NEW p \in Procs, th[p].run.at = "commit", srv' = EndOf(p, Written(p), "done"),
         IF th[p].run.ok THEN th' = [th EXCEPT ![p]["run"].at = "held"]
                         ELSE th' = [th EXCEPT ![p]["run"] = Goroutine("sleep")],
         UNCHANGED <<lk, ctx, hctx, again, watch, late>>
  PROVE  PostgresAll'
<1>1. /\ srv' \in PostgresType /\ srv'.left <= TTL /\ (srv'.owner = None => srv'.left < 0)
      /\ Kept(p) /\ (th[p].run.ok => srv'.owner = p /\ srv'.left = TTL - th[p].run.age)
      /\ \A q \in Procs \ {p} : srv.tx = q => srv'.tx = q /\ (srv.left < 0 => srv'.left < 0)
  BY CommittedIs
<1>2. th[p].run.age \in Nat /\ lk[p].expiration \in Int
  BY Fields DEF PostgresAll, LeaseInv, Base
<1>3. LeaseInv' /\ Others(p) /\ th'[p].run.at \in {"held", "sleep"}
  <2>1. CASE th[p].run.ok
    <3>1. RunIs(p, [th[p].run EXCEPT !.at = "held"])
      BY <2>1, MoveRun, Zenon DEF PostgresAll, LeaseInv, Base, TypeOK
    <3>2. th'[p].run.age = th[p].run.age /\ th'[p].run.at = "held" /\ Others(p)
      BY <3>1 DEF RunIs, PostgresAll, LeaseInv, Base, TypeOK, ThType
    <3>3. LockIs(p, lk[p]) /\ lk[p] \in LockType
      BY DEF PostgresAll, LeaseInv, Base, TypeOK, LockIs
    <3>4. ASSUME ~late, lk[p].expiration > 0 PROVE srv'.left >= lk[p].expiration
      <4>1. lk[p].expiration <= TTL - th[p].run.age
        BY <2>1, <3>4 DEF PostgresAll, LeaseInv, LeaseSafe, Honest
      <4> QED BY <1>1, <1>2, <2>1, <4>1, HalfTTL
    <3>5. Leased(p, TTL - th[p].run.age)'
      <4>1. srv'.owner = p /\ srv'.left = TTL - th[p].run.age
        BY <1>1, <2>1
      <4> QED BY <1>2, <3>2, <4>1, HalfTTL DEF Leased
    <3>6. LeaseInv'
      <4> HIDE DEF LockType
      <4> QED BY <1>1, <2>1, <3>3, <3>4, <3>5, HeldStep DEF PostgresAll
    <3> QED BY <3>2, <3>6
  <2>2. CASE ~th[p].run.ok
    <3>1. LeaseInv' /\ RunIs(p, Goroutine("sleep"))
      BY <1>1, <2>2, AwayGoto DEF PostgresAll
    <3> QED BY <3>1 DEF RunIs, Goroutine
  <2> QED BY <2>1, <2>2
<1>4. PostgresStore'
  BY <1>1, <1>3, PostgresFrame DEF PostgresAll
<1> QED BY <1>3, <1>4 DEF PostgresAll

\* TryLock fails: the transaction is rolled back, or its commit has no answer.
LEMMA PostgresFails ==
  ASSUME PostgresAll, NEW p \in Procs,
         th[p].run.at \in {"try", "creating", "select", "update", "insert", "commit"},
         th' = [th EXCEPT ![p]["run"] = Goroutine("failed")],
         \/ srv' = EndOf(p, srv, "absent")
         \/ th[p].run.at = "commit" /\ srv' = EndOf(p, Written(p), "done"),
         UNCHANGED <<lk, ctx, hctx, again, watch, late>>
  PROVE  PostgresAll'
<1>1. /\ srv' \in PostgresType /\ srv'.left <= TTL /\ (srv'.owner = None => srv'.left < 0) /\ Kept(p)
      /\ \A q \in Procs \ {p} : srv.tx = q => srv'.tx = q /\ (srv.left < 0 => srv'.left < 0)
  <2>1. CASE srv' = EndOf(p, srv, "absent")
    <3>1. srv \in PostgresType /\ srv.left <= TTL /\ (srv.owner = None => srv.left < 0)
      BY DEF PostgresAll, PostgresStore
    <3>2. /\ srv' \in PostgresType /\ srv'.owner = srv.owner /\ srv'.left = srv.left
          /\ \A q \in Procs \ {p} : srv.tx = q => srv'.tx = q
      <4>1. "absent" \in {"done", "absent"}
        OBVIOUS
      <4> HIDE DEF PostgresType
      <4> QED BY <2>1, <3>1, <4>1, EndedIs, Zenon
    <3> QED BY <3>1, <3>2, KeptRow
  <2>2. CASE th[p].run.at = "commit" /\ srv' = EndOf(p, Written(p), "done")
    BY <2>2, CommittedIs
  <2> QED BY <2>1, <2>2
<1>2. LeaseInv' /\ RunIs(p, Goroutine("failed"))
  BY <1>1, AwayGoto, Zenon DEF PostgresAll
<1>3. th'[p].run.at = "failed" /\ Others(p)
  BY <1>2 DEF RunIs, Goroutine
<1>4. PostgresStore'
  BY <1>1, <1>3, PostgresFrame DEF PostgresAll
<1> QED BY <1>2, <1>4 DEF PostgresAll

\* The caller goes away with the store as it is: Lock tries again, the worker has returned,
\* Unlock begins, succeeds or fails, the closure has returned.
LEMMA PostgresLeave ==
  ASSUME PostgresAll, NEW p \in Procs, NEW to \in {"try", "failed", "sleep", "unlock", "closed", "done"},
         th' = [th EXCEPT ![p]["run"] = Goroutine(to)], UNCHANGED <<srv, lk, ctx, hctx, watch, late>>,
         again' \in [Procs -> BOOLEAN], \A q \in Procs \ {p} : again'[q] = again[q],
         again'[p] => again[p] \/ ctx[p] = "lost",
         to \in Locking => (again[p] \/ th[p].run.at \in Locking) /\ ~again'[p]
  PROVE  PostgresAll'
<1>1. LockIs(p, lk[p]) /\ ctx \in [Procs -> {"none", "live", "lost", "done"}]
  BY DEF PostgresAll, LeaseInv, Base, TypeOK, LockIs
<1>2. LeaseInv' /\ RunIs(p, Goroutine(to))
  BY <1>1, LeaveLease, Quiet, Zenon DEF PostgresAll
<1>3. th'[p].run.at = to /\ Others(p)
  BY <1>2 DEF RunIs, Goroutine
<1>4. PostgresStore'
  BY <1>3, PostgresRow DEF PostgresAll, PostgresStore
<1> QED BY <1>2, <1>4 DEF PostgresAll

\* The statement of Unlock begins.
LEMMA PostgresUnlockBegin ==
  ASSUME PostgresAll, NEW p \in Procs, th[p].run.at = "unlock",
         th' = [th EXCEPT ![p]["run"] = Goroutine("unlocking")],
         UNCHANGED <<srv, lk, ctx, hctx, again, watch, late>>
  PROVE  PostgresAll'
<1>1. LeaseInv' /\ RunIs(p, Goroutine("unlocking"))
  BY AwayGoto, Quiet, Zenon DEF PostgresAll
<1>2. th'[p].run.at = "unlocking" /\ Others(p)
  BY <1>1 DEF RunIs, Goroutine
<1>3. PostgresStore'
  BY <1>2, PostgresRow DEF PostgresAll, PostgresStore
<1> QED BY <1>1, <1>3 DEF PostgresAll

\* The statement of Unlock ends the lease, if it is p's.
LEMMA PostgresUnlock ==
  ASSUME PostgresAll, NEW p \in Procs, th[p].run.at = "unlocking", srv.tx = None,
         th' = [th EXCEPT ![p]["run"].at = "unlocked"],
         srv' = IF srv.owner = p /\ srv.left > -th[p].run.age THEN [srv EXCEPT !.left = -th[p].run.age] ELSE srv,
         UNCHANGED <<lk, ctx, hctx, again, watch, late>>
  PROVE  PostgresAll'
<1>1. /\ srv \in PostgresType /\ srv.left <= TTL /\ (srv.owner = None => srv.left < 0)
      /\ th[p].run.age \in Nat /\ p # None
  BY Fields DEF PostgresAll, PostgresStore, LeaseInv, Base
<1>2. /\ srv' \in PostgresType /\ srv'.left <= TTL /\ (srv'.owner = None => srv'.left < 0) /\ Kept(p)
  <2>1. CASE srv.owner = p /\ srv.left > -th[p].run.age
    BY <1>1, <2>1, HalfTTL DEF PostgresType, Kept
  <2>2. CASE ~(srv.owner = p /\ srv.left > -th[p].run.age)
    BY <1>1, <2>2 DEF PostgresType, Kept
  <2> QED BY <2>1, <2>2
<1>3. LeaseInv' /\ RunIs(p, [th[p].run EXCEPT !.at = "unlocked"])
  BY <1>2, AwayMove, Zenon DEF PostgresAll
<1>4. th'[p].run.at = "unlocked" /\ Others(p)
  BY <1>3 DEF RunIs, PostgresAll, LeaseInv, Base, TypeOK, ThType
<1>5. PostgresStore'
  BY <1>2, <1>4, PostgresFrame, LockAssumption DEF PostgresAll
<1> QED BY <1>3, <1>5 DEF PostgresAll

\* Unlock of Postgres has succeeded.
LEMMA PostgresUnlocked ==
  ASSUME PostgresAll, NEW p \in Procs, th' = [th EXCEPT ![p]["run"] = Goroutine("closed")], Forget(p),
         UNCHANGED <<srv, hctx, again, watch, late>>
  PROVE  PostgresAll'
<1>1. LeaseInv' /\ RunIs(p, Goroutine("closed"))
  BY UnlockedLease, Zenon DEF PostgresAll
<1>2. th'[p].run.at = "closed" /\ Others(p)
  BY <1>1 DEF RunIs, Goroutine
<1>3. PostgresStore'
  BY <1>2, PostgresRow DEF PostgresAll, PostgresStore
<1> QED BY <1>1, <1>3 DEF PostgresAll

\* The statement of Extend extends the lease, if it is p's, from the time it began.
LEMMA PostgresExtend ==
  ASSUME PostgresAll, NEW p \in Procs, NEW b \in BOOLEAN, b <=> srv.owner = p /\ srv.left > -th[p].ext.age,
         th[p].ext.at = "due", srv.tx = None,
         th' = [th EXCEPT ![p]["ext"].at = "answer", ![p]["ext"].ok = b],
         srv' = IF b THEN [srv EXCEPT !.left = TTL - th[p].ext.age] ELSE srv,
         UNCHANGED <<lk, ctx, hctx, again, watch, late>>
  PROVE  PostgresAll'
<1>1. /\ srv \in PostgresType /\ srv.left <= TTL /\ (srv.owner = None => srv.left < 0)
      /\ th[p].ext.age \in Nat /\ p # None
  BY Fields DEF PostgresAll, PostgresStore, LeaseInv, Base
<1>2. PICK n \in Int : n = TTL - th[p].ext.age /\ n <= TTL
  BY <1>1, HalfTTL
<1>3. /\ srv' \in PostgresType /\ srv'.left <= TTL /\ (srv'.owner = None => srv'.left < 0)
      /\ Kept(p) /\ (b => srv'.owner = p /\ srv'.left >= TTL - th[p].ext.age)
  <2>1. CASE b
    <3>1. srv' = [srv EXCEPT !.left = n] /\ srv.owner = p
      BY <1>2, <2>1
    <3>2. srv' \in PostgresType /\ srv'.owner = p /\ srv'.left = n
      BY <1>1, <3>1 DEF PostgresType
    <3>3. Kept(p)
      BY <1>1, <3>1, <3>2 DEF Kept
    <3> QED BY <1>1, <1>2, <2>1, <3>2, <3>3
  <2>2. CASE ~b
    BY <1>1, <2>2 DEF PostgresType, Kept
  <2> QED BY <2>1, <2>2
<1>4. srv.owner = p /\ srv.left > 0 => b
  BY <1>1 DEF PostgresType
<1>5. LeaseInv' /\ ExtIs(p, [th[p].ext EXCEPT !.at = "answer", !.ok = b])
  BY <1>3, <1>4, ExtendStep, Zenon DEF PostgresAll
<1>6. th'[p].run = th[p].run /\ Others(p) /\ th[p].run.at \notin Locking
  BY <1>5, Zenon DEF ExtIs, PostgresAll, LeaseInv, Base, Fresh
<1>7. PostgresStore'
  BY <1>3, <1>6, PostgresFrame, LockAssumption, Zenon DEF PostgresAll
<1> QED BY <1>5, <1>7 DEF PostgresAll

\* Only the extender of p, its context or its lock object has changed.
LEMMA PostgresBeside ==
  ASSUME PostgresAll, NEW p \in Procs, srv' = srv, Others(p),
         th'[p].run = th[p].run \/ th'[p].run.at \notin {"update", "commit"}, LeaseInv'
  PROVE  PostgresAll'
<1>1. /\ th'[p].run.at = "update" => srv'.tx = p
      /\ th'[p].run.at = "commit" /\ th'[p].run.ok => srv'.tx = p /\ srv'.left < 0
  BY DEF PostgresAll, PostgresStore
<1>2. PostgresStore'
  BY <1>1, PostgresRow DEF PostgresAll, PostgresStore
<1> QED BY <1>2 DEF PostgresAll

\* Extend has extended the lease, or has lost it.
LEMMA PostgresExtended ==
  ASSUME PostgresAll, NEW p \in Procs, th[p].ext.at = "answer", NEW b \in BOOLEAN, b = th[p].ext.ok,
         ExtenderGot(p, IF b THEN "extended" ELSE "lost"),
         lk' = [lk EXCEPT ![p].expiration = IF b THEN TTL - th[p].ext.age ELSE ZeroTime],
         UNCHANGED <<srv, hctx, again, watch, late>>
  PROVE  PostgresAll'
<1>1. PICK a \in {"extended", "lost"} : a = IF b THEN "extended" ELSE "lost"
  OBVIOUS
<1>2. PICK n \in Int : n = TTL - th[p].ext.age /\ n <= TTL
  BY Fields, HalfTTL DEF PostgresAll, LeaseInv, Base
<1>3. LeaseInv' /\ th'[p].run = th[p].run /\ Others(p)
  <2>1. CASE b
    <3>1. ThType' /\ ExtIs(p, Waiting) /\ ctx' = ctx
      BY <2>1, GotExt DEF PostgresAll, LeaseInv, Base, TypeOK
    <3>2. lk' = [lk EXCEPT ![p].expiration = n] /\ th[p].ext.ok
      BY <1>2, <2>1
    <3>3. Leased(p, TTL - th[p].ext.age) => Leased(p, n)
      BY <1>2
    <3>4. LeaseInv'
      BY <1>2, <3>1, <3>2, <3>3, ExtendedStep, Zenon DEF PostgresAll
    <3> QED BY <3>1, <3>4 DEF ExtIs
  <2>2. CASE ~b
    <3>1. ExtenderGot(p, "lost") /\ lk' = [lk EXCEPT ![p].expiration = ZeroTime]
      BY <2>2
    <3>2. LeaseInv' /\ ExtIs(p, Goroutine("off"))
      BY <3>1, LostLease, Zenon DEF PostgresAll
    <3> QED BY <3>2 DEF ExtIs
  <2> QED BY <2>1, <2>2
<1> QED BY <1>3, PostgresBeside

\* Time passes over the row.
LEMMA PostgresTicks ==
  ASSUME PostgresAll, Tick([srv EXCEPT !.left = Sooner(@, -MaxLag - 1)])
  PROVE  PostgresAll'
<1>1. PICK s : s = [srv EXCEPT !.left = Sooner(@, -MaxLag - 1)]
  OBVIOUS
<1>2. srv' = s /\ Tick(s)
  BY <1>1 DEF Tick
<1>3. srv \in PostgresType /\ srv.left <= TTL /\ (srv.owner = None => srv.left < 0) /\ MaxLag \in Nat
  BY HalfTTL DEF PostgresAll, PostgresStore
<1>4. PICK n \in Int : n = Sooner(srv.left, -MaxLag - 1) /\ n <= srv.left /\ n >= srv.left - 1
  BY <1>3 DEF Sooner, PostgresType
<1>5. s \in PostgresType /\ s.owner = srv.owner /\ s.tx = srv.tx /\ s.left = n /\ srv.left \in Int
  BY <1>1, <1>3, <1>4 DEF PostgresType
<1>6. LeaseInv' /\ \A q \in Procs : Ticked(q)
  BY <1>2, <1>4, <1>5, TickLease DEF PostgresAll
<1>7. \A q \in Procs : th'[q].run.at = th[q].run.at /\ th'[q].run.ok = th[q].run.ok
  BY <1>6 DEF Ticked
<1>8. PostgresStore'
  BY <1>2, <1>3, <1>4, <1>5, <1>7, HalfTTL DEF PostgresAll, PostgresStore
<1> QED BY <1>6, <1>8 DEF PostgresAll

\* A process crashes: its transaction is rolled back.
LEMMA PostgresCrashes ==
  ASSUME PostgresAll, NEW p \in Procs, Gone(p), srv' = EndOf(p, srv, "absent"), UNCHANGED <<watch, late>>
  PROVE  PostgresAll'
<1>1. /\ srv' \in PostgresType /\ srv'.owner = srv.owner /\ srv'.left = srv.left
      /\ \A q \in Procs \ {p} : srv.tx = q => srv'.tx = q
  <2>1. srv \in PostgresType /\ "absent" \in {"done", "absent"}
    BY DEF PostgresAll, PostgresStore
  <2> QED BY <2>1, EndedIs, Zenon
<1>2. LeaseInv' /\ Apart(p) /\ th'[p].run.at = "crashed"
  BY <1>1, KeptRow, CrashLease DEF PostgresAll
<1>3. PostgresStore'
  BY <1>1, <1>2, PostgresRow DEF Apart
<1> QED BY <1>2, <1>3 DEF PostgresAll

-----------------------------------------------------------------------------
(* The rest of the local lock: what is the same over the three locks.        *)

\* The file and what the lock object says of it are as they were.
LEMMA LocalBeside ==
  ASSUME LocalAll, NEW p \in Procs, srv' = srv, \A q \in Procs \ {p} : lk'[q] = lk[q],
         lk'[p].locked = lk[p].locked, lk'[p].expiration = lk[p].expiration, LocalInv'
  PROVE  LocalAll'
<1>1. LocalStore /\ (lk[p].locked <=> srv.owner = p) /\ (lk[p].expiration > 0 => lk[p].locked)
  BY DEF LocalAll, LocalStore
<1>2. LocalStore'
  BY <1>1, LocalStoreStep
<1> QED BY <1>2 DEF LocalAll

\* The worker or the closure has returned.  A punctual process does not lock again.
LEMMA LocalLeave ==
  ASSUME LocalAll, NEW p \in Procs, NEW to \in {"try", "unlock", "done"},
         \/ th[p].run.at = "work" /\ to = "unlock"
         \/ th[p].run.at \in {"closed", "failed"} /\ to # "unlock" /\ (to = "try" => again[p] /\ ~again'[p]),
         th' = [th EXCEPT ![p]["run"] = Goroutine(to)], UNCHANGED <<srv, lk, ctx, hctx, watch, late>>,
         again' \in [Procs -> BOOLEAN], \A q \in Procs \ {p} : again'[q] = again[q],
         again'[p] => again[p] \/ ctx[p] = "lost"
  PROVE  LocalAll'
<1>1. LocalInv /\ Base /\ TypeOK /\ lk \in [Procs -> LockType]
  BY DEF LocalAll, LocalInv, Base, TypeOK
<1>2. LockIs(p, lk[p])
  BY <1>1 DEF LockIs
<1>3. ctx' \in [Procs -> {"none", "live", "lost", "done"}] /\ \A q \in Procs \ {p} : ctx'[q] = ctx[q]
  BY <1>1 DEF TypeOK
<1>4. to \in Locking => (again[p] \/ th[p].run.at \in Locking) /\ ~again'[p]
  OBVIOUS
<1>5. ASSUME ~late
      PROVE  /\ to \in Locking => th[p].run.at \in {"try", "flock", "sleep", "failed"} /\ ctx' = ctx
             /\ ctx'[p] = "live" => ctx[p] = "live" /\ to = "unlock" /\ lk[p] = lk[p]
  <2>1. ~again[p] /\ (ctx[p] = "live" => th[p].run.at \in {"work", "unlock"})
    BY <1>1, <1>5 DEF LocalInv, LocalSafe
  <2> QED BY <2>1
<1>6. to \in {"try", "failed", "sleep", "unlock", "closed", "done"} /\ (ctx'[p] = "lost" => ctx[p] = "lost")
  OBVIOUS
<1>7. LocalInv'
  BY <1>1, <1>2, <1>3, <1>4, <1>5, <1>6, LeaveLocal, Zenon
<1> QED BY <1>7, LocalBeside

\* Time passes: the file is not freed.
LEMMA LocalTicks ==
  ASSUME LocalAll, Tick(srv)
  PROVE  LocalAll'
<1>1. LocalInv' /\ \A q \in Procs : Ticked(q)
  BY TickLocal DEF LocalAll
<1>2. srv' = srv
  BY DEF Tick
<1>3. \A q \in Procs : lk[q].expiration \in Int
  BY Fields DEF LocalAll, LocalInv, Base
<1>4. \A q \in Procs : lk'[q].locked = lk[q].locked /\ (lk'[q].expiration > 0 => lk[q].expiration > 0)
  BY <1>1, <1>3 DEF Ticked
<1> QED BY <1>1, <1>2, <1>4 DEF LocalAll, LocalStore

\* The system releases the file of a process that has crashed.
LEMMA LocalCrashes ==
  ASSUME LocalAll, NEW p \in Procs, Gone(p), watch' = [watch EXCEPT ![p] = NoWatchers], late' = late,
         srv' = [owner |-> IF srv.owner = p THEN None ELSE srv.owner]
  PROVE  LocalAll' /\ th'[p].run.at = "crashed"
<1>1. /\ LocalInv' /\ Apart(p) /\ th'[p].run.at = "crashed"
      /\ lk'[p].expiration = ZeroTime /\ lk'[p].locked = FALSE
  BY CrashLocal DEF LocalAll
<1>2. p # None
  BY LockAssumption
<1>3. LocalStore'
  <2>1. LocalStore /\ \A q \in Procs \ {p} : lk'[q] = lk[q]
    BY <1>1 DEF LocalAll, Apart
  <2> QED BY <1>1, <1>2, <2>1, LocalStoreStep DEF ZeroTime
<1> QED BY <1>1, <1>3 DEF LocalAll

-----------------------------------------------------------------------------
(* The store as a lease.  It stays, a tick passes, or a process acquires,    *)
(* extends or releases the resource.                                         *)
Acquires(p) == (srv.owner = None \/ srv.left <= 0) /\ srv'.owner = p /\ srv'.left \in 1 .. TTL
Extends(p)  == srv.owner = p /\ srv'.owner = p /\ srv'.left \in 1 .. TTL
Releases(p) == /\ srv.owner = p /\ th[p].run.at \in {"unlock", "unlocking"}
               /\ srv'.owner \in {p, None} /\ srv'.left <= 0
Elapses     == srv'.left = srv.left - 1 /\ (srv'.owner = srv.owner \/ (srv'.owner = None /\ srv'.left <= 0))
Stays       == srv'.owner = srv.owner /\ srv'.left = srv.left

Passes == Stays \/ Elapses \/ \E p \in Procs : Acquires(p) \/ Extends(p) \/ Releases(p)

\* The scripts of Redis and the time to live of the key.
LEMMA RedisPasses ==
  ASSUME RedisAll, NEW p \in Procs,
         \/ srv' = srv
         \/ srv.owner = None /\ srv' = [owner |-> p, left |-> TTL]
         \/ srv.owner = p /\ srv' = [srv EXCEPT !.left = TTL]
         \/ srv.owner = p /\ th[p].run.at = "unlock" /\ srv' = [owner |-> None, left |-> 0]
  PROVE  Passes
<1>1. srv \in [owner : Procs \cup {None}, left : 0 .. TTL] /\ TTL \in 1 .. TTL
  BY HalfTTL DEF RedisAll, RedisStore
<1>2. CASE srv' = srv
  BY <1>2 DEF Passes, Stays
<1>3. CASE srv.owner = None /\ srv' = [owner |-> p, left |-> TTL]
  BY <1>1, <1>3 DEF Passes, Acquires
<1>4. CASE srv.owner = p /\ srv' = [srv EXCEPT !.left = TTL]
  BY <1>1, <1>4 DEF Passes, Extends
<1>5. CASE srv.owner = p /\ th[p].run.at = "unlock" /\ srv' = [owner |-> None, left |-> 0]
  BY <1>5 DEF Passes, Releases
<1> QED BY <1>2, <1>3, <1>4, <1>5

\* The key runs out.
LEMMA RedisElapses ==
  ASSUME RedisAll, srv' = IF srv.left > 1 THEN [srv EXCEPT !.left = @ - 1] ELSE [owner |-> None, left |-> 0]
  PROVE  Passes
<1>1. srv \in [owner : Procs \cup {None}, left : 0 .. TTL] /\ (srv.owner = None <=> srv.left = 0)
  BY DEF RedisAll, RedisStore
<1>2. CASE srv.left > 1
  BY <1>1, <1>2, HalfTTL DEF Passes, Elapses
<1>3. CASE srv.left = 1
  BY <1>1, <1>3 DEF Passes, Elapses
<1>4. CASE srv.left = 0
  BY <1>1, <1>4 DEF Passes, Stays
<1>5. srv.left > 1 \/ srv.left = 1 \/ srv.left = 0
  BY <1>1, HalfTTL
<1> QED BY <1>2, <1>3, <1>4, <1>5

\* A statement of Postgres that leaves the row as it is: it takes or frees a lock, or
\* creates the schema.
LEMMA PostgresStays ==
  ASSUME PostgresAll, NEW p \in Procs,
         \/ srv' = srv
         \/ \E m \in Procs \cup {"absent", "done"} : srv' = [srv EXCEPT !.schema = m]
         \/ srv' = [srv EXCEPT !.tx = p]
         \/ srv' = EndOf(p, srv, "absent")
  PROVE  Passes
<1>1. srv \in PostgresType
  BY DEF PostgresAll, PostgresStore
<1>2. CASE srv' = srv
  BY <1>2 DEF Passes, Stays
<1>3. ASSUME NEW m \in Procs \cup {"absent", "done"}, srv' = [srv EXCEPT !.schema = m] PROVE Stays
  BY <1>1, <1>3 DEF PostgresType, Stays
<1>4. ASSUME srv' = [srv EXCEPT !.tx = p] PROVE Stays
  BY <1>1, <1>4 DEF PostgresType, Stays
<1>5. ASSUME srv' = EndOf(p, srv, "absent") PROVE Stays
  BY <1>1, <1>5, EndedIs DEF Stays
<1> QED BY <1>2, <1>3, <1>4, <1>5 DEF Passes

\* The commit that has written the row acquires the lease: nobody had time left.
LEMMA PostgresAcquires ==
  ASSUME PostgresAll, NEW p \in Procs, th[p].run.at = "commit", srv' = EndOf(p, Written(p), "done")
  PROVE  Passes
<1>1. srv \in PostgresType /\ (th[p].run.ok => srv.left < 0) /\ TypeOK
  BY DEF PostgresAll, PostgresStore, LeaseInv, Base
<1>2. CASE th[p].run.ok
  <2>1. srv'.owner = p /\ srv'.left = TTL - th[p].run.age
    BY <1>2, CommittedIs
  <2>2. TTL - th[p].run.age \in 1 .. TTL /\ srv.left \in Int
    BY <1>1, Fields, HalfTTL DEF PostgresType
  <2> QED BY <1>1, <1>2, <2>1, <2>2 DEF Passes, Acquires
<1>3. CASE ~th[p].run.ok
  <2>1. srv' = EndOf(p, srv, "done")
    BY <1>3 DEF Written
  <2> QED BY <1>1, <2>1, EndedIs DEF Passes, Stays
<1> QED BY <1>2, <1>3

\* The statement of Unlock.
LEMMA PostgresReleases ==
  ASSUME PostgresAll, NEW p \in Procs, th[p].run.at = "unlocking",
         srv' = IF srv.owner = p /\ srv.left > -th[p].run.age THEN [srv EXCEPT !.left = -th[p].run.age] ELSE srv
  PROVE  Passes
<1>1. srv \in PostgresType /\ th[p].run.age \in Nat
  BY Fields DEF PostgresAll, PostgresStore, LeaseInv, Base
<1>2. CASE srv.owner = p /\ srv' = [srv EXCEPT !.left = -th[p].run.age]
  BY <1>1, <1>2 DEF PostgresType, Passes, Releases
<1>3. CASE srv' = srv
  BY <1>3 DEF Passes, Stays
<1> QED BY <1>2, <1>3

\* The statement of Extend.
LEMMA PostgresExtends ==
  ASSUME PostgresAll, NEW p \in Procs, NEW b \in BOOLEAN, b => srv.owner = p,
         srv' = IF b THEN [srv EXCEPT !.left = TTL - th[p].ext.age] ELSE srv
  PROVE  Passes
<1>1. srv \in PostgresType /\ TypeOK
  BY DEF PostgresAll, PostgresStore, LeaseInv, Base
<1>2. TTL - th[p].ext.age \in 1 .. TTL
  BY <1>1, Fields, HalfTTL
<1>3. CASE srv.owner = p /\ srv' = [srv EXCEPT !.left = TTL - th[p].ext.age]
  BY <1>1, <1>2, <1>3 DEF PostgresType, Passes, Extends
<1>4. CASE srv' = srv
  BY <1>4 DEF Passes, Stays
<1> QED BY <1>3, <1>4

\* Time passes over the row.
LEMMA PostgresElapses ==
  ASSUME PostgresAll, srv' = [srv EXCEPT !.left = Sooner(@, -MaxLag - 1)]
  PROVE  Passes
<1>1. srv \in PostgresType
  BY DEF PostgresAll, PostgresStore
<1>2. srv'.owner = srv.owner /\ srv'.left = Sooner(srv.left, -MaxLag - 1)
  BY <1>1 DEF PostgresType
<1> QED BY <1>2 DEF Sooner, Passes, Stays, Elapses

-----------------------------------------------------------------------------
(* The initial states.                                                       *)

\* Nobody has begun.
LEMMA InitBase ==
  ASSUME BaseInit
  PROVE  /\ Base
         /\ \A p \in Procs : /\ th[p].run = Goroutine("try") /\ th[p].ext = Goroutine("off")
                             /\ ctx[p] = "none" /\ ~again[p] /\ watch[p] = NoWatchers /\ lk[p] = NewLock
<1>1. PICK g : g = Goroutine("try")
  OBVIOUS
<1>2. PICK h : h = Goroutine("off")
  OBVIOUS
<1>3. /\ g \in Gor(RunPlaces) /\ g.at = "try" /\ g.age = 0
      /\ h \in Gor(ExtPlaces) /\ h.at = "off" /\ h.age = 0
  BY <1>1, <1>2, HalfTTL DEF Goroutine
<1>4. th = [p \in Procs |-> [run |-> g, ext |-> h]]
  BY <1>1, <1>2, Zenon DEF BaseInit
<1>5. ThType /\ \A p \in Procs : th[p].run = g /\ th[p].ext = h
  BY <1>3, <1>4 DEF ThType
<1>6. NewLock \in LockType /\ NoWatchers \in WatchType
  BY LockAssumption DEF NewLock, ZeroTime, NoWatchers
<1>7. TypeOK
  <2> HIDE DEF LockType, WatchType
  <2> QED BY <1>5, <1>6 DEF BaseInit, TypeOK
<1>8. \A p \in Procs : ctx[p] = "none" /\ ~again[p] /\ watch[p] = NoWatchers /\ lk[p] = NewLock
  BY Zenon DEF BaseInit
<1>9. \A p \in Procs : Fresh(p)
  BY <1>3, <1>5, <1>8 DEF Fresh, Live
<1> QED BY <1>1, <1>2, <1>5, <1>7, <1>8, <1>9 DEF Base

\* The initial state of the lease of Redis and of Postgres.
LEMMA InitLease ==
  ASSUME BaseInit, srv.left \in Int
  PROVE  LeaseInv
<1>1. ASSUME NEW p \in Procs PROVE LeaseSafe(p)
  <2>1. th[p].run.at = "try" /\ th[p].ext.at = "off"
    BY InitBase DEF Goroutine
  <2> QED BY <2>1 DEF LeaseSafe, Punctual, Got, Covered, Live, Extended, Honest, Ahead
<1> QED BY <1>1, InitBase DEF LeaseInv

\* The store of each lock at the beginning.
LEMMA InitStores ==
  ASSUME BaseInit
  PROVE  /\ srv = [owner |-> None, left |-> 0] => RedisAll
         /\ srv = [owner |-> None, left |-> -MaxLag - 1, tx |-> None, schema |-> "absent"] => PostgresAll
         /\ srv = [owner |-> None] => LocalAll
<1>1. ASSUME srv = [owner |-> None, left |-> 0] PROVE RedisAll
  BY <1>1, InitLease, HalfTTL DEF RedisAll, RedisStore
<1>2. ASSUME srv = [owner |-> None, left |-> -MaxLag - 1, tx |-> None, schema |-> "absent"] PROVE PostgresAll
  <2>1. srv \in PostgresType /\ srv.left \in Int /\ srv.left <= TTL /\ srv.left < 0
    BY <1>2, HalfTTL DEF PostgresType
  <2>2. \A p \in Procs : th[p].run.at = "try"
    BY InitBase DEF Goroutine
  <2>3. PostgresStore
    BY <2>1, <2>2 DEF PostgresStore
  <2> QED BY <2>1, <2>3, InitLease DEF PostgresAll
<1>3. ASSUME srv = [owner |-> None] PROVE LocalAll
  <2>1. ASSUME NEW p \in Procs PROVE LocalSafe(p)
    <3>1. /\ th[p].run.at = "try" /\ th[p].ext.at = "off" /\ ctx[p] = "none" /\ ~again[p]
          /\ watch[p].unlock = 0 /\ watch[p].check = 0 /\ watch[p].read = 0
      BY InitBase DEF Goroutine, NoWatchers
    <3> QED BY <3>1 DEF LocalSafe, Punctual
  <2>2. \A p \in Procs : lk[p].locked = FALSE /\ lk[p].expiration = ZeroTime /\ p # None
    BY InitBase, LockAssumption DEF NewLock
  <2>3. LocalStore
    BY <1>3, <2>2 DEF LocalStore, ZeroTime
  <2> QED BY <2>1, <2>3, InitBase DEF LocalAll, LocalInv
<1> QED BY <1>1, <1>2, <1>3
=============================================================================
