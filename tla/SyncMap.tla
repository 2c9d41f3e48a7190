------------------------------- MODULE SyncMap ------------------------------
(* sync/map.go: a sync.Map with a mutex around the generators of              *)
(* LoadOrStoreFunc.  sync.Map and sync.Mutex are external: each operation of *)
(* the former is one step.                                                   *)
EXTENDS Integers, FiniteSets

CONSTANTS Procs, Keys, Values,
          None       \* no value, nobody

ASSUME MapAssumption == None \notin Procs \cup Values

VARIABLES m,      \* the value of each key
          mutex,  \* the goroutine that holds it
          call,   \* the operation of each goroutine: pc, key, value, and the keys left to Clear
          made,   \* how often a value was generated for the key
          gone    \* how often the key was removed

mapVars == <<m, mutex, call, made, gone>>

Free == [pc |-> "idle", key |-> None, value |-> None, left |-> {}]

MapInit ==
  /\ m = [k \in Keys |-> None] /\ mutex = None
  /\ call = [p \in Procs |-> Free]
  /\ made = [k \in Keys |-> 0] /\ gone = [k \in Keys |-> 0]

\* p is in an operation on key with the value it has so far.
Now(p, pc, key, value) == call' = [call EXCEPT ![p] = [pc |-> pc, key |-> key, value |-> value, left |-> {}]]

At(p, pc) == call[p].pc = pc
Key(p)    == call[p].key

\* LoadOrStoreFunc: a Load without the mutex,
LoadOrStoreFunc(p, k) ==
  /\ At(p, "idle")
  /\ Now(p, IF m[k] # None THEN "done" ELSE "lock", k, m[k])
  /\ UNCHANGED <<m, mutex, made, gone>>

\* the mutex and a second Load,
LockMutex(p) ==
  /\ At(p, "lock") /\ mutex = None
  /\ mutex' = p /\ call' = [call EXCEPT ![p].pc = "load"]
  /\ UNCHANGED <<m, made, gone>>

\* Mutant: no second look under the mutex.
LoadAgain_Skipped(p) ==
  /\ At(p, "load")
  /\ call' = [call EXCEPT ![p].pc = "generate"]
  /\ UNCHANGED <<m, mutex, made, gone>>

LoadAgain(p) ==
  /\ At(p, "load")
  /\ Now(p, IF m[Key(p)] # None THEN "unlock" ELSE "generate", Key(p), m[Key(p)])
  /\ UNCHANGED <<m, mutex, made, gone>>

\* the generator,
Generate(p, v) ==
  /\ At(p, "generate")
  /\ Now(p, "store", Key(p), v)
  /\ made' = [made EXCEPT ![Key(p)] = @ + 1]
  /\ UNCHANGED <<m, mutex, gone>>

\* or its panic, which the deferred Unlock lets pass,
GeneratorPanics(p) ==
  /\ At(p, "generate")
  /\ mutex' = None /\ call' = [call EXCEPT ![p] = Free]
  /\ UNCHANGED <<m, made, gone>>

\* Mutant: the value is returned and not stored.
StoreMade_Dropped(p) ==
  /\ At(p, "store")
  /\ call' = [call EXCEPT ![p].pc = "unlock"]
  /\ UNCHANGED <<m, mutex, made, gone>>

\* the Store, and the deferred Unlock.
StoreMade(p) ==
  /\ At(p, "store")
  /\ m' = [m EXCEPT ![Key(p)] = call[p].value]
  /\ call' = [call EXCEPT ![p].pc = "unlock"]
  /\ UNCHANGED <<mutex, made, gone>>

\* Mutant: the mutex is not freed.
UnlockMutex_Kept(p) ==
  /\ At(p, "unlock")
  /\ call' = [call EXCEPT ![p].pc = "done"]
  /\ UNCHANGED <<m, mutex, made, gone>>

UnlockMutex(p) ==
  /\ At(p, "unlock")
  /\ mutex' = None /\ call' = [call EXCEPT ![p].pc = "done"]
  /\ UNCHANGED <<m, made, gone>>

Returned(p) ==
  /\ At(p, "done")
  /\ call' = [call EXCEPT ![p] = Free]
  /\ UNCHANGED <<m, mutex, made, gone>>

\* The other operations, of goroutines outside LoadOrStoreFunc.
Store(p, k, v) ==
  /\ At(p, "idle") /\ m' = [m EXCEPT ![k] = v]
  /\ UNCHANGED <<mutex, call, made, gone>>

LoadOrStore(p, k, v) ==
  /\ At(p, "idle")
  /\ m' = [m EXCEPT ![k] = IF @ = None THEN v ELSE @]
  /\ Now(p, "done", k, m'[k])
  /\ UNCHANGED <<mutex, made, gone>>

Remove(k) ==
  /\ m[k] # None
  /\ m' = [m EXCEPT ![k] = None] /\ gone' = [gone EXCEPT ![k] = @ + 1]

Delete(p, k) == At(p, "idle") /\ Remove(k) /\ UNCHANGED <<mutex, call, made>>

\* Clear deletes while it ranges: key by key, others may come between.
Clear(p) ==
  /\ At(p, "idle") /\ call' = [call EXCEPT ![p] = [Free EXCEPT !.pc = "range", !.left = Keys]]
  /\ UNCHANGED <<m, mutex, made, gone>>

ClearNext(p) ==
  /\ At(p, "range")
  /\ IF call[p].left = {} THEN call' = [call EXCEPT ![p] = Free] /\ UNCHANGED <<m, gone>>
     ELSE \E k \in call[p].left :
            /\ call' = [call EXCEPT ![p].left = @ \ {k}]
            /\ IF m[k] # None THEN Remove(k) ELSE UNCHANGED <<m, gone>>
  /\ UNCHANGED <<mutex, made>>

InMutex(p) == call[p].pc \in {"load", "generate", "store", "unlock"}

\* The steps of a goroutine inside LoadOrStoreFunc.
Inside(p) ==
  \/ LockMutex(p) \/ LoadAgain(p) \/ StoreMade(p) \/ UnlockMutex(p) \/ Returned(p)

\* A step of a goroutine that uses all operations, with v as the value.
MapStep(p, v) ==
  \/ \E k \in Keys : LoadOrStoreFunc(p, k) \/ Store(p, k, v) \/ LoadOrStore(p, k, v) \/ Delete(p, k)
  \/ Generate(p, v) \/ GeneratorPanics(p) \/ Inside(p) \/ Clear(p) \/ ClearNext(p)

MapSpec == MapInit /\ [][\E p \in Procs, v \in Values : MapStep(p, v)]_mapVars

-----------------------------------------------------------------------------
\* A value is generated for a key once, and again only after the key was removed, however
\* LoadOrStoreFunc races with itself and with the other operations (sync/map.go:24).
OncePerKey == \A k \in Keys : made[k] <= 1 + gone[k]

\* Generators run one at a time, even those of different keys.
OneGenerator == \A p \in Procs : InMutex(p) => mutex = p
=============================================================================
