---------------------------- MODULE SyncMapProofs ---------------------------
(* That LoadOrStoreFunc generates a value once per key, for any number of    *)
(* goroutines, keys and values.                                              *)
EXTENDS SyncMap, TLAPS

Pcs == {"idle", "lock", "load", "generate", "store", "unlock", "done", "range"}

Calls == [pc : Pcs, key : Keys \cup {None}, value : Values \cup {None}, left : SUBSET Keys]

Types ==
  /\ m \in [Keys -> Values \cup {None}] /\ mutex \in Procs \cup {None}
  /\ call \in [Procs -> Calls]
  /\ made \in [Keys -> Nat] /\ gone \in [Keys -> Nat]

\* A goroutine inside LoadOrStoreFunc has a key, one about to store it a value.
HasKey ==
  \A p \in Procs : /\ call[p].pc \in {"lock", "load", "generate", "store", "unlock"} => call[p].key \in Keys
                   /\ call[p].pc = "store" => call[p].value \in Values

\* What was generated for k is accounted for by its removals and by at most one value
\* that is in the map or on its way there; a generator that is about to run has no such.
Accounted ==
  \A k \in Keys :
    /\ made[k] <= gone[k] + 1
    /\ made[k] = gone[k] + 1 => m[k] # None \/ \E p \in Procs : call[p].pc = "store" /\ call[p].key = k
    /\ \A p \in Procs : call[p].pc = "generate" /\ call[p].key = k => made[k] <= gone[k]

MInv == Types /\ HasKey /\ OneGenerator /\ Accounted

\* An empty map and nobody inside.
LEMMA InitMInv == MapInit => MInv
  BY MapAssumption DEF MapInit, Free, MInv, Types, Calls, Pcs, HasKey, OneGenerator, InMutex, Accounted

\* The first Load only looks.
LEMMA LoadOrStoreFuncMInv == ASSUME MInv, NEW p \in Procs, NEW k \in Keys, LoadOrStoreFunc(p, k) PROVE MInv'
<1> USE MapAssumption DEF MInv, LoadOrStoreFunc, Now, At
<1>1. Types'
  BY DEF Types, Calls, Pcs, HasKey
<1>2. HasKey'
  BY DEF Types, Calls, Pcs, HasKey
<1>3. OneGenerator'
  BY DEF Types, Calls, Pcs, OneGenerator, InMutex
<1>4. Accounted'
  BY DEF Types, Calls, Pcs, HasKey, OneGenerator, InMutex, Accounted
<1>. QED BY <1>1, <1>2, <1>3, <1>4

\* The mutex is free, so that nobody else is inside.
LEMMA LockMutexMInv == ASSUME MInv, NEW p \in Procs, LockMutex(p) PROVE MInv'
<1> USE MapAssumption DEF MInv, LockMutex, At
<1>1. Types'
  BY DEF Types, Calls, Pcs, HasKey
<1>2. HasKey'
  BY DEF Types, Calls, Pcs, HasKey
<1>3. OneGenerator'
  BY DEF Types, Calls, Pcs, OneGenerator, InMutex
<1>4. Accounted'
  BY DEF Types, Calls, Pcs, HasKey, OneGenerator, InMutex, Accounted
<1>. QED BY <1>1, <1>2, <1>3, <1>4

\* A generator is about to run only if the map has no value, and nobody else has the
\* mutex to store one.
LEMMA LoadAgainMInv == ASSUME MInv, NEW p \in Procs, LoadAgain(p) PROVE MInv'
<1> USE MapAssumption DEF MInv, LoadAgain, Now, At, Key
<1>1. Types'
  BY DEF Types, Calls, Pcs, HasKey
<1>2. HasKey'
  BY DEF Types, Calls, Pcs, HasKey
<1>3. OneGenerator'
  BY DEF Types, Calls, Pcs, OneGenerator, InMutex
<1>4. Accounted'
  BY DEF Types, Calls, Pcs, HasKey, OneGenerator, InMutex, Accounted
<1>. QED BY <1>1, <1>2, <1>3, <1>4

\* The one value more is on its way into the map.
LEMMA GenerateMInv == ASSUME MInv, NEW p \in Procs, NEW v \in Values, Generate(p, v) PROVE MInv'
<1> USE MapAssumption DEF MInv, Generate, Now, At, Key
<1>1. Types'
  BY DEF Types, Calls, Pcs, HasKey
<1>2. HasKey'
  BY DEF Types, Calls, Pcs, HasKey
<1>3. OneGenerator'
  BY DEF Types, Calls, Pcs, OneGenerator, InMutex
<1>4. Accounted'
  BY DEF Types, Calls, Pcs, HasKey, OneGenerator, InMutex, Accounted
<1>. QED BY <1>1, <1>2, <1>3, <1>4

\* A generator that panics has made nothing.
LEMMA GeneratorPanicsMInv == ASSUME MInv, NEW p \in Procs, GeneratorPanics(p) PROVE MInv'
<1> USE MapAssumption DEF MInv, GeneratorPanics, At, Free
<1>1. Types'
  BY DEF Types, Calls, Pcs, HasKey
<1>2. HasKey'
  BY DEF Types, Calls, Pcs, HasKey
<1>3. OneGenerator'
  BY DEF Types, Calls, Pcs, OneGenerator, InMutex
<1>4. Accounted'
  BY DEF Types, Calls, Pcs, HasKey, OneGenerator, InMutex, Accounted
<1>. QED BY <1>1, <1>2, <1>3, <1>4

\* The value arrives in the map.
LEMMA StoreMadeMInv == ASSUME MInv, NEW p \in Procs, StoreMade(p) PROVE MInv'
<1> USE MapAssumption DEF MInv, StoreMade, At, Key
<1>1. Types'
  BY DEF Types, Calls, Pcs, HasKey
<1>2. HasKey'
  BY DEF Types, Calls, Pcs, HasKey
<1>3. OneGenerator'
  BY DEF Types, Calls, Pcs, OneGenerator, InMutex
<1>4. Accounted'
  BY DEF Types, Calls, Pcs, HasKey, OneGenerator, InMutex, Accounted
<1>. QED BY <1>1, <1>2, <1>3, <1>4

\* The deferred Unlock.
LEMMA UnlockMutexMInv == ASSUME MInv, NEW p \in Procs, UnlockMutex(p) PROVE MInv'
<1> USE MapAssumption DEF MInv, UnlockMutex, At
<1>1. Types'
  BY DEF Types, Calls, Pcs, HasKey
<1>2. HasKey'
  BY DEF Types, Calls, Pcs, HasKey
<1>3. OneGenerator'
  BY DEF Types, Calls, Pcs, OneGenerator, InMutex
<1>4. Accounted'
  BY DEF Types, Calls, Pcs, HasKey, OneGenerator, InMutex, Accounted
<1>. QED BY <1>1, <1>2, <1>3, <1>4

\* The caller goes on.
LEMMA ReturnedMInv == ASSUME MInv, NEW p \in Procs, Returned(p) PROVE MInv'
<1> USE MapAssumption DEF MInv, Returned, At, Free
<1>1. Types'
  BY DEF Types, Calls, Pcs, HasKey
<1>2. HasKey'
  BY DEF Types, Calls, Pcs, HasKey
<1>3. OneGenerator'
  BY DEF Types, Calls, Pcs, OneGenerator, InMutex
<1>4. Accounted'
  BY DEF Types, Calls, Pcs, HasKey, OneGenerator, InMutex, Accounted
<1>. QED BY <1>1, <1>2, <1>3, <1>4

\* A value that was not generated takes the place of one, or of none.
LEMMA StoreMInv == ASSUME MInv, NEW p \in Procs, NEW k \in Keys, NEW v \in Values, Store(p, k, v) PROVE MInv'
<1> USE MapAssumption DEF MInv, Store, At
<1>1. Types'
  BY DEF Types, Calls, Pcs, HasKey
<1>2. HasKey'
  BY DEF Types, Calls, Pcs, HasKey
<1>3. OneGenerator'
  BY DEF Types, Calls, Pcs, OneGenerator, InMutex
<1>4. Accounted'
  BY DEF Types, Calls, Pcs, HasKey, OneGenerator, InMutex, Accounted
<1>. QED BY <1>1, <1>2, <1>3, <1>4

\* LoadOrStore leaves what is there.
LEMMA LoadOrStoreMInv == ASSUME MInv, NEW p \in Procs, NEW k \in Keys, NEW v \in Values, LoadOrStore(p, k, v) PROVE MInv'
<1> USE MapAssumption DEF MInv, LoadOrStore, Now, At
<1>1. Types'
  BY DEF Types, Calls, Pcs, HasKey
<1>2. HasKey'
  BY DEF Types, Calls, Pcs, HasKey
<1>3. OneGenerator'
  BY DEF Types, Calls, Pcs, OneGenerator, InMutex
<1>4. Accounted'
  BY DEF Types, Calls, Pcs, HasKey, OneGenerator, InMutex, Accounted
<1>. QED BY <1>1, <1>2, <1>3, <1>4

\* What is deleted is counted.
LEMMA DeleteMInv == ASSUME MInv, NEW p \in Procs, NEW k \in Keys, Delete(p, k) PROVE MInv'
<1> USE MapAssumption DEF MInv, Delete, At, Remove
<1>1. Types'
  BY DEF Types, Calls, Pcs, HasKey
<1>2. HasKey'
  BY DEF Types, Calls, Pcs, HasKey
<1>3. OneGenerator'
  BY DEF Types, Calls, Pcs, OneGenerator, InMutex
<1>4. Accounted'
  BY DEF Types, Calls, Pcs, HasKey, OneGenerator, InMutex, Accounted
<1>. QED BY <1>1, <1>2, <1>3, <1>4

\* Clear begins.
LEMMA ClearMInv == ASSUME MInv, NEW p \in Procs, Clear(p) PROVE MInv'
<1> USE MapAssumption DEF MInv, Clear, At, Free
<1>1. Types'
  BY DEF Types, Calls, Pcs, HasKey
<1>2. HasKey'
  BY DEF Types, Calls, Pcs, HasKey
<1>3. OneGenerator'
  BY DEF Types, Calls, Pcs, OneGenerator, InMutex
<1>4. Accounted'
  BY DEF Types, Calls, Pcs, HasKey, OneGenerator, InMutex, Accounted
<1>. QED BY <1>1, <1>2, <1>3, <1>4

\* Clear deletes one key, if it is there.
LEMMA ClearNextMInv == ASSUME MInv, NEW p \in Procs, ClearNext(p) PROVE MInv'
<1> USE MapAssumption DEF MInv, ClearNext, At, Free, Remove
<1>1. Types'
  BY DEF Types, Calls, Pcs, HasKey
<1>2. HasKey'
  BY DEF Types, Calls, Pcs, HasKey
<1>3. OneGenerator'
  BY DEF Types, Calls, Pcs, OneGenerator, InMutex
<1>4. Accounted'
  BY DEF Types, Calls, Pcs, HasKey, OneGenerator, InMutex, Accounted
<1>. QED BY <1>1, <1>2, <1>3, <1>4

\* Every step of the map, or of something else, keeps the invariant.
LEMMA StepMInv == MInv /\ [\E p \in Procs, v \in Values : MapStep(p, v)]_mapVars => MInv'
<1> SUFFICES ASSUME MInv, [\E p \in Procs, v \in Values : MapStep(p, v)]_mapVars PROVE MInv'
  OBVIOUS
<1>1. CASE UNCHANGED mapVars
  BY <1>1 DEF mapVars, MInv, Types, HasKey, OneGenerator, InMutex, Accounted
<1>2. ASSUME NEW p \in Procs, NEW v \in Values, MapStep(p, v) PROVE MInv'
  <2>1. ASSUME NEW k \in Keys, LoadOrStoreFunc(p, k) \/ Store(p, k, v) \/ LoadOrStore(p, k, v) \/ Delete(p, k)
        PROVE  MInv'
    BY <2>1, LoadOrStoreFuncMInv, StoreMInv, LoadOrStoreMInv, DeleteMInv
  <2>2. CASE Inside(p)
    BY <2>2, LockMutexMInv, LoadAgainMInv, StoreMadeMInv, UnlockMutexMInv, ReturnedMInv DEF Inside
  <2>3. CASE Generate(p, v) \/ GeneratorPanics(p) \/ Clear(p) \/ ClearNext(p)
    BY <2>3, GenerateMInv, GeneratorPanicsMInv, ClearMInv, ClearNextMInv
  <2>. QED BY <1>2, <2>1, <2>2, <2>3 DEF MapStep
<1>. QED BY <1>1, <1>2

\* LoadOrStoreFunc (sync/map.go:25-41) generates a value for a key once, and again only
\* after a removal, for any number of goroutines that use the map.
THEOREM GeneratedOncePerKey == MapSpec => []OncePerKey
<1>1. MInv => OncePerKey
  BY DEF MInv, Types, Accounted, OncePerKey
<1>. QED BY InitMInv, StepMInv, <1>1, PTL DEF MapSpec
-----------------------------------------------------------------------------
(* Goroutines that only call LoadOrStoreFunc: the map is a cache.            *)

CacheOnly(p) ==
  (\E k \in Keys : LoadOrStoreFunc(p, k)) \/ (\E v \in Values : Generate(p, v)) \/ Inside(p)

\* Whoever has a value has the one in the map, and whoever makes one finds none there.
Filled ==
  \A p \in Procs :
    /\ call[p].pc \in {"generate", "store"} => m[call[p].key] = None
    /\ call[p].pc \in {"unlock", "done"} => /\ call[p].key \in Keys
                                            /\ call[p].value = m[call[p].key] /\ m[call[p].key] # None

\* An empty map is filled with nothing.
LEMMA InitFilled == MapInit => Filled
  BY DEF MapInit, Free, Filled

\* The one who stores a value has the mutex, finds the key empty and disturbs nobody.
LEMMA StepFilled == MInv /\ Filled /\ [\E p \in Procs : CacheOnly(p)]_mapVars => Filled'
<1> SUFFICES ASSUME MInv, Filled, [\E p \in Procs : CacheOnly(p)]_mapVars PROVE Filled'
  OBVIOUS
<1> USE MapAssumption DEF MInv, Types, Calls, Pcs, Filled, At, Key
<1>1. ASSUME NEW p \in Procs, NEW k \in Keys, LoadOrStoreFunc(p, k) PROVE Filled'
  BY <1>1 DEF LoadOrStoreFunc, Now
<1>2. ASSUME NEW p \in Procs, NEW v \in Values, Generate(p, v) PROVE Filled'
  BY <1>2 DEF Generate, Now, HasKey
<1>3. ASSUME NEW p \in Procs, LockMutex(p) PROVE Filled'
  BY <1>3 DEF LockMutex
<1>4. ASSUME NEW p \in Procs, LoadAgain(p) PROVE Filled'
  BY <1>4 DEF LoadAgain, Now, HasKey
<1>5. ASSUME NEW p \in Procs, StoreMade(p) PROVE Filled'
  BY <1>5 DEF StoreMade, HasKey, OneGenerator, InMutex
<1>6. ASSUME NEW p \in Procs, UnlockMutex(p) PROVE Filled'
  BY <1>6 DEF UnlockMutex
<1>7. ASSUME NEW p \in Procs, Returned(p) PROVE Filled'
  BY <1>7 DEF Returned, Free
<1>8. CASE UNCHANGED mapVars
  BY <1>8 DEF mapVars
<1>. QED BY <1>1, <1>2, <1>3, <1>4, <1>5, <1>6, <1>7, <1>8 DEF CacheOnly, Inside
=============================================================================
