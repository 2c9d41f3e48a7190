-------------------------- MODULE SharedStateProofs -------------------------
(* Proofs about the state requests share: the caches hand out one entry per  *)
(* key, Newf hides the stacks of its arguments while it formats, and blocks  *)
(* for ever only on arguments in no common order, for any number of          *)
(* goroutines, keys and errors.                                              *)
EXTENDS SharedState, SyncMapProofs, WellFoundedInduction

LoggerMap == INSTANCE SyncMapProofs
               WITH Keys <- {LogPath}, Values <- Procs, m <- lm, mutex <- lmutex,
                    call <- lcall, made <- lmade, gone <- lgone

-----------------------------------------------------------------------------
(* The caches: both maps keep their invariant, and are filled.               *)

CInv == /\ MInv /\ LoggerMap!MInv
        /\ use = "cache" => Filled /\ LoggerMap!Filled

\* The loggers are made by the goroutines that ask for them.
LEMMA LoggerAssumption == None \notin Procs \cup Procs
  BY MapAssumption

\* In a cache both maps only see the steps of LoadOrStoreFunc;
LEMMA CacheSteps ==
  ASSUME NEW p \in Requests, CacheNext(p)
  PROVE  /\ [\E q \in Procs : CacheOnly(q)]_mapVars
         /\ [\E q \in Procs : LoggerMap!CacheOnly(q)]_loggerVars
<1> USE SharedAssumption
<1>0. p \in Procs /\ TRUE \in Values /\ FALSE \in Values
  OBVIOUS
<1>1. ASSUME NEW path \in Keys, Require(p, path) PROVE CacheOnly(p) /\ UNCHANGED loggerVars
  BY <1>1 DEF Require, CacheOnly
<1>2. CASE GetLogger(p)
  <2>1. LoggerMap!LoadOrStoreFunc(p, LogPath)
    BY <1>2 DEF GetLogger, Loggers!LoadOrStoreFunc, LoggerMap!LoadOrStoreFunc, Loggers!At, LoggerMap!At,
                Loggers!Now, LoggerMap!Now
  <2>. QED BY <1>0, <1>2, <2>1 DEF GetLogger, LoggerMap!CacheOnly
<1>3. CASE NewLogger(p)
  <2>1. LoggerMap!Generate(p, p)
    BY <1>3 DEF NewLogger, Loggers!Generate, LoggerMap!Generate, Loggers!At, LoggerMap!At,
                Loggers!Now, LoggerMap!Now, Loggers!Key, LoggerMap!Key
  <2>. QED BY <1>0, <1>3, <2>1 DEF NewLogger, LoggerMap!CacheOnly
<1>4. ASSUME Loggers!Inside(p) PROVE LoggerMap!CacheOnly(p)
  <2>1. LoggerMap!Inside(p)
    BY <1>4 DEF Loggers!Inside, LoggerMap!Inside, Loggers!At, LoggerMap!At, Loggers!Key, LoggerMap!Key,
         Loggers!Now, LoggerMap!Now, Loggers!LockMutex, LoggerMap!LockMutex,
         Loggers!LoadAgain, LoggerMap!LoadAgain, Loggers!StoreMade, LoggerMap!StoreMade,
         Loggers!UnlockMutex, LoggerMap!UnlockMutex, Loggers!Returned, LoggerMap!Returned,
         Loggers!Free, LoggerMap!Free
  <2>. QED BY <2>1 DEF LoggerMap!CacheOnly
<1>5. CASE LoggerStep(p)
  BY <1>0, <1>4, <1>5 DEF LoggerStep
<1>6. CASE UseLogger(p)
  <2>1. LoggerMap!CacheOnly(p)
    BY <1>4, <1>6 DEF UseLogger, Loggers!Inside
  <2>2. CacheOnly(p) \/ UNCHANGED mapVars
    BY Zenon, <1>0, <1>6 DEF UseLogger, CacheOnly
  <2>. QED BY <1>0, <2>1, <2>2
<1>7. CASE Decide(p)
  BY Zenon, <1>0, <1>7 DEF Decide, CacheOnly
<1>8. CASE CacheStep(p)
  BY <1>0, <1>8 DEF CacheStep, CacheOnly
<1>. QED BY <1>0, <1>1, <1>2, <1>3, <1>5, <1>6, <1>7, <1>8 DEF CacheNext

\* and those are steps of a map.
LEMMA CacheKeepsMInv ==
  /\ MInv /\ [\E q \in Procs : CacheOnly(q)]_mapVars => MInv'
  /\ LoggerMap!MInv /\ [\E q \in Procs : LoggerMap!CacheOnly(q)]_loggerVars => LoggerMap!MInv'
<1>1. ASSUME NEW q \in Procs, CacheOnly(q) PROVE \E v \in Values : MapStep(q, v)
  BY Zenon, <1>1, SharedAssumption DEF CacheOnly, MapStep
<1>2. ASSUME NEW q \in Procs, LoggerMap!CacheOnly(q) PROVE \E v \in Procs : LoggerMap!MapStep(q, v)
  BY <1>2 DEF LoggerMap!CacheOnly, LoggerMap!MapStep
<1>3. MInv /\ [\E q \in Procs : CacheOnly(q)]_mapVars => MInv'
  BY <1>1, StepMInv
<1>4. LoggerMap!MInv /\ [\E q \in Procs : LoggerMap!CacheOnly(q)]_loggerVars => LoggerMap!MInv'
  BY <1>2, LoggerAssumption, LoggerMap!StepMInv DEF LoggerMap!StepMInv, loggerVars, LoggerMap!mapVars
<1>. QED BY <1>3, <1>4

\* Every step keeps the two maps, and fills them only when they are caches.
LEMMA StepCInv == CInv /\ [Next]_vars => CInv'
<1> SUFFICES ASSUME CInv, [Next]_vars PROVE CInv'
  OBVIOUS
<1>0. UNCHANGED use
  BY DEF Next, vars
<1>1. ASSUME [\E q \in Procs : CacheOnly(q)]_mapVars, [\E q \in Procs : LoggerMap!CacheOnly(q)]_loggerVars
      PROVE  CInv'
  <2>1. MInv' /\ LoggerMap!MInv'
    BY <1>1, CacheKeepsMInv DEF CInv
  <2>2. use = "cache" => Filled'
    BY <1>1, StepFilled DEF CInv
  <2>3. use = "cache" => LoggerMap!Filled'
    BY <1>1, LoggerAssumption, LoggerMap!StepFilled
       DEF CInv, LoggerMap!StepFilled, loggerVars, LoggerMap!mapVars
  <2>. QED BY <1>0, <2>1, <2>2, <2>3 DEF CInv
<1>2. ASSUME NEW p \in Requests, CacheNext(p) PROVE CInv'
  BY <1>1, <1>2, CacheSteps
<1>3. ASSUME NEW p \in Procs, use = "map", MapNext(p) PROVE CInv'
  <2>1. MInv'
    BY Zenon, <1>3, SharedAssumption, StepMInv DEF MapNext, CInv
  <2>2. LoggerMap!MInv'
    BY <1>3, CacheKeepsMInv DEF MapNext, CInv
  <2>. QED BY <1>0, <1>3, <2>1, <2>2 DEF CInv
<1>4. CASE UNCHANGED <<mapVars, loggerVars>>
  BY <1>1, <1>4
<1>. QED BY <1>2, <1>3, <1>4 DEF Next, vars

\* AuthN.Require and the logger factory give every caller the entry that is in the cache:
\* with no removals, an entry that is there stays, and nobody has made another.
THEOREM CachesShareEntries == Spec => []EntryIsShared
<1>1. Init => CInv
  <2>1. MapInit => MInv /\ Filled
    BY InitMInv, InitFilled
  <2>2. Loggers!MapInit => LoggerMap!MapInit
    BY DEF Loggers!MapInit, LoggerMap!MapInit, Loggers!Free, LoggerMap!Free
  <2>3. LoggerMap!MapInit => LoggerMap!MInv /\ LoggerMap!Filled
    BY LoggerAssumption, LoggerMap!InitMInv, LoggerMap!InitFilled
       DEF LoggerMap!InitMInv, LoggerMap!InitFilled
  <2>. QED BY <2>1, <2>2, <2>3 DEF Init, CInv
<1>2. CInv => EntryIsShared
  BY DEF CInv, Filled, LoggerMap!Filled, EntryIsShared, At, Loggers!At
<1>. QED BY <1>1, <1>2, StepCInv, PTL DEF Spec

-----------------------------------------------------------------------------
(* errors.Newf.                                                              *)

USE DEF Errors!Arg, Errors!Past

CallType == [pc : {"idle", "lock", "format"}, args : Seq(Errs), n : Nat]

NewfType ==
  /\ owner \in [Errs -> Procs \cup {None}] /\ hide \in [Errs -> BOOLEAN]
  /\ newf \in [Procs -> CallType]
  /\ \A p \in Procs : newf[p].pc # "idle" => newf[p].n \in 1 .. Len(newf[p].args) + 1

\* The call of p has locked its i-th argument and has not yet unlocked it.
Holds(p, i) == \/ newf[p].pc = "lock" /\ i < newf[p].n
               \/ newf[p].pc = "format" /\ i >= newf[p].n

\* What a call holds is locked by it, with its stack hidden,
Owned ==
  \A p \in Procs : \A i \in DOMAIN newf[p].args :
    Holds(p, i) => owner[newf[p].args[i]] = p /\ hide[newf[p].args[i]] = TRUE

\* is no error twice,
Distinct ==
  \A p \in Procs : \A i, j \in DOMAIN newf[p].args :
    Holds(p, i) /\ Holds(p, j) /\ i # j => newf[p].args[i] # newf[p].args[j]

\* and whoever has the mutex of an error is in a call that holds it.
Held ==
  \A e \in Errs : \A p \in Procs : owner[e] = p =>
    \E i \in DOMAIN newf[p].args : Holds(p, i) /\ newf[p].args[i] = e

NInv == NewfType /\ Owned /\ Distinct /\ Held

\* The arguments of a call are a sequence.
LEMMA ArgsAreSequences == Errors!ArgLists \subseteq Seq(Errs)
  BY SharedAssumption DEF Errors!ArgLists

\* The arguments of a call are indexed from 1.
LEMMA CallFacts ==
  ASSUME NewfType, NEW p \in Procs
  PROVE  /\ newf[p] \in CallType
         /\ newf[p].args \in Seq(Errs) /\ newf[p].n \in Nat /\ Len(newf[p].args) \in Nat
         /\ newf[p].pc \in {"idle", "lock", "format"}
         /\ DOMAIN newf[p].args = 1 .. Len(newf[p].args)
         /\ \A i \in DOMAIN newf[p].args : i \in Nat /\ newf[p].args[i] \in Errs
<1>1. newf[p] \in CallType
  BY DEF NewfType
<1>2. newf[p].args \in Seq(Errs)
  BY <1>1 DEF CallType
<1>. QED BY <1>1, <1>2 DEF CallType

\* What a step of the call of p to c leaves alone.
LEMMA CallMoves ==
  ASSUME NewfType, NEW p \in Procs, NEW c \in CallType, newf' = [newf EXCEPT ![p] = c],
         c.pc # "idle" => c.n \in 1 .. Len(c.args) + 1,
         owner' \in [Errs -> Procs \cup {None}], hide' \in [Errs -> BOOLEAN]
  PROVE  /\ NewfType'
         /\ \A q \in Procs : q # p => newf'[q] = newf[q]
         /\ newf'[p] = c
  BY DEF NewfType

\* A call has nothing locked when it begins.
LEMMA NewfNInv == ASSUME NInv, NEW p \in Procs, Errors!Newf(p) PROVE NInv'
<1> USE MapAssumption DEF NInv
<1>1. PICK args \in Seq(Errs) : newf' = [newf EXCEPT ![p] = [pc |-> "lock", args |-> args, n |-> 1]]
  BY Zenon, ArgsAreSequences DEF Errors!Newf
<1> DEFINE c == [pc |-> "lock", args |-> args, n |-> 1]
<1>2. c \in CallType /\ c.n \in 1 .. Len(c.args) + 1 /\ \A i \in DOMAIN c.args : ~(i < c.n)
  BY <1>1 DEF CallType
<1>3. newf[p].pc = "idle" /\ UNCHANGED <<owner, hide>>
  BY DEF Errors!Newf
<1>4. NewfType' /\ (\A q \in Procs : q # p => newf'[q] = newf[q]) /\ newf'[p] = c
  <2> HIDE DEF c
  <2>. QED BY <1>1, <1>2, <1>3, CallMoves DEF NewfType, c
<1>5. \A i \in DOMAIN newf'[p].args : ~Holds(p, i)'
  BY <1>2, <1>4 DEF Holds
<1>6. \A q \in Procs : q # p => \A i : Holds(q, i)' <=> Holds(q, i)
  BY <1>4 DEF Holds
<1>7. Owned'
  BY <1>3, <1>4, <1>5, <1>6 DEF Owned
<1>8. Distinct'
  BY <1>4, <1>5, <1>6 DEF Distinct
<1>9. \A e \in Errs : owner[e] # p
  BY <1>3 DEF Held, Holds
<1>10. Held'
  BY <1>3, <1>4, <1>6, <1>9 DEF Held
<1>. QED BY <1>4, <1>7, <1>8, <1>10

\* It gets an error that nobody holds, so that what it holds stays without repetition.
LEMMA LockArgNInv == ASSUME NInv, NEW p \in Procs, Errors!LockArg(p) PROVE NInv'
<1> USE MapAssumption DEF NInv
<1> DEFINE k == newf[p].n
           e == newf[p].args[k]
           c == [newf[p] EXCEPT !.n = k + 1]
<1>1. newf[p].pc = "lock" /\ owner[e] = None /\ ~(k > Len(newf[p].args))
  BY DEF Errors!LockArg
<1>2. k \in DOMAIN newf[p].args /\ e \in Errs /\ k \in Nat
  BY <1>1, CallFacts DEF NewfType
<1>3. c \in CallType /\ c.pc = "lock" /\ c.args = newf[p].args /\ c.n = k + 1
  BY <1>1, CallFacts DEF CallType
<1>4. c.n \in 1 .. Len(c.args) + 1
  BY <1>2, <1>3, CallFacts
<1>5. /\ newf' = [newf EXCEPT ![p] = c]
      /\ owner' = [owner EXCEPT ![e] = p] /\ hide' = [hide EXCEPT ![e] = TRUE]
  BY DEF Errors!LockArg
<1>6. owner' \in [Errs -> Procs \cup {None}] /\ hide' \in [Errs -> BOOLEAN]
  BY <1>2, <1>5 DEF NewfType
<1>7. NewfType' /\ (\A q \in Procs : q # p => newf'[q] = newf[q]) /\ newf'[p] = c
  <2> HIDE DEF c, e, k
  <2>. QED BY Zenon, <1>3, <1>4, <1>5, <1>6, CallMoves
<1>8. \A d \in Errs : /\ owner'[d] = IF d = e THEN p ELSE owner[d]
                      /\ hide'[d] = IF d = e THEN TRUE ELSE hide[d]
  BY <1>2, <1>5 DEF NewfType
<1> HIDE DEF c, e, k
<1>9. \A q \in Procs : newf'[q].args = newf[q].args
  BY <1>3, <1>7
<1>10. \A q \in Procs : \A i \in DOMAIN newf[q].args : i \in Nat /\ newf[q].args[i] \in Errs
  BY CallFacts
<1>11. newf[p].args[k] = e /\ newf[p].n = k
  BY DEF e, k
<1>12. ASSUME NEW q \in Procs, NEW i \in DOMAIN newf[q].args
       PROVE  Holds(q, i)' <=> Holds(q, i) \/ (q = p /\ i = k)
  <2>1. CASE q = p
    BY <1>1, <1>2, <1>3, <1>7, <1>10, <1>11, <2>1 DEF Holds
  <2>2. CASE q # p
    BY <1>7, <2>2 DEF Holds
  <2>. QED BY <2>1, <2>2
<1>13. \A q \in Procs : \A i \in DOMAIN newf[q].args : Holds(q, i) => newf[q].args[i] # e
  BY <1>1 DEF Owned
<1>14. Owned'
  <2> SUFFICES ASSUME NEW q \in Procs, NEW i \in DOMAIN newf[q].args, Holds(q, i)'
               PROVE  owner'[newf[q].args[i]] = q /\ hide'[newf[q].args[i]] = TRUE
    BY Zenon, <1>9 DEF Owned
  <2>1. CASE Holds(q, i)
    <3>1. owner[newf[q].args[i]] = q /\ hide[newf[q].args[i]] = TRUE
      BY <2>1 DEF Owned
    <3>. QED BY Zenon, <1>8, <1>10, <1>13, <2>1, <3>1
  <2>2. CASE q = p /\ i = k
    BY Zenon, <1>2, <1>8, <1>11, <2>2
  <2>. QED BY Zenon, <1>12, <2>1, <2>2
<1>15. Distinct'
  BY <1>9, <1>11, <1>12, <1>13 DEF Distinct
<1>16. Held'
  <2> SUFFICES ASSUME NEW d \in Errs, NEW q \in Procs, owner'[d] = q
               PROVE  \E i \in DOMAIN newf[q].args : Holds(q, i)' /\ newf[q].args[i] = d
    BY <1>9 DEF Held
  <2>1. CASE d = e
    BY Zenon, <1>2, <1>8, <1>11, <1>12, <2>1
  <2>2. CASE d # e
    <3>1. owner[d] = q
      BY Zenon, <1>8, <2>2
    <3>2. PICK i \in DOMAIN newf[q].args : Holds(q, i) /\ newf[q].args[i] = d
      BY <3>1 DEF Held
    <3>. QED BY <1>12, <3>2
  <2>. QED BY <2>1, <2>2
<1>. QED BY <1>7, <1>14, <1>15, <1>16

\* It has locked all its arguments when it formats.
LEMMA ErrorfNInv == ASSUME NInv, NEW p \in Procs, Errors!Errorf(p) PROVE NInv'
<1> USE MapAssumption DEF NInv
<1> DEFINE c == [newf[p] EXCEPT !.pc = "format", !.n = 1]
<1>1. newf[p].pc = "lock" /\ newf[p].n > Len(newf[p].args) /\ UNCHANGED <<owner, hide>>
  BY DEF Errors!Errorf
<1>2. \A i \in DOMAIN newf[p].args : i < newf[p].n /\ i >= 1
  BY <1>1, CallFacts
<1>3. c \in CallType /\ c.pc = "format" /\ c.args = newf[p].args /\ c.n = 1
  BY Zenon, CallFacts DEF CallType
<1>4. c.n \in 1 .. Len(c.args) + 1
  BY <1>3, CallFacts
<1>5. newf' = [newf EXCEPT ![p] = c]
  BY Zenon DEF Errors!Errorf
<1> HIDE DEF c
<1>6. NewfType' /\ (\A q \in Procs : q # p => newf'[q] = newf[q]) /\ newf'[p] = c
  BY <1>1, <1>3, <1>4, <1>5, CallMoves DEF NewfType
<1>7. \A q \in Procs : newf'[q].args = newf[q].args
  BY <1>3, <1>6
<1>8. \A q \in Procs : \A i \in DOMAIN newf[q].args : Holds(q, i)' <=> Holds(q, i)
  BY <1>1, <1>2, <1>3, <1>6 DEF Holds
<1>9. Owned'
  BY <1>1, <1>7, <1>8 DEF Owned
<1>10. Distinct'
  BY <1>7, <1>8 DEF Distinct
<1>11. Held'
  BY <1>1, <1>7, <1>8 DEF Held
<1>. QED BY <1>6, <1>9, <1>10, <1>11

\* What it unlocks is none of the errors that are still held.
LEMMA UnlockArgNInv == ASSUME NInv, NEW p \in Procs, Errors!UnlockArg(p) PROVE NInv'
<1> USE MapAssumption DEF NInv
<1> DEFINE k == newf[p].n
           e == newf[p].args[k]
           c == [newf[p] EXCEPT !.n = k + 1]
<1>1. newf[p].pc = "format" /\ ~(k > Len(newf[p].args))
  BY DEF Errors!UnlockArg
<1>2. k \in DOMAIN newf[p].args /\ e \in Errs /\ k \in Nat
  BY <1>1, CallFacts DEF NewfType
<1>3. c \in CallType /\ c.pc = "format" /\ c.args = newf[p].args /\ c.n = k + 1
  BY <1>1, CallFacts DEF CallType
<1>4. c.n \in 1 .. Len(c.args) + 1
  BY <1>2, <1>3, CallFacts
<1>5. /\ newf' = [newf EXCEPT ![p] = c]
      /\ owner' = [owner EXCEPT ![e] = None] /\ hide' = [hide EXCEPT ![e] = FALSE]
  BY DEF Errors!UnlockArg
<1>6. owner' \in [Errs -> Procs \cup {None}] /\ hide' \in [Errs -> BOOLEAN]
  BY <1>2, <1>5 DEF NewfType
<1>7. NewfType' /\ (\A q \in Procs : q # p => newf'[q] = newf[q]) /\ newf'[p] = c
  <2> HIDE DEF c, e, k
  <2>. QED BY Zenon, <1>3, <1>4, <1>5, <1>6, CallMoves
<1>8. \A d \in Errs : /\ owner'[d] = IF d = e THEN None ELSE owner[d]
                      /\ hide'[d] = IF d = e THEN FALSE ELSE hide[d]
  BY <1>2, <1>5 DEF NewfType
<1>9. Holds(p, k)
  BY <1>1, <1>2 DEF Holds
<1> HIDE DEF c, e, k
<1>10. \A q \in Procs : newf'[q].args = newf[q].args
  BY <1>3, <1>7
<1>11. \A q \in Procs : \A i \in DOMAIN newf[q].args : i \in Nat /\ newf[q].args[i] \in Errs
  BY CallFacts
<1>12. newf[p].args[k] = e /\ newf[p].n = k
  BY DEF e, k
<1>13. ASSUME NEW q \in Procs, NEW i \in DOMAIN newf[q].args
       PROVE  Holds(q, i)' <=> Holds(q, i) /\ ~(q = p /\ i = k)
  <2>1. CASE q = p
    BY <1>1, <1>2, <1>3, <1>7, <1>11, <1>12, <2>1 DEF Holds
  <2>2. CASE q # p
    BY <1>7, <2>2 DEF Holds
  <2>. QED BY <2>1, <2>2
<1>14. ASSUME NEW q \in Procs, NEW i \in DOMAIN newf[q].args, Holds(q, i)' PROVE newf[q].args[i] # e
  <2>1. Holds(q, i) /\ ~(q = p /\ i = k)
    BY <1>13, <1>14
  <2>2. CASE q = p
    BY <1>2, <1>9, <1>12, <2>1, <2>2 DEF Distinct
  <2>3. CASE q # p
    BY <1>2, <1>9, <1>12, <2>1, <2>3 DEF Owned
  <2>. QED BY <2>2, <2>3
<1>15. Owned'
  <2> SUFFICES ASSUME NEW q \in Procs, NEW i \in DOMAIN newf[q].args, Holds(q, i)'
               PROVE  owner'[newf[q].args[i]] = q /\ hide'[newf[q].args[i]] = TRUE
    BY Zenon, <1>10 DEF Owned
  <2>1. owner[newf[q].args[i]] = q /\ hide[newf[q].args[i]] = TRUE
    BY <1>13 DEF Owned
  <2>. QED BY Zenon, <1>8, <1>11, <1>14, <2>1
<1>16. Distinct'
  BY <1>10, <1>13 DEF Distinct
<1>17. Held'
  <2> SUFFICES ASSUME NEW d \in Errs, NEW q \in Procs, owner'[d] = q
               PROVE  \E i \in DOMAIN newf[q].args : Holds(q, i)' /\ newf[q].args[i] = d
    BY <1>10 DEF Held
  <2>1. d # e /\ owner[d] = q
    BY Zenon, <1>8
  <2>. QED BY <1>12, <1>13, <2>1 DEF Held
<1>. QED BY <1>7, <1>15, <1>16, <1>17

\* It returns when it holds none.
LEMMA NewfReturnsNInv == ASSUME NInv, NEW p \in Procs, Errors!NewfReturns(p) PROVE NInv'
<1> USE MapAssumption DEF NInv
<1> DEFINE c == [pc |-> "idle", args |-> <<>>, n |-> 0]
<1>1. newf[p].pc = "format" /\ newf[p].n > Len(newf[p].args) /\ UNCHANGED <<owner, hide>>
  BY DEF Errors!NewfReturns
<1>2. newf' = [newf EXCEPT ![p] = c]
  BY DEF Errors!NewfReturns, Errors!NoCall
<1>3. c \in CallType /\ c.pc = "idle"
  BY DEF CallType
<1>4. \A i \in DOMAIN newf[p].args : ~Holds(p, i)
  BY <1>1, CallFacts DEF Holds
<1> HIDE DEF c
<1>5. NewfType' /\ (\A q \in Procs : q # p => newf'[q] = newf[q]) /\ newf'[p] = c
  BY <1>1, <1>2, <1>3, CallMoves DEF NewfType
<1>6. \A i : ~Holds(p, i)'
  BY <1>3, <1>5 DEF Holds
<1>7. \A q \in Procs : q # p => \A i : Holds(q, i)' <=> Holds(q, i)
  BY <1>5 DEF Holds
<1>8. Owned'
  BY <1>1, <1>5, <1>6, <1>7 DEF Owned
<1>9. Distinct'
  BY <1>5, <1>6, <1>7 DEF Distinct
<1>10. \A e \in Errs : owner[e] # p
  BY <1>4 DEF Held
<1>11. Held'
  BY <1>1, <1>5, <1>7, <1>10 DEF Held
<1>. QED BY <1>5, <1>8, <1>9, <1>11

\* Whatever the goroutines do, the errors are locked by the calls that hold them.
LEMMA StepNInv == NInv /\ [Next]_vars => NInv'
<1> SUFFICES ASSUME NInv, [Next]_vars PROVE NInv'
  OBVIOUS
<1>1. ASSUME NEW p \in Procs, ErrorsNext(p) PROVE NInv'
  BY <1>1, NewfNInv, LockArgNInv, ErrorfNInv, UnlockArgNInv, NewfReturnsNInv
     DEF ErrorsNext, Errors!NewfStep
<1>2. CASE UNCHANGED errorVars
  BY <1>2 DEF errorVars, NInv, NewfType, Owned, Distinct, Held, Holds
<1>. QED BY <1>1, <1>2 DEF Next, vars

\* NInv is an invariant.
LEMMA AlwaysNInv == Spec => []NInv
<1>1. Init => NInv
  BY MapAssumption DEF Init, Errors!NewfInit, Errors!NoCall, NInv, NewfType, CallType,
                        Owned, Distinct, Held, Holds
<1>. QED BY <1>1, StepNInv, PTL DEF Spec

\* Newf (errors/errors.go:69-84) never formats a message with the stack of an argument
\* shown, whoever wraps the same errors at the same time.
THEOREM NewfHidesStacks == Spec => []HiddenWhileFormatting
<1>1. NInv => HiddenWhileFormatting
  BY CallFacts DEF NInv, Owned, Holds, HiddenWhileFormatting, Errors!HiddenWhileFormatting
<1>. QED BY <1>1, AlwaysNInv, PTL

\* A set of natural numbers with a bound has a greatest one.
LEMMA GreatestNatural ==
  ASSUME NEW T \in SUBSET Nat, NEW b \in Nat, T # {}, \A x \in T : x <= b
  PROVE  \E x \in T : \A y \in T : y <= x
<1> DEFINE D == {b - x : x \in T}
<1>1. D \subseteq Nat /\ D # {}
  <2>1. \A x \in T : b - x \in Nat
    OBVIOUS
  <2>. QED BY Zenon, <2>1
<1> HIDE DEF D
<1> DEFINE R == OpToRel(<, Nat)
<1>2. \A x, y \in Nat : <<y, x>> \in R <=> y < x
  BY DEF OpToRel
<1>3. IsWellFoundedOn(R, Nat)
  BY Zenon, NatLessThanWellFounded
<1> HIDE DEF R
<1>4. PICK d \in D : \A e \in D : ~(<<e, d>> \in R)
  BY Zenon, <1>1, <1>3, WFMin
<1>5. \A e \in D : ~(e < d)
  BY Zenon, <1>1, <1>2, <1>4
<1>6. PICK x \in T : d = b - x
  BY DEF D
<1>7. \A y \in T : b - y \in D
  BY DEF D
<1>. QED BY <1>1, <1>5, <1>6, <1>7

\* Calls whose arguments are in one common order do not wait for each other for ever: of
\* those that wait, the one that waits for the greatest error waits for a call that holds
\* it and so waits for none, or for a greater one.
THEOREM NewfDeadlocksOnlyUnordered == Spec => []OrderedCallsDoNotDeadlock
<1>1. ASSUME NInv, NEW S \in (SUBSET Procs) \ {{}}, Errors!Stuck(S),
             NEW rank \in [Errs -> 1 .. Cardinality(Errs)],
             \A p \in S : Errors!Increasing(rank, newf[p].args)
      PROVE  FALSE
  <2> DEFINE T == {rank[Errors!Arg(p)] : p \in S}
  <2>1. Cardinality(Errs) \in Nat
    BY SharedAssumption
  <2>2. ASSUME NEW p \in S
        PROVE  /\ Errors!Arg(p) \in Errs
               /\ \E q \in S : rank[Errors!Arg(p)] < rank[Errors!Arg(q)]
    <3>1. newf[p].pc = "lock" /\ newf[p].n \in DOMAIN newf[p].args /\ owner[Errors!Arg(p)] # None
      BY <1>1 DEF NInv, NewfType, Errors!Stuck, Errors!Waits
    <3>2. Errors!Arg(p) \in Errs
      BY <1>1, <3>1, CallFacts DEF NInv
    <3>3. PICK q \in Procs : q = owner[Errors!Arg(p)]
      BY <1>1, <3>1, <3>2 DEF NInv, NewfType
    <3>4. PICK i \in DOMAIN newf[q].args : Holds(q, i) /\ newf[q].args[i] = Errors!Arg(p)
      BY Zenon, <1>1, <3>1, <3>2, <3>3 DEF NInv, Held
    <3>5. q \in S
      BY Zenon, <1>1, <3>3, <3>4 DEF Errors!Stuck, Holds
    <3>6. newf[q].pc = "lock" /\ newf[q].n \in DOMAIN newf[q].args
      BY <1>1, <3>5 DEF NInv, NewfType, Errors!Stuck, Errors!Waits
    <3>7. i < newf[q].n
      BY <3>4, <3>6 DEF Holds
    <3>8. rank[newf[q].args[i]] < rank[newf[q].args[newf[q].n]]
      BY <1>1, <3>4, <3>5, <3>6, <3>7 DEF Errors!Increasing
    <3>. QED BY <3>2, <3>4, <3>5, <3>8
  <2>3. T \subseteq Nat /\ T # {} /\ \A x \in T : x <= Cardinality(Errs)
    BY <1>1, <2>1, <2>2
  <2>4. PICK x \in T : \A y \in T : y <= x
    <3> HIDE DEF T
    <3>. QED BY Zenon, <2>1, <2>3, GreatestNatural
  <2>5. \E y \in T : x < y
    BY <2>2
  <2> HIDE DEF T
  <2>. QED BY <2>3, <2>4, <2>5
<1>2. NInv => OrderedCallsDoNotDeadlock
  <2>1. Errors!Cardinality(Errs) = Cardinality(Errs)
    BY DEF Errors!Cardinality, Cardinality
  <2> SUFFICES ASSUME NInv
               PROVE  \A S \in (SUBSET Procs) \ {{}} :
                        Errors!Stuck(S) => ~ \E rank \in [Errs -> 1 .. Cardinality(Errs)] :
                                               \A p \in S : Errors!Increasing(rank, newf[p].args)
    BY <2>1 DEF OrderedCallsDoNotDeadlock, Errors!OrderedCallsDoNotDeadlock
  <2>. QED BY <1>1
<1>. QED BY <1>2, AlwaysNInv, PTL
=============================================================================
