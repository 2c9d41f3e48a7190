----------------------------- MODULE SharedState ----------------------------
(* The framework's state that requests share, each of three uses on its own: *)
(* "cache", AuthN.Require asks its cache of exclusions, whose generator asks *)
(* the logger factory for a logger, both of them SyncMaps; "map", the other  *)
(* operations of a SyncMap against LoadOrStoreFunc; "errors", Newf on shared *)
(* errors.                                                                   *)
EXTENDS SyncMap, Sequences

CONSTANTS Errs, MaxArgs,
          Requests,   \* the goroutines of "cache"
          Base,       \* the routes under the base path; Keys are all routes
          LogPath,    \* the path of the logger of Require
          MaxGone     \* bound: removals of a key

ASSUME SharedAssumption ==
  /\ Base \subseteq Keys /\ BOOLEAN \subseteq Values /\ Requests \subseteq Procs
  /\ Cardinality(Errs) \in Nat /\ MaxArgs \in Nat /\ MaxGone \in Nat

VARIABLES use, excludes,
          lm, lmutex, lcall, lmade, lgone,   \* the loggers by path
          owner, hide, newf

Loggers == INSTANCE SyncMap WITH Keys <- {LogPath}, Values <- Procs, m <- lm, mutex <- lmutex,
                                 call <- lcall, made <- lmade, gone <- lgone
Errors == INSTANCE ErrorsNewf

loggerVars == <<lm, lmutex, lcall, lmade, lgone>>
errorVars  == <<owner, hide, newf>>
vars       == <<use, excludes, mapVars, loggerVars, errorVars>>

Init ==
  /\ use \in {"cache", "map", "errors"}
  /\ excludes \in IF use = "cache" THEN SUBSET Base ELSE {{}}
  /\ MapInit /\ Loggers!MapInit /\ Errors!NewfInit

\* AuthN.Require for a route: the decision is generated once, and the generator logs what
\* it excludes.
Excluded(path) == path \notin Base \/ path \in excludes

Require(p, path) == LoadOrStoreFunc(p, path) /\ UNCHANGED loggerVars

GetLogger(p) ==
  /\ At(p, "generate") => Excluded(call[p].key)
  /\ call[p].pc \in {"idle", "generate"}
  /\ Loggers!LoadOrStoreFunc(p, LogPath)
  /\ UNCHANGED mapVars

\* newLogger: a logger of its own; every later caller shares it, with its level.
NewLogger(p) == Loggers!Generate(p, p) /\ UNCHANGED mapVars

LoggerStep(p) == ~Loggers!At(p, "done") /\ Loggers!Inside(p) /\ UNCHANGED mapVars

\* The logger is used: by the generator, which returns, or by any other caller.
UseLogger(p) ==
  /\ Loggers!At(p, "done") /\ Loggers!Returned(p)
  /\ IF At(p, "generate") THEN Generate(p, TRUE) ELSE UNCHANGED mapVars

Decide(p) ==
  /\ At(p, "generate") /\ ~Excluded(call[p].key)
  /\ Generate(p, FALSE) /\ UNCHANGED loggerVars

CacheStep(p) == Loggers!At(p, "idle") /\ Inside(p) /\ UNCHANGED loggerVars

CacheNext(p) ==
  \/ \E path \in Keys : Require(p, path)
  \/ GetLogger(p) \/ NewLogger(p) \/ LoggerStep(p) \/ UseLogger(p) \/ Decide(p) \/ CacheStep(p)

\* Goroutines that use one map with all its operations.
MapNext(p) ==
  /\ MapStep(p, TRUE) /\ \A k \in Keys : gone'[k] <= MaxGone
  /\ UNCHANGED loggerVars

ErrorsNext(p) == Errors!Newf(p) \/ Errors!NewfStep(p)

Next ==
  /\ UNCHANGED <<use, excludes>>
  /\ \E p \in Procs :
       \/ use = "cache" /\ p \in Requests /\ CacheNext(p) /\ UNCHANGED errorVars
       \/ use = "map" /\ MapNext(p) /\ UNCHANGED errorVars
       \/ use = "errors" /\ ErrorsNext(p) /\ UNCHANGED <<mapVars, loggerVars>>

\* A goroutine inside a call goes on.
Goes(p) ==
  /\ use = "cache" /\ UNCHANGED <<use, excludes, errorVars>>
  /\ \/ NewLogger(p) \/ LoggerStep(p) \/ UseLogger(p) \/ Decide(p) \/ CacheStep(p)
     \/ At(p, "generate") /\ GetLogger(p)

Spec == Init /\ [][Next]_vars /\ \A p \in Requests : WF_vars(Goes(p))

-----------------------------------------------------------------------------
\* Everyone who asked the caches has the entry that is in them, so that all share one
\* logger and its level, and no request is treated unlike another.
EntryIsShared ==
  use = "cache" => \A p \in Procs :
    /\ At(p, "done") => call[p].value = m[call[p].key]
    /\ Loggers!At(p, "done") => lcall[p].value = lm[lcall[p].key]

\* While Newf formats its message the stacks of all its arguments are hidden, although
\* other goroutines wrap the same errors and show them again (errors/errors.go:69-84).
HiddenWhileFormatting == Errors!HiddenWhileFormatting

\* Calls of Newf block each other for ever only if no single order of the errors is the
\* order of all their arguments.
OrderedCallsDoNotDeadlock == Errors!OrderedCallsDoNotDeadlock

\* Every Require gets its decision, although its generator waits for a second mutex under
\* the first.
RequireReturns == \A p \in Procs : ~At(p, "idle") /\ use = "cache" ~> At(p, "idle")
=============================================================================
