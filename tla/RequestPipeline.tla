--------------------------- MODULE RequestPipeline --------------------------
(* A request through the middlewares (rest/middleware): each is a gin         *)
(* handler; those that call Next wrap the ones after them.  The resource's   *)
(* handler works in transactions (DBTx), responds, records errors, panics.   *)
(* gin is external: the index of the chain, Abort, and a response whose      *)
(* status is fixed once its header is written.                               *)
EXTENDS DBTx

CONSTANTS Apps,      \* the optional middlewares of each application
          MaxReqTx,  \* bound: transactions a request begins
          MaxTx,     \* bound: transactions a worker begins
          MaxErrors  \* bound: errors a handler records

ASSUME PipelineAssumption ==
  /\ Apps \subseteq SUBSET {"RequestLogger", "DatabaseTrx", "AuthN", "AuthZ"}
  /\ MaxReqTx \in Nat /\ MaxTx \in Nat /\ MaxErrors \in Nat

VARIABLES req   \* mw: the application's middlewares; path; chain: the route's handlers;
                \* i: gin's index; stack: the handlers inside Next; phase; status,
                \* written: the response; errors; principal, excluded: the context's
                \* values; panic, failed: what happened to the request, for the properties

Paths  == {"api", "public", "health", "ready"}
Probes == {"health", "ready"}

\* middleware.Module, with what the application adds.
Module == {"HealthCheck", "ReadyCheck", "PanicRecovery", "ErrorHandler"}

Highest == 0
ProbesPriority == 1000
AuthNPriority == 2000
AuthZPriority == 3000
Body == 5000

\* Priority of each middleware and, for those that have the same, the place of their name.
Priority(m) ==
  CASE m = "RequestLogger" -> Highest        [] m = "PanicRecovery" -> Highest + 1
    [] m = "HealthCheck"   -> ProbesPriority [] m = "ReadyCheck"    -> ProbesPriority
    [] m = "DatabaseTrx"   -> AuthNPriority - 1
    [] m = "AuthN"         -> AuthNPriority  [] m = "AuthZ"         -> AuthZPriority
    [] m = "ErrorHandler"  -> Body

Name(m) == IF m = "ReadyCheck" THEN 2 ELSE 1

Before(a, b) == Priority(a) < Priority(b) \/ (Priority(a) = Priority(b) /\ Name(a) < Name(b))

\* NewMiddlewares: the order they are set up in.
Sorted(mw) == [n \in 1 .. Cardinality(mw) |->
                 CHOOSE m \in mw : Cardinality({a \in mw : Before(a, m)}) = n - 1]

\* Setup: a probe registers its route, whose chain is what was used so far; AuthZ does
\* nothing, its handler is part of the routes that require it; the others are used.
Uses(m) == m \notin {"HealthCheck", "ReadyCheck", "AuthZ"}

UsedBefore(mw, m) == SelectSeq(Sorted({a \in mw : Before(a, m)}), Uses)

\* The chain of a route; NewResources sets up the resources after the middlewares.
Chain(mw, path) ==
  CASE path = "health" -> Append(UsedBefore(mw, "HealthCheck"), "probe")
    [] path = "ready"  -> Append(UsedBefore(mw, "ReadyCheck"), "probe")
    [] OTHER -> SelectSeq(Sorted(mw), Uses) \o (IF "AuthZ" \in mw THEN <<"AuthZ">> ELSE <<>>) \o <<"resource">>

-----------------------------------------------------------------------------
\* gin's context and response.
Status(r, code)  == IF r.written \/ code = 0 THEN r ELSE [r EXCEPT !.status = code]
JSON(r, code)    == [Status(r, code) EXCEPT !.written = TRUE]
CtxError(r, e)   == [r EXCEPT !.errors = Append(@, e)]
CtxAbort(r)      == [r EXCEPT !.i = Len(r.chain)]

AbortWithStatus(r, code)   == CtxAbort(JSON(r, code))
AbortWithError(r, code, e) == CtxError(AbortWithStatus(r, code), e)

\* Mutant: the panic is recorded without a status.
handlePanic_NoStatus(r) == CtxAbort(CtxError(r, "panic"))

\* handlePanic: nothing can be written to a broken pipe.
handlePanic(r) ==
  IF r.panic = "brokenPipe" THEN CtxAbort(CtxError(r, "panic")) ELSE AbortWithError(r, 500, "panic")

\* Mutant: a code that is not in the table has no status.
ErrorStatus_Table(e) ==
  CASE e = "bind" -> 422 [] e = "query" -> 422 [] e = "notFound" -> 404 [] OTHER -> 0

\* errorCodesToStatus, of the first error; 0 for one that is not the framework's.
ErrorStatus(e) ==
  CASE e = "bind" -> 422 [] e = "query" -> 422 [] e = "notFound" -> 404 [] e = "plain" -> 0 [] OTHER -> 500

\* defaultHandler: a body for the framework's errors (not for those of type Bind).
defaultHandler(r, body) ==
  LET e == r.errors[1]
  IN  IF body \/ e \notin {"bind", "plain"} THEN JSON(r, ErrorStatus(e)) ELSE Status(r, ErrorStatus(e))

\* handleErrors: the application's mappers leave each error to the default ("none"), fail
\* to build a response, or give a body, a status or both for one of the errors.
handleErrors(r, mapped) ==
  CASE r.errors = <<>> \/ r.written \/ r.panic = "brokenPipe" -> r
    [] OTHER -> CASE mapped = "none"   -> defaultHandler(r, FALSE)
                  [] mapped = "failed" -> [r EXCEPT !.failed = TRUE]
                  [] mapped = "body"   -> defaultHandler(r, TRUE)
                  [] mapped = "status" -> Status(r, 409)
                  [] mapped = "both"   -> JSON(r, 409)

Mapped == {"none", "failed", "body", "status", "both"}

-----------------------------------------------------------------------------
NewRequest(mw, path) ==
  [mw |-> mw, path |-> path, chain |-> Chain(mw, path), i |-> 0, stack |-> <<>>, phase |-> "next",
   status |-> 200, written |-> FALSE, errors |-> <<>>, principal |-> FALSE, excluded |-> FALSE,
   authorized |-> FALSE, panic |-> "none", failed |-> FALSE, responded |-> FALSE]

\* A worker uses transactions without a request.
Worker == [NewRequest({"DatabaseTrx"}, "health") EXCEPT !.path = "worker", !.phase = "handler"]

Init ==
  /\ DBInit
  /\ req \in {NewRequest(Module \cup app, path) : app \in Apps, path \in Paths} \cup {Worker}

Phase(r, phase) == [r EXCEPT !.phase = phase]
Panicking(r, kind) == [r EXCEPT !.phase = "panic", !.panic = kind]

\* The next handler of the chain is entered by the loop of the innermost Next.
Entered == [req EXCEPT !.i = @ + 1]
Runs(m) == req.phase = "next" /\ req.i < Len(req.chain) /\ req.chain[req.i + 1] = m
Wraps   == [Entered EXCEPT !.stack = Append(@, req.chain[req.i + 1])]

\* RequestLogger: an excluded path is left to the loop around.
RequestLogger == Runs("RequestLogger") /\ req' \in {Entered, Wraps}

PanicRecovery == Runs("PanicRecovery") /\ req' = Wraps
DatabaseTrx   == Runs("DatabaseTrx") /\ req' = Wraps
ErrorHandler  == Runs("ErrorHandler") /\ req' = Wraps

\* Mutant: the response to an invalid token does not abort.
AuthN_NoAbort ==
  /\ Runs("AuthN")
  /\ IF req.path = "public" THEN req' = [Entered EXCEPT !.excluded = TRUE]
     ELSE req' \in {[Entered EXCEPT !.principal = TRUE], JSON(Entered, 401),
                    AbortWithStatus(Entered, 500), Panicking(Entered, "panic")}

\* AuthN.Require: excluded, authenticated, an invalid token, another error, or a panic of
\* the provider.
AuthN ==
  /\ Runs("AuthN")
  /\ IF req.path = "public" THEN req' = [Entered EXCEPT !.excluded = TRUE]
     ELSE req' \in {[Entered EXCEPT !.principal = TRUE], AbortWithStatus(Entered, 401),
                    AbortWithStatus(Entered, 500), Panicking(Entered, "panic")}

\* AuthZ's handler.
AuthZ ==
  /\ Runs("AuthZ")
  /\ IF req.excluded THEN req' = Entered
     ELSE req' \in {[Entered EXCEPT !.authorized = TRUE], AbortWithStatus(Entered, 403),
                    CtxAbort(CtxError(Entered, "unknown")), Panicking(Entered, "panic")}

\* HealthCheck and ReadyCheck, with the checks passing, failing or panicking.
Probe ==
  /\ Runs("probe")
  /\ req' \in {JSON(Entered, 200), AbortWithError(Entered, 500, "checkFailed"), Panicking(Entered, "panic")}

\* The resource's handler works in the database,
Resource == Runs("resource") /\ req' = Phase(Entered, "handler")

Work ==
  /\ req.phase = "handler" /\ "DatabaseTrx" \in req.mw
  /\ DBNext(IF req.path = "worker" THEN MaxTx ELSE MaxReqTx)
  /\ UNCHANGED req

\* without the middleware it panics there,
WorkWithoutDB == req.phase = "handler" /\ "DatabaseTrx" \notin req.mw /\ req' = Panicking(req, "panic")

\* a panic of its work becomes one of the handler,
WorkPanics ==
  /\ req.phase = "handler" /\ req.path # "worker" /\ d.panicking /\ d.stack = <<>> /\ ~d.dead
  /\ req' = Panicking(req, "panic")
  /\ d' = [d EXCEPT !.panicking = FALSE]

\* and then, its work done, it makes the response and returns or panics.
WorkDone ==
  /\ req.phase = "handler" /\ req.path # "worker" /\ Running /\ d.stack = <<>>
  /\ req' = Phase(req, "respond")

Respond ==
  /\ req.phase = "respond" /\ ~req.written
  /\ req' = [JSON(req, 200) EXCEPT !.responded = TRUE]

\* BindJSONBody, BindDeepObjectQuery, HandleError (which makes every error one of the
\* framework's) or an error of its own.
BindJSONBody        == CtxAbort(CtxError(req, "bind"))
BindDeepObjectQuery == {AbortWithError(req, 400, "query"), CtxAbort(CtxError(req, "bind"))}
HandleError(e)      == CtxAbort(CtxError(req, e))

Fail ==
  /\ req.phase = "respond" /\ Len(req.errors) < MaxErrors
  /\ req' \in {BindJSONBody, CtxError(req, "plain")} \cup BindDeepObjectQuery
              \cup {HandleError(e) : e \in {"notFound", "unknown"}}

HandlerReturns == req.phase = "respond" /\ req' = Phase(req, "next")

\* The handler panics, in MustGetPrincipal after a status.
HandlerPanics ==
  /\ req.phase = "respond"
  /\ \/ \E kind \in {"panic", "brokenPipe"} : req' = Panicking(req, kind)
     \/ ~req.principal /\ req' = Panicking(AbortWithStatus(req, 401), "noPrincipal")

-----------------------------------------------------------------------------
\* At the end of the chain the handlers inside Next go on, innermost first.
Innermost == req.stack[Len(req.stack)]
Outer(r)  == [r EXCEPT !.stack = SubSeq(@, 1, Len(@) - 1)]
AtEnd     == req.phase = "next" /\ req.i = Len(req.chain)

\* Mutant: a transaction is left to its function.
RolledBack_Never == d

RolledBack == IF d.ctxTx # 0 /\ ~IsClosed(d, d.ctxTx) THEN Rollback(d, d.ctxTx) ELSE d

ReturnFromNext ==
  /\ AtEnd /\ req.stack # <<>>
  /\ CASE Innermost = "DatabaseTrx"  -> req' = Outer(req) /\ d' = RolledBack
       [] Innermost = "ErrorHandler" -> \E m \in Mapped : req' = handleErrors(Outer(req), m) /\ d' = d
       [] OTHER -> req' = Outer(req) /\ d' = d

\* A panic passes the handlers inside Next: DatabaseTrx panics again, PanicRecovery and
\* ErrorHandler stop it, out of RequestLogger it drops the connection.
PanicThroughNext ==
  /\ req.phase = "panic" /\ req.stack # <<>>
  /\ CASE Innermost = "DatabaseTrx"   -> req' = Outer(req) /\ d' = RolledBack
       [] Innermost = "PanicRecovery" -> req' = Phase(handlePanic(Outer(req)), "next") /\ d' = d
       [] Innermost = "ErrorHandler"  ->
            \E m \in Mapped : req' = Phase(handleErrors(handlePanic(Outer(req)), m), "next") /\ d' = d
       [] OTHER -> req' = Outer(req) /\ d' = d

Done    == AtEnd /\ req.stack = <<>> /\ req' = Phase(req, "done")
Dropped == req.phase = "panic" /\ req.stack = <<>> /\ req' = Phase(req, "dropped")

Next ==
  \/ Work \/ WorkPanics \/ ReturnFromNext \/ PanicThroughNext
  \/ /\ UNCHANGED d
     /\ \/ RequestLogger \/ PanicRecovery \/ DatabaseTrx \/ ErrorHandler \/ AuthN \/ AuthZ \/ Probe
        \/ Resource \/ WorkWithoutDB \/ WorkDone \/ Respond \/ Fail \/ HandlerReturns \/ HandlerPanics
        \/ Done \/ Dropped

Spec == Init /\ [][Next]_<<req, d>>

-----------------------------------------------------------------------------
\* Whatever panics, provider, probe, resource or transaction, the panic does not reach the
\* server (the order of the middlewares puts the recovery around it) and the client is
\* told 500, unless the response had begun before or the connection is gone; a missing
\* principal stays 401.
PanicIs500 ==
  /\ req.phase # "dropped"
  /\ req.phase = "done" =>
       /\ req.panic = "panic" /\ ~req.responded /\ "query" \notin {req.errors[n] : n \in DOMAIN req.errors}
            => req.status = 500
       /\ req.panic = "noPrincipal" /\ ~req.responded => req.status \in {400, 401}

\* A resource that is not excluded runs only for an authenticated principal and after
\* its authorisation, in every application that has these middlewares.
ResourceIsProtected ==
  req.phase \in {"handler", "respond"} /\ req.path = "api" =>
    /\ "AuthN" \in req.mw => req.principal
    /\ "AuthZ" \in req.mw => req.authorized

\* A failed request is not answered as a success: if the first error is the framework's,
\* the response had not begun and no mapper failed, the status is an error's.  (An error
\* of another type leaves the status at 200.)
ErrorsAreReported ==
  req.phase = "done" /\ req.errors # <<>> /\ req.errors[1] # "plain" /\ ~req.responded /\ ~req.failed
    /\ req.panic # "brokenPipe" => req.status >= 400

\* When a request has been served no transaction that was begun on its context is open,
\* whether the handler returned, failed or panicked.
NoOpenTransaction ==
  req.phase \in {"done", "dropped"} /\ d.ctxTx # 0 => IsClosed(d, d.ctxTx) /\ Session(d, d.ctxTx).st = "ended"
=============================================================================
