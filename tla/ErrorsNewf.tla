------------------------------ MODULE ErrorsNewf ----------------------------
(* errors.Newf: it locks each *Error among its arguments, in their order, and *)
(* hides their stacks while the message is formatted.                        *)
EXTENDS Integers, Sequences, FiniteSets

CONSTANTS Procs, Errs,
          None,      \* nobody
          MaxArgs    \* bound: errors among the arguments of a call

VARIABLES owner,  \* the goroutine that holds the mutex of each error
          hide,   \* hideStack of each error
          newf    \* the call of each goroutine: pc, the errors among its arguments, and
                  \* the index of the loop

newfVars == <<owner, hide, newf>>

ArgLists == UNION {[1 .. n -> Errs] : n \in 1 .. MaxArgs}
NoCall   == [pc |-> "idle", args |-> <<>>, n |-> 0]

NewfInit ==
  /\ owner = [e \in Errs |-> None] /\ hide = [e \in Errs |-> FALSE]
  /\ newf = [p \in Procs |-> NoCall]

Arg(p) == newf[p].args[newf[p].n]
Past(p) == newf[p].n > Len(newf[p].args)

Newf(p) ==
  /\ newf[p].pc = "idle"
  /\ \E args \in ArgLists : newf' = [newf EXCEPT ![p] = [pc |-> "lock", args |-> args, n |-> 1]]
  /\ UNCHANGED <<owner, hide>>

\* Mutant: the mutex is not waited for.
LockArg_TryLock(p) ==
  /\ newf[p].pc = "lock" /\ ~Past(p)
  /\ owner' = [owner EXCEPT ![Arg(p)] = p] /\ hide' = [hide EXCEPT ![Arg(p)] = TRUE]
  /\ newf' = [newf EXCEPT ![p].n = @ + 1]

LockArg(p) ==
  /\ newf[p].pc = "lock" /\ ~Past(p) /\ owner[Arg(p)] = None
  /\ owner' = [owner EXCEPT ![Arg(p)] = p] /\ hide' = [hide EXCEPT ![Arg(p)] = TRUE]
  /\ newf' = [newf EXCEPT ![p].n = @ + 1]

\* fmt.Errorf asks each argument for its string.
Errorf(p) ==
  /\ newf[p].pc = "lock" /\ Past(p)
  /\ newf' = [newf EXCEPT ![p].pc = "format", ![p].n = 1]
  /\ UNCHANGED <<owner, hide>>

\* Mutant: the stack is shown again and the mutex kept.
UnlockArg_Kept(p) ==
  /\ newf[p].pc = "format" /\ ~Past(p)
  /\ hide' = [hide EXCEPT ![Arg(p)] = FALSE] /\ owner' = owner
  /\ newf' = [newf EXCEPT ![p].n = @ + 1]

\* The deferred loop.
UnlockArg(p) ==
  /\ newf[p].pc = "format" /\ ~Past(p)
  /\ hide' = [hide EXCEPT ![Arg(p)] = FALSE] /\ owner' = [owner EXCEPT ![Arg(p)] = None]
  /\ newf' = [newf EXCEPT ![p].n = @ + 1]

NewfReturns(p) ==
  /\ newf[p].pc = "format" /\ Past(p)
  /\ newf' = [newf EXCEPT ![p] = NoCall]
  /\ UNCHANGED <<owner, hide>>

NewfStep(p) == LockArg(p) \/ Errorf(p) \/ UnlockArg(p) \/ NewfReturns(p)

-----------------------------------------------------------------------------
\* While a message is formatted the stacks of all its arguments are hidden, although
\* other goroutines wrap the same errors and show them again.
HiddenWhileFormatting ==
  \A p \in Procs : newf[p].pc = "format" /\ newf[p].n = 1 => \A i \in DOMAIN newf[p].args : hide[newf[p].args[i]]

Waits(p) == newf[p].pc = "lock" /\ ~Past(p) /\ owner[Arg(p)] # None

\* A set of goroutines each of which waits for another of them, or for one that has
\* returned.
Stuck(S) == \A p \in S : Waits(p) /\ (owner[Arg(p)] \in S \/ newf[owner[Arg(p)]].pc = "idle")

Increasing(rank, args) == \A i, j \in DOMAIN args : i < j => rank[args[i]] < rank[args[j]]

\* Calls wait for each other for ever only if no one order of the errors is the order of
\* all their arguments: two that wrap the same errors in opposite orders, or one that
\* names an error twice, do block for ever.
OrderedCallsDoNotDeadlock ==
  \A S \in (SUBSET Procs) \ {{}} :
    Stuck(S) => ~ \E rank \in [Errs -> 1 .. Cardinality(Errs)] : \A p \in S : Increasing(rank, newf[p].args)
=============================================================================
