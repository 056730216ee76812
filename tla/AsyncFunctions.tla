---------------------------- MODULE AsyncFunctions ----------------------------
(***************************************************************************)
(* Async functions on top of the promise heap.  An await suspends the      *)
(* function until a reaction job calls one of two functions made for that  *)
(* await; between the two, any other code runs.                            *)
(***************************************************************************)
EXTENDS Promises

CONSTANT MaxFunctions   \* bound: calls of async functions

VARIABLES
    afs,    \* JSAsyncFunctionData of every call, in order
    hist    \* history: per call, the promise it awaits and what it got
avars == <<vars, afs, hist>>

\* An awaited promise whose property constructor throws when it is read.
BadConstructor == Val("promise", 0)

Running(f) == Frame("async", f, 0, Undefined)
InAsync == ~Idle /\ Top.k = "async"
Current == Top.pair
AwaitHandler(f, isReject) ==
    Handler(IF isReject THEN "awaitThrow" ELSE "await", f, Undefined)

\* js_async_function_call: the body runs at once, up to its first await.
AsyncCall ==
    /\ MayAct("async") /\ Room(1) /\ Len(afs) < MaxFunctions
    /\ Len(stack) < MaxDepth
    /\ LET m == NewPromiseCapability(vm)
       IN /\ Act(m)
          /\ afs' = Append(afs, [pair |-> LastPair(m), state |-> "running"])
          /\ hist' = Append(hist, [on |-> 0, same |-> TRUE])
          /\ stack' = Append(stack, Running(Len(afs) + 1))
    /\ UNCHANGED history

\* js_async_function_terminate: the frame is released once.
Terminate(f) == afs' = [afs EXCEPT ![f].state = "done"]

\* The body returns v.
AsyncReturn(v) ==
    /\ InAsync
    /\ Become(CallResolvingFunction(vm, afs[Current].pair, FALSE, v))
    /\ mirror' = mirror \cup Follows(vm.pairs[afs[Current].pair].promise, v)
    /\ Terminate(Current)
    /\ stack' = Pop
    /\ UNCHANGED <<ops, hist, derived, due>>

\* The body throws: an error of its own or of an await it does not catch.
AsyncThrow ==
    /\ InAsync
    /\ Become(CallResolvingFunction(vm, afs[Current].pair, TRUE, Error))
    /\ Terminate(Current)
    /\ stack' = Pop
    /\ UNCHANGED <<ops, hist, history>>

\* The await branch of js_async_function_resume: the capability of the
\* reaction is undefined, and an exception rejects the function's promise.
Suspend(v) ==
    LET m1 == PromiseResolve(vm, FALSE, v)
        q == PromiseOf(m1, FALSE, v)
    IN IF v = BadConstructor
       THEN /\ Become(CallResolvingFunction(vm, afs[Current].pair, TRUE, Error))
            /\ Terminate(Current) /\ UNCHANGED hist
       ELSE /\ Become(PerformPromiseThen(m1, q, AwaitHandler(Current, FALSE),
                                         AwaitHandler(Current, TRUE), NoCap))
            /\ afs' = [afs EXCEPT ![Current].state = "awaiting"]
            /\ hist' = [hist EXCEPT ![Current].on = q]

Await(v) ==
    /\ InAsync /\ MayAct("async") /\ Room(1)
    /\ Suspend(v)
    /\ ops' = ops + 1
    /\ stack' = Pop
    /\ UNCHANGED history

\* Mutant: is_reject is not stored, so the await returns the error.
ResumeIgnoresReject(f, isReject, arg) ==
    /\ afs' = [afs EXCEPT ![f].state = "running"]
    /\ hist' = [hist EXCEPT ![f].same =
                   vm.promises[hist[f].on].state = "fulfilled"
                   /\ vm.promises[hist[f].on].result = arg]

\* js_async_function_resolve_call sets throw_flag and the value of the await,
\* and resumes the body.  same records that the body is given what the
\* awaited promise came to.
Resume(f, isReject, arg) ==
    /\ afs' = [afs EXCEPT ![f].state = "running"]
    /\ hist' = [hist EXCEPT ![f].same =
                   vm.promises[hist[f].on].state = (IF isReject THEN "rejected"
                                                    ELSE "fulfilled")
                   /\ vm.promises[hist[f].on].result = arg]

RunAwait ==
    /\ RunnableReaction({"await", "awaitThrow"})
    /\ vm' = Dequeued
    /\ Resume(Job.h.i, Job.h.k = "awaitThrow", Job.arg)
    /\ stack' = <<Running(Job.h.i)>>
    /\ UNCHANGED <<ops, calls, history>>

AInit == Init /\ afs = <<>> /\ hist = <<>>
ANext ==
    \/ (UserNext \/ JobNext) /\ UNCHANGED <<afs, hist>>
    \/ AsyncCall
    \/ \E v \in UserValues : AsyncReturn(v)
    \/ \E v \in UserValues \cup {BadConstructor} : Await(v)
    \/ AsyncThrow
    \/ RunAwait
ASpec == AInit /\ [][ANext]_avars

-----------------------------------------------------------------------------
(* Properties *)

WaitsFor(r, f) == r.onFulfil.k = "await" /\ r.onFulfil.i = f
Wakes(j, f) == j.h.k \in {"await", "awaitThrow"} /\ j.h.i = f
Waiting(f) ==
    UNION {{<<p, j>> : j \in {i \in 1 .. Len(vm.promises[p].reactions) :
                                WaitsFor(vm.promises[p].reactions[i], f)}} :
           p \in 1 .. NP(vm)}
Waking(f) == {j \in 1 .. Len(vm.jobs) : Wakes(vm.jobs[j], f)}

\* A function suspended in an await is resumed exactly once: one reaction or
\* one job stands for it, and none for a function that runs or has ended.
\* Two would run a body twice at the same time or after its frame was freed.
OneResumption ==
    \A f \in 1 .. Len(afs) :
        Cardinality(Waiting(f)) + Cardinality(Waking(f))
        = IF afs[f].state = "awaiting" THEN 1 ELSE 0

\* The await returns the value, or throws the error, of the awaited promise.
AwaitGivesOutcome == \A f \in 1 .. Len(afs) : hist[f].same

\* When all jobs have run, a function still suspended awaits a promise that
\* is pending, and a function that has ended has resolved its own promise.
SuspendedOnPending ==
    Quiescent => \A f \in 1 .. Len(afs) :
        CASE afs[f].state = "awaiting" -> ~IsSettled(hist[f].on)
          [] OTHER -> vm.pairs[afs[f].pair].already

\* js_async_function_resume: a function suspended in an await is resumed once,
\* with what the awaited promise came to, and waits only for a pending one.
AwaitsOnce == OneResumption /\ AwaitGivesOutcome /\ SuspendedOnPending
================================================================================
