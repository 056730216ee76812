------------------------------- MODULE JSEngine -------------------------------
(***************************************************************************)
(* The asynchronous core of quickjs_dart: one Dart isolate that owns the   *)
(* engine singleton, the JavaScript code it evaluates, the Dart handlers   *)
(* that JavaScript calls through hooks, the Dart Futures those handlers    *)
(* return, the JavaScript promises that stand for them, and the runtime's  *)
(* queue of pending jobs.                                                  *)
(*                                                                         *)
(* Everything runs on one thread.  What interleaves is the Dart event      *)
(* loop (Futures complete in any order, between calls of the application)  *)
(* and re-entrancy (JavaScript calls Dart, Dart calls JavaScript, either   *)
(* may drain the job queue), so the call stack of the isolate is part of   *)
(* the state.  The event loop dispatches only when the stack is empty.     *)
(*                                                                         *)
(* Promises are numbered in the order they are created.  A promise made by *)
(* p.then(f) is the reaction's derived promise, and it names the reaction: *)
(* the job of reaction q calls f and then settles q.                       *)
(***************************************************************************)
EXTENDS Integers, Sequences, FiniteSets

CONSTANTS
    MaxPromises,    \* bound: promises created in a behaviour
    MaxEntries,     \* bound: evalScript and callJS calls
    MaxCalls,       \* bound: hook calls
    MaxDepth,       \* bound: frames under a hook call
    MaxStops,       \* bound: JSEngine.stop calls
    RealmRefs,      \* context references held by the built-in functions
    JobsMayRaise,   \* may a job end with a JavaScript exception?
    Reentrant,      \* may a handler itself call loop or donePendingJobs?
    Limits          \* the maxNumber arguments given to donePendingJobs

ASSUME BoundsAssumption ==
    /\ MaxPromises \in Nat /\ MaxEntries \in Nat /\ MaxCalls \in Nat
    /\ MaxDepth \in Nat /\ MaxStops \in Nat /\ RealmRefs \in Nat
ASSUME FlagsAssumption == JobsMayRaise \in BOOLEAN /\ Reentrant \in BOOLEAN
ASSUME LimitsAssumption == Limits \subseteq Int

\* init() evaluates two scripts, and every evalScript keeps two references.
InitEvals == 2
RefsPerEval == 2

\* The Limits of an application that only calls donePendingJobs() without an
\* argument.
Unlimited == {-1}

Promises == 1 .. MaxPromises
NoPromise == 0
Settled == {"fulfilled", "rejected"}
\* How a Future ends: with a value toJSVal can convert, with one it cannot,
\* with a JSValue wrapper, or with an error.
Outcomes == {"value", "unsupported", "jsvalue", "error"}
Callers == {"app", "handler", "then", "catch"}

VARIABLES
    instance,   \* has the singleton been constructed? (_instance != null)
    ctxRefs,    \* reference count of the JSContext
    rtFreed,    \* has the JSRuntime been released?
    stops,      \* calls of stop() so far
    entries,    \* calls of evalScript and callJS so far
    calls,      \* hook calls so far
    stack,      \* call stack of the isolate, the running frame last
    np,         \* promises created so far
    promise,    \* promise_state of each promise
    parent,     \* the promise a derived promise was registered on
    reactions,  \* promise_reactions of each promise
    jobs,       \* job_list of the runtime
    future,     \* state of the Dart Future behind a hook's promise
    cap,        \* references Dart holds on a hook's {resolve, reject, promise}
    raised,     \* has a job ended with an exception?
    crashed,    \* did the process die in InvokeDartCallback?
    late,       \* history: reactions registered on a settled promise
    enq,        \* history: every job ever queued, in order
    ran         \* history: every job ever started, in order

engineVars == <<instance, ctxRefs, rtFreed, stops>>
promiseVars == <<np, promise, parent, reactions, jobs, enq, late>>
futureVars == <<future, cap>>
vars == <<engineVars, promiseVars, futureVars, entries, calls, stack, raised,
          crashed, ran>>

-----------------------------------------------------------------------------
\* Frames of the stack.
Frames == [kind : {"script", "job", "drain", "handler"},
           q : Promises \cup {NoPromise}, n : Nat, max : Int, by : Callers]
Frame(kind, q, n, max, by) ==
    [kind |-> kind, q |-> q, n |-> n, max |-> max, by |-> by]
ScriptFrame == Frame("script", NoPromise, 0, 0, "app")
HandlerFrame == Frame("handler", NoPromise, 0, 0, "app")
JobFrame(q) == Frame("job", q, 0, 0, "app")
\* Mutant: executed starts at -1.
DrainFrame(max, by, p) == Frame("drain", p, 0, max, by)

Top == stack[Len(stack)]
Running(kinds) == stack # <<>> /\ Top.kind \in kinds
Below == SubSeq(stack, 1, Len(stack) - 1)
Idle == stack = <<>>
Alive == instance /\ ~crashed

TypeOK ==
    /\ instance \in BOOLEAN /\ ctxRefs \in Int /\ rtFreed \in BOOLEAN
    /\ stops \in Nat /\ entries \in Nat /\ calls \in Nat
    /\ stack \in Seq(Frames)
    /\ np \in 0 .. MaxPromises
    /\ promise \in [Promises -> {"none", "pending"} \cup Settled]
    /\ parent \in [Promises -> Promises \cup {NoPromise}]
    /\ reactions \in [Promises -> Seq(Promises)]
    /\ jobs \in Seq(Promises) /\ enq \in Seq(Promises) /\ ran \in Seq(Promises)
    /\ future \in [Promises -> {"none", "waiting"} \cup Outcomes]
    /\ cap \in [Promises -> Int]
    /\ raised \in BOOLEAN /\ crashed \in BOOLEAN /\ late \subseteq Promises

Init ==
    /\ instance = FALSE /\ ctxRefs = 0 /\ rtFreed = FALSE /\ stops = 0
    /\ entries = 0 /\ calls = 0 /\ stack = <<>> /\ np = 0
    /\ promise = [p \in Promises |-> "none"]
    /\ parent = [p \in Promises |-> NoPromise]
    /\ reactions = [p \in Promises |-> <<>>]
    /\ jobs = <<>> /\ enq = <<>> /\ ran = <<>>
    /\ future = [p \in Promises |-> "none"]
    /\ cap = [p \in Promises |-> 0]
    /\ raised = FALSE /\ crashed = FALSE /\ late = {}

-----------------------------------------------------------------------------
(* The promises and the job queue of QuickJS, as the engine uses them. *)

\* fulfill_or_reject_promise: a pending promise takes its state and all its
\* reactions become jobs, in the order they were registered.  A resolving
\* function called a second time does nothing (already_resolved).
Settle(p, state) ==
    IF promise[p] = "pending"
    THEN /\ promise' = [promise EXCEPT ![p] = state]
         /\ jobs' = jobs \o reactions[p]
         /\ enq' = enq \o reactions[p]
         /\ reactions' = [reactions EXCEPT ![p] = <<>>]
         /\ UNCHANGED <<np, parent, late>>
    ELSE UNCHANGED promiseVars

\* A new pending promise, numbered np + 1.
NewPromise(p) ==
    /\ np < MaxPromises /\ p = np + 1
    /\ np' = p
    /\ promise' = [promise EXCEPT ![p] = "pending"]

\* Mutant: list_add where the code has list_add_tail, on the job list.
ThenJumpsQueue(p, q) ==
    /\ parent' = [parent EXCEPT ![q] = p]
    /\ IF promise[p] = "pending"
       THEN /\ reactions' = [reactions EXCEPT ![p] = Append(@, q)]
            /\ UNCHANGED <<jobs, enq, late>>
       ELSE /\ jobs' = <<q>> \o jobs
            /\ enq' = Append(enq, q)
            /\ late' = late \cup {q}
            /\ UNCHANGED reactions

\* Mutant: the case of a promise that has already settled is forgotten.
ThenForgetsSettled(p, q) ==
    /\ parent' = [parent EXCEPT ![q] = p]
    /\ reactions' = [reactions EXCEPT ![p] = Append(@, q)]
    /\ UNCHANGED <<jobs, enq, late>>

\* Mutant: the reaction is queued without looking at promise_state.
ThenQueuesAtOnce(p, q) ==
    /\ parent' = [parent EXCEPT ![q] = p]
    /\ jobs' = Append(jobs, q)
    /\ enq' = Append(enq, q)
    /\ UNCHANGED <<reactions, late>>

\* perform_promise_then: the reaction q waits with a pending promise and is
\* queued at once on a settled one.
PerformPromiseThen(p, q) ==
    /\ parent' = [parent EXCEPT ![q] = p]
    /\ IF promise[p] = "pending"
       THEN /\ reactions' = [reactions EXCEPT ![p] = Append(@, q)]
            /\ UNCHANGED <<jobs, enq, late>>
       ELSE /\ jobs' = Append(jobs, q)
            /\ enq' = Append(enq, q)
            /\ late' = late \cup {q}
            /\ UNCHANGED reactions

-----------------------------------------------------------------------------
(* The two callbacks that DartCallback.wrapperFunc attaches to a Future. *)

\* JSEngine.loop: drains the queue when a job is pending.
LoopFrames(queue, by, p) ==
    IF queue = <<>> THEN <<>> ELSE <<DrainFrame(-1, by, p)>>

\* Settle the promise, free newPromise, run the loop.
FinishCallback(p, state, by, rest) ==
    /\ Settle(p, state)
    /\ cap' = [cap EXCEPT ![p] = @ - 1]
    /\ stack' = rest \o LoopFrames(jobs', by, p)

\* Mutant: the then callback does not loop.
ThenCallbackNoLoop(p) ==
    /\ Settle(p, "fulfilled")
    /\ cap' = [cap EXCEPT ![p] = @ - 1]
    /\ UNCHANGED stack

\* Mutant: catchError frees newPromise without calling reject.
CatchCallbackNoReject(p, rest) ==
    /\ cap' = [cap EXCEPT ![p] = @ - 1]
    /\ stack' = rest \o LoopFrames(jobs, "catch", p)
    /\ UNCHANGED promiseVars

\* Mutant: catchError does not loop.
CatchCallbackNoLoop(p, rest) ==
    /\ Settle(p, "rejected")
    /\ cap' = [cap EXCEPT ![p] = @ - 1]
    /\ stack' = rest

ThenCallback(p) == FinishCallback(p, "fulfilled", "then", <<>>)
CatchCallback(p, rest) == FinishCallback(p, "rejected", "catch", rest)

\* Converting the argument of resolve throws for a Dart value that toJSVal
\* does not support, and for a JSValue: dupValue returns a Pointer, which is
\* no element of the List<JSValue> that callJS takes.
ConversionThrows(outcome) == outcome \in {"unsupported", "jsvalue"}

\* Mutant: donePendingJobs throws when a job has raised.
DoneResultThrows(result) == IF result = "number" THEN "count" ELSE "throw"

\* What donePendingJobs makes of the value executePendingJob returns.
DoneResult(result) == IF result = "number" THEN "count" ELSE "minusOne"

\* executePendingJob has returned to the caller of donePendingJobs.  Were it
\* to throw under a then callback, catchError would run as well.
LoopReturns(rest, drain, result) ==
    IF drain.by = "then" /\ DoneResult(result) = "throw"
    THEN CatchCallback(drain.q, rest)
    ELSE /\ stack' = rest
         /\ UNCHANGED <<promiseVars, cap>>

-----------------------------------------------------------------------------
(* The Dart application. *)

\* JSEngine(): newRuntime, newContext and init.  Later calls return the same
\* instance and change nothing, also after stop().
NewEngine ==
    /\ ~instance
    /\ instance' = TRUE
    /\ ctxRefs' = 1 + RealmRefs + RefsPerEval * InitEvals
    /\ UNCHANGED <<rtFreed, stops, promiseVars, futureVars, entries, calls,
                   stack, raised, crashed, ran>>

\* Dart code runs from the event loop or inside a handler.
InDart == Alive /\ (Idle \/ Running({"handler"}))

\* evalScript: the script runs with one duplicated context and its result is
\* wrapped with another; neither reference is given back.
EvalScript ==
    /\ InDart /\ entries < MaxEntries
    /\ entries' = entries + 1
    /\ ctxRefs' = ctxRefs + RefsPerEval
    /\ stack' = Append(stack, ScriptFrame)
    /\ UNCHANGED <<instance, rtFreed, stops, promiseVars, futureVars, calls,
                   raised, crashed, ran>>

\* JSValue.callJS, callJSEncode or invokeObject on a function.
CallJS ==
    /\ InDart /\ entries < MaxEntries
    /\ entries' = entries + 1
    /\ stack' = Append(stack, ScriptFrame)
    /\ UNCHANGED <<engineVars, promiseVars, futureVars, calls, raised,
                   crashed, ran>>

MayDrain == Alive /\ (Idle \/ (Reentrant /\ Running({"handler"})))
Caller == IF Idle THEN "app" ELSE "handler"

Loop ==
    /\ MayDrain /\ jobs # <<>>
    /\ stack' = stack \o LoopFrames(jobs, Caller, NoPromise)
    /\ UNCHANGED <<engineVars, promiseVars, futureVars, entries, calls,
                   raised, crashed, ran>>

DonePendingJobs(max) ==
    /\ MayDrain
    /\ stack' = Append(stack, DrainFrame(max, Caller, NoPromise))
    /\ UNCHANGED <<engineVars, promiseVars, futureVars, entries, calls,
                   raised, crashed, ran>>

\* The symbol freeRuntime is bound to: JS_SetMaxStackSize stores a stack
\* limit that this build never reads, and releases nothing.
FreeRuntime == UNCHANGED rtFreed

\* stop(): nothing records that the engine was stopped.
Stop ==
    /\ Alive /\ Idle /\ stops < MaxStops
    /\ stops' = stops + 1
    /\ ctxRefs' = ctxRefs - 1
    /\ FreeRuntime
    /\ UNCHANGED <<instance, promiseVars, futureVars, entries, calls, stack,
                   raised, crashed, ran>>

\* The event loop runs the callbacks of a completed Future.
FutureDone(p, outcome) ==
    /\ Alive /\ Idle /\ future[p] = "waiting"
    /\ future' = [future EXCEPT ![p] = outcome]
    /\ IF outcome = "error" \/ ConversionThrows(outcome)
       THEN CatchCallback(p, <<>>)
       ELSE ThenCallback(p)
    /\ UNCHANGED <<engineVars, entries, calls, raised, crashed, ran>>

-----------------------------------------------------------------------------
(* JavaScript code: a script, or the handler of a promise reaction. *)

\* p.then(f) creates the derived promise q.
JSThen(p, q) ==
    /\ Alive /\ Running({"script", "job"})
    /\ p <= np
    /\ NewPromise(q)
    /\ PerformPromiseThen(p, q)
    /\ UNCHANGED <<engineVars, futureVars, entries, calls, stack, raised,
                   crashed, ran>>

\* InvokeDartCallback enters the Dart handler.
CallHook ==
    /\ Alive /\ Running({"script", "job"})
    /\ calls < MaxCalls /\ Len(stack) < MaxDepth
    /\ calls' = calls + 1
    /\ stack' = Append(stack, HandlerFrame)
    /\ UNCHANGED <<engineVars, promiseVars, futureVars, entries, raised,
                   crashed, ran>>

\* A script returns to its Dart caller, with a value or with an exception
\* that the caller receives as a value.
ScriptReturn ==
    /\ Alive /\ Running({"script"})
    /\ stack' = Below
    /\ UNCHANGED <<engineVars, promiseVars, futureVars, entries, calls,
                   raised, crashed, ran>>

-----------------------------------------------------------------------------
(* DartCallback.wrapperFunc: what the handler returns. *)

\* Mutant: wrapperFunc loops before it returns to JavaScript.
HandlerReturnLoops ==
    /\ Alive /\ Running({"handler"})
    /\ stack' = Below \o LoopFrames(jobs, "handler", NoPromise)
    /\ UNCHANGED <<engineVars, promiseVars, futureVars, entries, calls,
                   raised, crashed, ran>>

\* null, a JSValue, or a Dart value toJSVal supports.
HandlerReturn ==
    /\ Alive /\ Running({"handler"})
    /\ stack' = Below
    /\ UNCHANGED <<engineVars, promiseVars, futureVars, entries, calls,
                   raised, crashed, ran>>

\* A Future: JavaScript gets the promise of a new createPromise() object.
HandlerFuture(p) ==
    /\ Alive /\ Running({"handler"})
    /\ NewPromise(p)
    /\ future' = [future EXCEPT ![p] = "waiting"]
    /\ cap' = [cap EXCEPT ![p] = 1]
    /\ stack' = Below
    /\ UNCHANGED <<engineVars, parent, reactions, jobs, enq, late, entries,
                   calls, raised, crashed, ran>>

\* An exception, or a value that toJSVal does not support: the native
\* callback returns a null pointer and InvokeDartCallback reads through it.
HandlerThrow ==
    /\ Alive /\ Running({"handler"})
    /\ crashed' = TRUE
    /\ UNCHANGED <<engineVars, promiseVars, futureVars, entries, calls,
                   stack, raised, ran>>

-----------------------------------------------------------------------------
(* executePendingJob: the loop over JS_ExecutePendingJob. *)

\* Take the first job off the list and start it.
DrainJob ==
    /\ Alive /\ Running({"drain"})
    /\ Top.n # Top.max /\ jobs # <<>>
    /\ stack' = Append(stack, JobFrame(Head(jobs)))
    /\ jobs' = Tail(jobs)
    /\ ran' = Append(ran, Head(jobs))
    /\ UNCHANGED <<engineVars, np, promise, parent, reactions, enq, late,
                   futureVars, entries, calls, raised, crashed>>

\* The limit is reached or no job is left: return the number executed.
DrainEnd ==
    /\ Alive /\ Running({"drain"})
    /\ Top.n = Top.max \/ jobs = <<>>
    /\ LoopReturns(Below, Top, "number")
    /\ UNCHANGED <<engineVars, future, entries, calls, raised, crashed, ran>>

\* The drain under a finished job counts it (executed++).
CountJob(s) == [s EXCEPT ![Len(s)] = [s[Len(s)] EXCEPT !.n = @ + 1]]

\* promise_reaction_job has called the handler and settles the derived
\* promise with what it returned or threw.
JobReturn(state) ==
    /\ Alive /\ Running({"job"})
    /\ Settle(Top.q, state)
    /\ stack' = CountJob(Below)
    /\ UNCHANGED <<engineVars, futureVars, entries, calls, raised, crashed,
                   ran>>

\* The derived promise's own resolving function throws: the job ends with an
\* exception, and executePendingJob returns it.
JobRaise ==
    /\ Alive /\ JobsMayRaise /\ Running({"job"})
    /\ raised' = TRUE
    /\ LoopReturns(SubSeq(stack, 1, Len(stack) - 2), stack[Len(stack) - 1],
                   "exception")
    /\ UNCHANGED <<engineVars, future, entries, calls, crashed, ran>>

-----------------------------------------------------------------------------
Next ==
    \/ NewEngine
    \/ EvalScript
    \/ CallJS
    \/ Loop
    \/ \E max \in Limits : DonePendingJobs(max)
    \/ Stop
    \/ \E p \in Promises, outcome \in Outcomes : FutureDone(p, outcome)
    \/ \E p, q \in Promises : JSThen(p, q)
    \/ CallHook
    \/ ScriptReturn
    \/ HandlerReturn
    \/ \E p \in Promises : HandlerFuture(p)
    \/ HandlerThrow
    \/ DrainJob
    \/ DrainEnd
    \/ \E state \in Settled : JobReturn(state)
    \/ JobRaise

Spec == Init /\ [][Next]_vars

\* Scripts, jobs and handlers return, executePendingJob keeps going, and the
\* event loop never forgets a completed Future.
Progress ==
    \/ ScriptReturn
    \/ HandlerReturn
    \/ DrainJob
    \/ DrainEnd
    \/ \E state \in Settled : JobReturn(state)

FairSpec ==
    /\ Spec
    /\ WF_vars(Progress)
    /\ \A p \in Promises :
          SF_vars(\E outcome \in Outcomes : FutureDone(p, outcome))

-----------------------------------------------------------------------------
(* Correctness. *)

RangeOf(s) == {s[i] : i \in DOMAIN s}

\* function.dart: the createPromise() object of a hook call is referenced
\* exactly until its Future completes. The then and the catchError callback
\* never both release it, whatever throws in between.
NewPromiseFreedOnce ==
    \A p \in Promises : cap[p] = IF future[p] = "waiting" THEN 1 ELSE 0

\* function.dart: the JavaScript promise follows its Future. It is pending
\* exactly as long, fulfilled by a value that can be converted, and rejected
\* by everything else.
PromiseFollowsFuture ==
    \A p \in Promises : future[p] # "none" =>
        promise[p] = CASE future[p] = "waiting" -> "pending"
                       [] future[p] = "value" -> "fulfilled"
                       [] OTHER -> "rejected"

\* executePendingJob: jobs start in the order they were queued, also when a
\* drain runs inside a job of another drain or stops on an exception.
QueueFIFO == enq = ran \o jobs

\* perform_promise_then and fulfill_or_reject_promise: a reaction is queued
\* once, neither before its promise settles nor later than that.
ReactionQueuedOnce ==
    \A q \in Promises : parent[q] # NoPromise =>
        Cardinality({i \in DOMAIN enq : enq[i] = q}) =
            IF promise[parent[q]] = "pending" THEN 0 ELSE 1

\* function.dart: the loop that ends each Future callback leaves no job
\* behind. When the event loop is idle, only reactions registered on an
\* already settled promise, by code nobody has looped for, may be queued.
NoReactionLeftBehind ==
    Idle /\ ~raised /\ (\A max \in Limits : max < 0) =>
        RangeOf(jobs) \subseteq late

\* function.dart and engine.dart: the library itself drains the queue only
\* from the event loop, so a job never runs in the middle of a script, of a
\* handler or of another job unless a handler asks for it.
JobsRunToCompletion ==
    ~Reentrant => \A i \in DOMAIN stack : stack[i].kind = "drain" => i = 1

\* The core implements the abstract specification: reactions are delivered
\* when executePendingJob starts their job, promises settle once.
Abs == INSTANCE AsyncCalls WITH
    state <- promise, on <- parent, delivered <- RangeOf(ran)
ImplementsAsyncCalls == Abs!AbsSpec

\* function.dart: a reaction registered on a hook's promise while its Future
\* is outstanding runs in the end, with no call of loop by the application.
AsyncResultDelivered ==
    \A q \in Promises :
        (parent[q] # NoPromise /\ future[parent[q]] = "waiting")
            ~> (crashed \/ q \in RangeOf(ran))

\* ffi_base.dart binds freeRuntime under "void JS_FreeRuntime(JSRuntime *rt)":
\* a stopped engine has released its runtime.
RuntimeReleased == stops > 0 => rtFreed

=============================================================================
