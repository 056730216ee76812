------------------------------- MODULE Promises -------------------------------
(***************************************************************************)
(* The promises of the JavaScript engine: resolving functions, thenables,  *)
(* reactions, then, catch and finally, and the jobs they queue.  JSEngine  *)
(* models how the Dart side settles a promise and drains the queue; this   *)
(* module models what settling means when JavaScript code holds the        *)
(* resolving functions and may call them again, resolve a promise with     *)
(* another one, with itself or with an object that has a then method.      *)
(*                                                                         *)
(* The heap of the engine is one record, vm, because most operations are   *)
(* sequences of the same few calls; each call is an operator from one heap *)
(* to the next.  User code (a handler, an executor, a then method, the     *)
(* callback of finally) runs in a frame of the stack, and while it runs it *)
(* may do everything a script may do.  Allocation failures are left out.   *)
(***************************************************************************)
EXTENDS Integers, Sequences, FiniteSets

CONSTANTS
    MaxPromises,    \* bound: promises created in a behaviour
    MaxOps,         \* bound: operations started by user code
    MaxDepth,       \* bound: nested frames
    UserKinds,      \* kinds of values user code resolves or returns
    Ops             \* operations user code performs

ASSUME PromiseBounds ==
    MaxPromises \in Nat /\ MaxOps \in Nat /\ MaxDepth \in Nat
ASSUME PromiseKinds ==
    UserKinds \subseteq {"prim", "plain", "thenable", "getter", "promise"}

VARIABLES
    vm,         \* the heap: promises, resolving functions, job list
    stack,      \* frames of user code, the running one last
    ops,        \* operations started by user code
    calls,      \* history: reaction jobs run for each derived promise
    derived,    \* history: <<d, p>>, d was made by a then of p
    mirror,     \* history: <<d, p, o>>, d must share the outcome o of p
    due         \* history: <<d, o, v>>, d must end with outcome o and value v
history == <<derived, mirror, due>>
vars == <<vm, stack, ops, calls, history>>

-----------------------------------------------------------------------------
\* JavaScript values: primitives, objects whose property then is no function
\* (plain, array, error), objects whose then is a function (thenable,
\* promise) and objects whose property then throws when it is read (getter).
Kinds == {"prim", "plain", "array", "error", "thenable", "getter", "promise"}
Val(t, n) == [t |-> t, n |-> n]
Prim == Val("prim", 0)
Undefined == Val("prim", 1)
Error == Val("error", 0)
PromiseVal(p) == Val("promise", p)
IsObject(v) == v.t # "prim"
HasThen(v) == v.t \in {"thenable", "promise"}

\* A handler of a reaction: undefined, a function of user code, a resolving
\* function of pair i, or one of the native closures of finally.
Handler(k, i, v) == [k |-> k, i |-> i, v |-> v]
NoHandler == Handler("undefined", 0, Undefined)
UserHandler == Handler("user", 0, Undefined)
ResolveHandler(i) == Handler("resolve", i, Undefined)
RejectHandler(i) == Handler("reject", i, Undefined)
NoCap == 0

Pending == [state |-> "pending", result |-> Undefined, handled |-> FALSE,
            reactions |-> <<>>]
ReactionJob(h, cap, isReject, arg) ==
    [k |-> "reaction", h |-> h, cap |-> cap, rej |-> isReject, arg |-> arg]
ThenableJob(p, v) ==
    [k |-> "thenable", h |-> NoHandler, cap |-> p, rej |-> FALSE, arg |-> v]

-----------------------------------------------------------------------------
(* The heap: promises, pairs of resolving functions, the job list. *)

EmptyVM == [promises |-> <<>>, pairs |-> <<>>, jobs |-> <<>>, late |-> FALSE]
NP(m) == Len(m.promises)
LastPair(m) == Len(m.pairs)

\* Mutant: the reactions are freed and never queued.
SettleForgetsReactions(m, p, v, isReject) ==
    IF m.promises[p].state # "pending" THEN [m EXCEPT !.late = TRUE]
    ELSE [m EXCEPT !.promises[p] =
              [state |-> IF isReject THEN "rejected" ELSE "fulfilled",
               result |-> v, handled |-> @.handled, reactions |-> <<>>]]

\* fulfill_or_reject_promise: the result is stored and every reaction becomes
\* a job with the handler of this outcome.  late records a call that finds
\* the promise settled.
Settle(m, p, v, isReject) ==
    LET s == m.promises[p]
        Job(r) == ReactionJob(IF isReject THEN r.onReject ELSE r.onFulfil,
                              r.cap, isReject, v)
    IN IF s.state # "pending" THEN [m EXCEPT !.late = TRUE]
       ELSE [m EXCEPT
               !.promises[p] = [state |-> IF isReject THEN "rejected"
                                          ELSE "fulfilled",
                                result |-> v, handled |-> s.handled,
                                reactions |-> <<>>],
               !.jobs = @ \o [j \in 1 .. Len(s.reactions) |->
                                Job(s.reactions[j])]]

\* js_create_resolving_functions: two functions that share already_resolved.
CreateResolvingFunctions(m, p, exposed) ==
    [m EXCEPT !.pairs = Append(@, [promise |-> p, already |-> FALSE,
                                   exposed |-> exposed])]

\* Mutant: already_resolved is set only when the promise settles.
ResolveSetsFlagLate(m, i, isReject, v) ==
    LET p == m.pairs[i].promise
        m1 == [m EXCEPT !.pairs[i].already = TRUE]
    IN IF m.pairs[i].already THEN m
       ELSE IF isReject \/ ~IsObject(v) THEN Settle(m1, p, v, isReject)
       ELSE IF v = PromiseVal(p) \/ v.t = "getter" THEN Settle(m1, p, Error, TRUE)
       ELSE IF ~HasThen(v) THEN Settle(m1, p, v, FALSE)
       ELSE [m EXCEPT !.jobs = Append(@, ThenableJob(p, v))]

\* js_promise_resolve_function_call: only the first call of the pair counts;
\* an object with a then method is followed by a job of its own.
CallResolvingFunction(m, i, isReject, v) ==
    LET p == m.pairs[i].promise
        m1 == [m EXCEPT !.pairs[i].already = TRUE]
    IN IF m.pairs[i].already THEN m
       ELSE IF isReject \/ ~IsObject(v) THEN Settle(m1, p, v, isReject)
       ELSE IF v = PromiseVal(p) \/ v.t = "getter" THEN Settle(m1, p, Error, TRUE)
       ELSE IF ~HasThen(v) THEN Settle(m1, p, v, FALSE)
       ELSE [m1 EXCEPT !.jobs = Append(@, ThenableJob(p, v))]

\* The end of promise_reaction_job: an undefined capability is skipped.
Complete(m, cap, isReject, v) ==
    IF cap = NoCap THEN m ELSE CallResolvingFunction(m, cap, isReject, v)

\* js_promise_constructor up to the call of the executor.
NewPromise(m, exposed) ==
    LET m1 == [m EXCEPT !.promises = Append(@, Pending)]
    IN CreateResolvingFunctions(m1, NP(m1), exposed)

\* js_new_promise_capability with the native constructor: its executor keeps
\* the two functions, which user code never sees.
NewPromiseCapability(m) == NewPromise(m, FALSE)

\* Mutant: a promise that has settled keeps the reaction and queues no job.
ThenForgetsSettled(m, p, onFulfil, onReject, cap) ==
    [m EXCEPT !.promises[p].reactions =
                  Append(@, [onFulfil |-> onFulfil, onReject |-> onReject,
                             cap |-> cap]),
              !.promises[p].handled = TRUE]

\* perform_promise_then: a pending promise keeps the reaction, a settled one
\* queues its job at once.
PerformPromiseThen(m, p, onFulfil, onReject, cap) ==
    LET s == m.promises[p]
        r == [onFulfil |-> onFulfil, onReject |-> onReject, cap |-> cap]
        m1 == [m EXCEPT !.promises[p].handled = TRUE]
    IN CASE s.state = "pending" ->
              [m1 EXCEPT !.promises[p].reactions = Append(@, r)]
         [] s.state = "fulfilled" ->
              [m1 EXCEPT !.jobs =
                  Append(@, ReactionJob(onFulfil, cap, FALSE, s.result))]
         [] s.state = "rejected" ->
              [m1 EXCEPT !.jobs =
                  Append(@, ReactionJob(onReject, cap, TRUE, s.result))]

\* js_promise_then: the derived promise is the last one of the new heap.
Then(m, p, onFulfil, onReject) ==
    LET m1 == NewPromiseCapability(m)
    IN PerformPromiseThen(m1, p, onFulfil, onReject, LastPair(m1))

\* js_promise_resolve: Promise.resolve(v) returns a promise as it is, and
\* Promise.reject(v) never does.
IsKept(isReject, v) == ~isReject /\ v.t = "promise"
PromiseResolve(m, isReject, v) ==
    IF IsKept(isReject, v) THEN m
    ELSE LET m1 == NewPromiseCapability(m)
         IN CallResolvingFunction(m1, LastPair(m1), isReject, v)
PromiseOf(m, isReject, v) == IF IsKept(isReject, v) THEN v.n ELSE NP(m)

\* js_promise_finally: the two closures remember which outcome they stand for.
FinallyHandler(magic) == Handler("finally", magic, Undefined)
Finally(m, p, callable) ==
    IF callable THEN Then(m, p, FinallyHandler(0), FinallyHandler(1))
    ELSE Then(m, p, NoHandler, NoHandler)

\* js_promise_then_finally_func after onFinally returned res: the value or
\* the error is passed on once res is resolved.  The handler returns the
\* last promise of the new heap.
ThenFinally(m, res, magic, arg) ==
    LET m1 == NewPromiseCapability(m)
        m2 == CallResolvingFunction(m1, LastPair(m1), FALSE, res)
    IN Then(m2, NP(m1), Handler(IF magic = 0 THEN "thunk" ELSE "thrower",
                                0, arg), NoHandler)

-----------------------------------------------------------------------------
(* User code. *)

Frame(k, pair, magic, arg) ==
    [k |-> k, pair |-> pair, magic |-> magic, arg |-> arg]
Top == stack[Len(stack)]
Pop == SubSeq(stack, 1, Len(stack) - 1)
Idle == stack = <<>>
Room(n) == NP(vm) + n <= MaxPromises
MayAct(op) == op \in Ops /\ ops < MaxOps
UserValues == {v \in {Prim, Val("plain", 0), Val("thenable", 0), Val("getter", 0)} :
                  v.t \in UserKinds}
              \cup (IF "promise" \in UserKinds
                    THEN {PromiseVal(p) : p \in 1 .. NP(vm)} ELSE {})
Outcomes == {"fulfilled", "rejected"}
\* What a promise that is resolved with v must come to.
Follows(p, v) ==
    IF v.t = "promise" /\ v.n # p THEN {<<p, v.n, o>> : o \in Outcomes} ELSE {}

Init ==
    /\ vm = EmptyVM /\ stack = <<>> /\ ops = 0 /\ calls = <<>>
    /\ derived = {} /\ mirror = {} /\ due = {}

\* calls counts the reaction jobs run for each promise's capability.
Become(m) ==
    /\ vm' = m
    /\ calls' = calls \o [j \in 1 .. NP(m) - Len(calls) |-> 0]
Act(m) == Become(m) /\ ops' = ops + 1

\* new Promise(executor): the executor runs before the constructor returns.
New ==
    /\ MayAct("new") /\ Room(1) /\ Len(stack) < MaxDepth
    /\ LET m == NewPromise(vm, TRUE)
       IN /\ Act(m)
          /\ stack' = Append(stack, Frame("executor", LastPair(m), 0, Undefined))
    /\ UNCHANGED history

\* User code calls a resolving function it has been given.
CallPair(i, isReject, v) ==
    /\ MayAct("call") /\ vm.pairs[i].exposed
    /\ Act(CallResolvingFunction(vm, i, isReject, v))
    /\ mirror' = IF isReject \/ vm.pairs[i].already THEN mirror
                 ELSE mirror \cup Follows(vm.pairs[i].promise, v)
    /\ UNCHANGED <<stack, derived, due>>

\* p.then(onFulfil, onReject), and p.catch(onReject).
UserThen(p, onFulfil, onReject) ==
    /\ MayAct("then") /\ Room(1)
    /\ LET m == Then(vm, p, onFulfil, onReject)
           d == NP(m)
       IN /\ Act(m)
          /\ mirror' = mirror
               \cup (IF onFulfil = NoHandler THEN {<<d, p, "fulfilled">>} ELSE {})
               \cup (IF onReject = NoHandler THEN {<<d, p, "rejected">>} ELSE {})
          /\ derived' = derived \cup {<<d, p>>}
    /\ UNCHANGED <<stack, due>>

\* Promise.resolve(v) and Promise.reject(v).
UserResolve(isReject, v) ==
    /\ MayAct("static") /\ Room(1)
    /\ Act(PromiseResolve(vm, isReject, v))
    /\ mirror' = IF isReject \/ v.t = "promise" THEN mirror
                 ELSE mirror \cup Follows(NP(vm) + 1, v)
    /\ UNCHANGED <<stack, derived, due>>

UserFinally(p, callable) ==
    /\ MayAct("finally") /\ Room(1)
    /\ Act(Finally(vm, p, callable))
    /\ mirror' = mirror \cup (IF callable THEN {}
                              ELSE {<<NP(vm) + 1, p, o>> : o \in Outcomes})
    /\ derived' = derived \cup {<<NP(vm) + 1, p>>}
    /\ UNCHANGED <<stack, due>>

InFrame == ~Idle /\ Top.k \in {"executor", "handler", "finally", "then"}

\* The running function returns v.
Return(v) ==
    /\ InFrame
    /\ CASE Top.k \in {"executor", "then"} -> Become(vm) /\ UNCHANGED history
         [] Top.k = "handler" ->
              /\ Become(Complete(vm, Top.pair, FALSE, v))
              /\ mirror' = IF Top.pair = NoCap THEN mirror
                           ELSE mirror \cup Follows(vm.pairs[Top.pair].promise, v)
              /\ UNCHANGED <<derived, due>>
         [] Top.k = "finally" ->
              /\ Room(2)
              /\ LET m == ThenFinally(vm, v, Top.magic, Top.arg)
                     d == vm.pairs[Top.pair].promise
                 IN /\ Become(Complete(m, Top.pair, FALSE, PromiseVal(NP(m))))
                    /\ due' = IF v # Prim THEN due
                              ELSE due \cup {<<d, IF Top.magic = 0 THEN "fulfilled"
                                                 ELSE "rejected", Top.arg>>}
              /\ UNCHANGED <<derived, mirror>>
    /\ stack' = Pop
    /\ UNCHANGED ops

\* The running function throws: the error rejects what it was called for.
Throw ==
    /\ InFrame
    /\ Become(Complete(vm, Top.pair, TRUE, Error))
    /\ stack' = Pop
    /\ UNCHANGED <<ops, history>>

-----------------------------------------------------------------------------
(* JS_ExecutePendingJob takes the first job of the list. *)

Job == vm.jobs[1]
Dequeued == [vm EXCEPT !.jobs = Tail(@)]
Ran == IF Job.cap = NoCap THEN calls
       ELSE [calls EXCEPT ![vm.pairs[Job.cap].promise] = @ + 1]
RunnableReaction(kinds) ==
    Idle /\ vm.jobs # <<>> /\ Job.k = "reaction" /\ Job.h.k \in kinds

\* promise_reaction_job with a handler that is native or undefined.
RunNativeReaction ==
    /\ RunnableReaction({"undefined", "thunk", "thrower", "resolve", "reject"})
    /\ vm' = CASE Job.h.k = "undefined" ->
                    Complete(Dequeued, Job.cap, Job.rej, Job.arg)
               [] Job.h.k = "thunk" ->
                    Complete(Dequeued, Job.cap, FALSE, Job.h.v)
               [] Job.h.k = "thrower" ->
                    Complete(Dequeued, Job.cap, TRUE, Job.h.v)
               [] OTHER ->
                    Complete(CallResolvingFunction(Dequeued, Job.h.i,
                                 Job.h.k = "reject", Job.arg),
                             Job.cap, FALSE, Undefined)
    /\ calls' = Ran
    /\ UNCHANGED <<stack, ops, history>>

\* promise_reaction_job calls a handler of user code, or the callback of
\* finally through js_promise_then_finally_func.
RunUserReaction ==
    /\ RunnableReaction({"user", "finally"})
    /\ vm' = Dequeued
    /\ calls' = Ran
    /\ stack' = <<Frame(IF Job.h.k = "user" THEN "handler" ELSE "finally",
                        Job.cap, Job.h.i, Job.arg)>>
    /\ UNCHANGED <<ops, history>>

\* js_promise_resolve_thenable_job: the then method gets a pair of its own.
\* The method of a promise is js_promise_then.
RunThenable ==
    /\ Idle /\ vm.jobs # <<>> /\ Job.k = "thenable"
    /\ LET p == Job.cap
           m == CreateResolvingFunctions(Dequeued, p, Job.arg.t = "thenable")
           i == LastPair(m)
       IN IF Job.arg.t = "promise"
          THEN /\ Room(1)
               /\ Become(Then(m, Job.arg.n, ResolveHandler(i), RejectHandler(i)))
               /\ derived' = derived \cup {<<NP(m) + 1, Job.arg.n>>}
               /\ UNCHANGED stack
          ELSE /\ Become(m)
               /\ stack' = <<Frame("then", i, 0, Undefined)>>
               /\ UNCHANGED derived
    /\ UNCHANGED <<ops, mirror, due>>

UserNext ==
    \/ New
    \/ \E i \in 1 .. Len(vm.pairs), r \in BOOLEAN, v \in UserValues : CallPair(i, r, v)
    \/ \E p \in 1 .. NP(vm), f \in {NoHandler, UserHandler},
          r \in {NoHandler, UserHandler} : UserThen(p, f, r)
    \/ \E r \in BOOLEAN, v \in UserValues : UserResolve(r, v)
    \/ \E p \in 1 .. NP(vm), callable \in BOOLEAN : UserFinally(p, callable)
    \/ \E v \in UserValues : Return(v)
    \/ Throw

JobNext == RunNativeReaction \/ RunUserReaction \/ RunThenable

Next == UserNext \/ JobNext
Spec == Init /\ [][Next]_vars

-----------------------------------------------------------------------------
(* Properties *)

Values == [t : Kinds, n : Nat]
States == {"pending", "fulfilled", "rejected"}

\* The type invariant of the promise heap.
PromisesTypeOK ==
    /\ \A p \in 1 .. NP(vm) :
         /\ vm.promises[p].state \in States /\ vm.promises[p].result \in Values
         /\ \A j \in 1 .. Len(vm.promises[p].reactions) :
              vm.promises[p].reactions[j].cap \in 0 .. LastPair(vm)
    /\ \A i \in 1 .. LastPair(vm) : vm.pairs[i].promise \in 1 .. NP(vm)
    /\ \A j \in 1 .. Len(vm.jobs) :
         /\ vm.jobs[j].arg \in Values
         /\ vm.jobs[j].cap \in 0 .. IF vm.jobs[j].k = "reaction" THEN LastPair(vm)
                                   ELSE NP(vm)
    /\ Len(calls) = NP(vm)

\* Every pending promise can be settled in exactly one way: by the one pair of
\* resolving functions that has not been used, or by the one job that will
\* create the next pair.  A settled promise cannot be settled again.  This is
\* what already_resolved must achieve, however often and in whatever order
\* user code calls the functions it was given.
OneWayToSettle ==
    \A p \in 1 .. NP(vm) :
        Cardinality({i \in 1 .. LastPair(vm) :
                        vm.pairs[i].promise = p /\ ~vm.pairs[i].already})
        + Cardinality({j \in 1 .. Len(vm.jobs) :
                        vm.jobs[j].k = "thenable" /\ vm.jobs[j].cap = p})
        = IF vm.promises[p].state = "pending" THEN 1 ELSE 0

Quiescent == Idle /\ vm.jobs = <<>>
IsSettled(p) == vm.promises[p].state # "pending"

\* When all jobs have run, a promise that was resolved with another promise,
\* or derived from one without a handler for its outcome, has that promise's
\* outcome and value, however long the chain between them.
OutcomesMirrored ==
    Quiescent =>
        \A t \in mirror :
            vm.promises[t[2]].state = t[3] =>
                /\ vm.promises[t[1]].state = t[3]
                /\ vm.promises[t[1]].result = vm.promises[t[2]].result

\* finally passes the value or the error on, after a callback that returned.
FinallyTransparent ==
    Quiescent => \A t \in due : /\ vm.promises[t[1]].state = t[2]
                               /\ vm.promises[t[1]].result = t[3]

\* A reaction never runs twice, and when all jobs have run, every reaction of
\* a settled promise has run, no matter whether it was registered before or
\* after the promise settled.
ReactionsRunOnce ==
    /\ \A p \in 1 .. NP(vm) : calls[p] <= 1
    /\ Quiescent => \A t \in derived : IsSettled(t[2]) => calls[t[1]] = 1

\* promise_reaction_job: when all jobs have run, every reaction of a settled
\* promise has run once, promises that follow another one have its outcome,
\* and finally has passed the outcome on.
OutcomesArrive ==
    PromisesTypeOK /\ OutcomesMirrored /\ ReactionsRunOnce /\ FinallyTransparent
================================================================================
