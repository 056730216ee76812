---------------------------- MODULE AsyncGenerators ----------------------------
(***************************************************************************)
(* One async generator on top of the promise heap.  next, return and throw *)
(* may be called at any time, also while the body runs or awaits; each     *)
(* call queues a request with a promise of its own, and                    *)
(* js_async_generator_resume_next serves the queue from its head.          *)
(***************************************************************************)
EXTENDS Promises

CONSTANT MaxRequests    \* bound: calls of next, return and throw

VARIABLES
    gen,        \* state, queue and whether every assertion has held; history:
                \* whether a continuation was lost, and whether a request was
                \* made while another one waited
    requests,   \* history: the promise of every request, in order
    answers     \* history: the requests answered, in order
gvars == <<vars, gen, requests, answers>>

Magics == {"next", "return", "throw"}
Request(magic, v, bad, pair) ==
    [magic |-> magic, v |-> v, bad |-> bad, pair |-> pair]
GenFrame == Frame("gen", 0, 0, Undefined)
InGen == ~Idle /\ Top.k = "gen"
IterResult(done) == Val("plain", IF done THEN 2 ELSE 1)

\* What a call of the generator's code leaves: the heap, the generator, the
\* requests it answered and whether the body is to run.
Now == [m |-> vm, g |-> gen, a |-> <<>>, run |-> FALSE]

\* js_async_generator_resolve_or_reject: the head request is answered.  The
\* code takes it without looking whether there is one.
Answer(c, isReject, v) ==
    LET r == Head(c.g.queue)
    IN IF c.g.queue = <<>> THEN [c EXCEPT !.g.asserted = FALSE] ELSE
       [c EXCEPT !.m = CallResolvingFunction(@, r.pair, isReject, v),
                 !.g.queue = Tail(@), !.a = Append(@, r.pair)]

\* js_async_generator_complete
Completed(c) == [c EXCEPT !.g.state = "completed"]

\* js_async_generator_await and js_async_generator_completed_return: a
\* reaction without a capability continues the generator.  js_promise_resolve
\* reads the constructor of a promise; when that throws (bad), both return -1,
\* which js_async_generator_resume_next ignores.
ThenResume(c, v, bad, resumeNext) ==
    LET m1 == PromiseResolve(c.m, FALSE, v)
        q == PromiseOf(m1, FALSE, v)
        h(isReject) == Handler(IF isReject THEN "genThrow" ELSE "gen",
                               IF resumeNext THEN 2 ELSE 0, Undefined)
    IN IF bad THEN [c EXCEPT !.g.lost = TRUE]
       ELSE [c EXCEPT !.m = PerformPromiseThen(m1, q, h(FALSE), h(TRUE), NoCap)]

\* The case COMPLETED of js_async_generator_resume_next, which handles one
\* request and leaves the loop.
ServeCompleted(c) ==
    LET r == Head(c.g.queue)
    IN CASE r.magic = "next" -> Answer(c, FALSE, IterResult(TRUE))
         [] r.magic = "throw" -> Answer(c, TRUE, r.v)
         [] r.magic = "return" ->
              ThenResume([c EXCEPT !.g.state = "awaiting_return"], r.v, r.bad, TRUE)

\* js_async_generator_resume_next up to the point where the body runs.
ResumeNext(c) ==
    CASE c.g.queue = <<>> -> c
      [] c.g.queue # <<>> /\ c.g.state = "awaiting_return" -> c
      [] c.g.queue # <<>> /\ c.g.state = "completed" -> ServeCompleted(c)
      [] c.g.queue # <<>> /\ c.g.state = "suspended_start"
           /\ Head(c.g.queue).magic # "next" -> ServeCompleted(Completed(c))
      [] OTHER -> [c EXCEPT !.g.state = "executing", !.run = TRUE]

Leave(c, below) ==
    /\ Become(c.m)
    /\ gen' = c.g
    /\ answers' = answers \o c.a
    /\ stack' = IF c.run THEN Append(below, GenFrame) ELSE below

\* Mutant: the test of EXECUTING before resume_next is dropped.
RequestResumesAlways(magic, v, bad) ==
    /\ MayAct("gen") /\ Len(requests) < MaxRequests /\ Room(2)
    /\ Len(stack) < MaxDepth
    /\ LET m == NewPromiseCapability(vm)
           c == [Now EXCEPT !.m = m,
                            !.g.overlapped = @ \/ gen.queue # <<>>,
                            !.g.queue = Append(@, Request(magic, v, bad, LastPair(m)))]
       IN /\ Leave(ResumeNext(c), stack)
          /\ requests' = Append(requests, LastPair(m))
    /\ ops' = ops + 1
    /\ UNCHANGED history

\* js_async_generator_next: next(v), return(v) and throw(v).
GenRequest(magic, v, bad) ==
    /\ MayAct("gen") /\ Len(requests) < MaxRequests /\ Room(2)
    /\ Len(stack) < MaxDepth
    /\ LET m == NewPromiseCapability(vm)
           c == [Now EXCEPT !.m = m,
                            !.g.overlapped = @ \/ gen.queue # <<>>,
                            !.g.queue = Append(@, Request(magic, v, bad, LastPair(m)))]
       IN /\ Leave(IF gen.state = "executing" THEN c ELSE ResumeNext(c), stack)
          /\ requests' = Append(requests, LastPair(m))
    /\ ops' = ops + 1
    /\ UNCHANGED history

\* The body yields, throws, returns or awaits: the rest of the loop.
Suspended == {"suspended_yield", "suspended_yield_star"}
GenYield(state) ==
    /\ InGen
    /\ Leave(ResumeNext(Answer([Now EXCEPT !.g.state = state],
                               FALSE, IterResult(FALSE))), Pop)
    /\ UNCHANGED <<ops, requests, history>>
GenThrow ==
    /\ InGen
    /\ Leave(ResumeNext(Answer(Completed(Now), TRUE, Error)), Pop)
    /\ UNCHANGED <<ops, requests, history>>
GenReturn ==
    /\ InGen
    /\ Leave(ResumeNext(Answer(Completed(Now), FALSE, IterResult(TRUE))), Pop)
    /\ UNCHANGED <<ops, requests, history>>
GenAwait(v, bad) ==
    /\ InGen /\ MayAct("gen") /\ Room(1)
    /\ Leave(ThenResume(Now, v, bad, FALSE), Pop)
    /\ ops' = ops + 1
    /\ UNCHANGED <<requests, history>>

Assert(c, cond) == [c EXCEPT !.g.asserted = @ /\ cond]

\* js_async_generator_resolve_function, with the two assertions of the code.
ResolveFunction(magic, isReject, arg) ==
    LET c == [Now EXCEPT !.m = Dequeued]
    IN IF magic = 2
       THEN Answer([Assert(c, gen.state \in {"awaiting_return", "completed"})
                       EXCEPT !.g.state = "completed"],
                   isReject, IF isReject THEN arg ELSE IterResult(TRUE))
       ELSE ResumeNext(Assert(c, gen.state = "executing"))

RunGen ==
    /\ RunnableReaction({"gen", "genThrow"})
    /\ Leave(ResolveFunction(Job.h.i, Job.h.k = "genThrow", Job.arg), stack)
    /\ UNCHANGED <<ops, requests, history>>

GInit ==
    /\ Init /\ requests = <<>> /\ answers = <<>>
    /\ gen = [state |-> "suspended_start", queue |-> <<>>, asserted |-> TRUE,
              lost |-> FALSE, overlapped |-> FALSE]
GNext ==
    \/ (UserNext \/ JobNext) /\ UNCHANGED <<gen, requests, answers>>
    \/ \E magic \in Magics, v \in UserValues :
          \/ GenRequest(magic, v, FALSE)
          \/ magic = "return" /\ v.t = "promise" /\ GenRequest(magic, v, TRUE)
    \/ \E state \in Suspended : GenYield(state)
    \/ \E v \in UserValues :
          GenAwait(v, FALSE) \/ (v.t = "promise" /\ GenAwait(v, TRUE))
    \/ GenThrow \/ GenReturn
    \/ RunGen
GSpec == GInit /\ [][GNext]_gvars

-----------------------------------------------------------------------------
(* Properties *)

IsGenHandler(h) == h.k \in {"gen", "genThrow"}
Continuations ==
    Cardinality({<<p, j>> \in (1 .. NP(vm)) \X (1 .. MaxOps) :
                    /\ j <= Len(vm.promises[p].reactions)
                    /\ IsGenHandler(vm.promises[p].reactions[j].onFulfil)})
    + Cardinality({j \in 1 .. Len(vm.jobs) : IsGenHandler(vm.jobs[j].h)})
    + Cardinality({k \in 1 .. Len(stack) : stack[k].k = "gen"})

\* The two assertions of js_async_generator_resolve_function hold, and a
\* request is waiting whenever the generator gives an answer.
GeneratorAsserts == gen.asserted

\* While the body runs or awaits, and while the value of a return is awaited,
\* exactly one frame, job or reaction will continue the generator and the
\* request it works for is still in the queue; otherwise nothing continues it
\* behind its back.  A second continuation would run the body twice.  The one
\* exception is an awaited promise whose constructor can not be read: nothing
\* continues the generator then, and it never leaves that state.
OneContinuation ==
    IF gen.state \in {"executing", "awaiting_return"}
    THEN gen.queue # <<>> /\ Continuations = IF gen.lost THEN 0 ELSE 1
    ELSE Continuations = 0 /\ ~gen.lost

\* Requests are answered in the order they were made, each once.
AnsweredInOrder == answers = SubSeq(requests, 1, Len(answers))

\* When nothing is left to run, a generator that waits at a yield or has not
\* started owes no answer, and a completed one only if requests were made
\* while others waited: js_async_generator_resume_next serves one request of a
\* completed generator and leaves the rest to the next call.
OwesOnlyOverlapping ==
    Quiescent =>
        /\ gen.state \in Suspended \cup {"suspended_start"} => gen.queue = <<>>
        /\ gen.state = "completed" /\ gen.queue # <<>> => gen.overlapped

================================================================================
